----------------------------- MODULE InputAreas -----------------------------
(***************************************************************************)
(* The input areas of a HyperDoc page and what the keys, the mouse and a   *)
(* paste do with them (handle_key of keyin.c, dialog of dialog.c, input.c, *)
(* SelectionNotify in event.c).  The lines of each are in InputLines.      *)
(***************************************************************************)
EXTENDS InputLines

CONSTANTS
    Pages,      \* pages: the size and default value of each input area, the group and tick of each box
    Char,       \* the characters that are typed
    Pastes,     \* the texts in the selection of X
    MaxEvents,  \* bound on the events
    Careful     \* leaves out what is known to lose or to add characters (README)

ASSUME SizeAssumption == \A p \in Pages : \A i \in DOMAIN p.inputs : p.inputs[i].size \in Nat \ {0, 1}

VARIABLES
    area,               \* the input areas in the order of input_list
    current_item,
    gInInsertMode,
    box,                \* the boxes in the order of the page
    saved,              \* gSavedInputAreaLink: the area that waits for the selection, or 0
    stray,              \* history: where clicks and pastes left a cursor without the focus
    events

vars == <<area, current_item, gInInsertMode, box, saved, stray, events>>

Current == area[current_item]
Event == events < MaxEvents /\ events' = events + 1

DrawnWhole(as) == \E i \in DOMAIN as : as[i].redraw

(* redraw_win shows the page again, with all of its areas. *)
Shown(as) ==
    IF DrawnWhole(as)
    THEN [i \in DOMAIN as |-> draw_inputsymbol(as[i], gInInsertMode, i = current_item)]
    ELSE as

Init ==
    /\ current_item = 1 /\ gInInsertMode = FALSE /\ saved = 0 /\ stray = {} /\ events = 0
    /\ \E p \in Pages :
           /\ area = [i \in DOMAIN p.inputs |->
                         draw_inputsymbol(initialize_default(p.inputs[i].size, p.inputs[i].text), FALSE, i = 1)]
           /\ box = parse_boxes(p.boxes)

-----------------------------------------------------------------------------
(* Where the code keeps the text: see the README for each of the others. *)
Size == Current.size
AtMark(a) == Wraps(Curr(a), a.size) /\ Curr(a).buff_pntr >= a.size
Below(a) == IF a.cur < Len(a.lines) THEN <<a.lines[a.cur + 1]>> ELSE << >>
Above(a) == IF a.cur > 1 THEN <<a.lines[a.cur - 1]>> ELSE << >>
LastLen(a, i) == a.lines[LastOf(a, i)].len
Ended(line, n, size) == n > size \/ line.buffer[n] = NUL

MayOverwrite(a) ==
    LET line == Curr(a)
        bp == line.buff_pntr
    IN  /\ ~AtMark(a)
        /\ bp = a.size - 1 /\ ~Wraps(line, a.size) /\ Below(a) # << >> => Below(a)[1].len # 0
        /\ bp = line.len => Ended(line, bp + 1, a.size)

MayInsert(a) ==
    /\ ~AtMark(a)
    /\ Wraps(Curr(a), a.size) => Below(a)[1].len < a.size /\ Ended(Below(a)[1], Below(a)[1].len + 1, a.size)

(* memmove of less than nothing ends the program. *)
Survives(a) == gInInsertMode => ~(Wraps(Curr(a), a.size) /\ Curr(a).buff_pntr = a.size)
MayType(a) == Survives(a) /\ (Careful => IF gInInsertMode THEN MayInsert(a) ELSE MayOverwrite(a))

(* The paragraph of line i + 1 can be joined to line i. *)
MayJoin(a, i) ==
    LET size == a.size
        n == Len(ParagraphFrom(a, i + 1))
        rows == LastOf(a, i + 1) - i
        room == size - a.lines[i].len
    IN  /\ rows = 1 \/ LastLen(a, i + 1) > 0
        /\ n <= room => Ended(a.lines[i], a.lines[i].len + n, size)
        /\ i = a.cur => room = 0 \/ n - room <= size * (rows - 1)

RestKept(a) == Wraps(Curr(a), a.size) => LastLen(a, a.cur) > 1

MayEraseLeft(a) ==
    /\ RestKept(a)
    /\ Curr(a).buff_pntr = 0 =>
           /\ ~Wraps(Curr(a), a.size)
           /\ Above(a) # << >> => IF Wraps(Above(a)[1], a.size) THEN Curr(a).len # 1 ELSE MayJoin(a, a.cur - 1)

MayEraseRight(a) ==
    /\ ~AtMark(a) /\ RestKept(a)
    /\ Curr(a).buff_pntr = Curr(a).len /\ Below(a) # << >> => MayJoin(a, a.cur)

MayEnter(a) ==
    /\ ~AtMark(a)
    /\ Wraps(Curr(a), a.size) /\ LastOf(a, a.cur) < Len(a.lines) /\ Curr(a).buff_pntr > 0 =>
           LastLen(a, a.cur) <= Curr(a).buff_pntr

MayEraseRest(a) == ~(Curr(a).len = 0 /\ Below(a) # << >> /\ Above(a) # << >> /\ Wraps(Above(a)[1], a.size))
MayGoRight(a) == ~AtMark(a) /\ ~(Curr(a).buff_pntr = a.size - 1 /\ Curr(a).len = a.size)

-----------------------------------------------------------------------------
(* A key that changes the current area. *)
Key(a) ==
    /\ Event
    /\ area' = Shown([area EXCEPT ![current_item] = a])
    /\ stray' = IF a.redraw THEN {} ELSE stray
    /\ UNCHANGED <<current_item, gInInsertMode, box, saved>>

TypeKey(c) == MayType(Current) /\ Key(add_buffer_to_sym(Current, c, gInInsertMode))

(* Without a line above the pointer to it is followed all the same, which ends the program. *)
ReturnKey ==
    /\ Curr(Current).buff_pntr = 0 => Above(Current) # << >>
    /\ Careful => MayEnter(Current)
    /\ Key(enter_new_line(Current))

BackspaceKey == (Careful => MayEraseLeft(Current)) /\ Key(move_back_one_char(Current, gInInsertMode))
DeleteKey == (Careful => MayEraseRight(Current)) /\ Key(delete_one_char(Current, gInInsertMode))
ControlEndKey == (Careful => MayEraseRest(Current)) /\ Key(delete_rest_of_line(Current, gInInsertMode))
EscapeKey == Key(delete_rest_of_line(move_cursor_home(Current, gInInsertMode), gInInsertMode))

HomeKey == Key(move_cursor_home(Current, gInInsertMode))
EndKey == Key(move_cursor_end(Current, gInInsertMode))
LeftKey == Key(move_cursor_backward(Current, gInInsertMode))
RightKey == (Careful => MayGoRight(Current)) /\ Key(move_cursor_forward(Current, gInInsertMode))
UpKey == Key(move_cursor_up(Current, gInInsertMode))
DownKey == Key(move_cursor_down(Current, gInInsertMode))

InsertKey ==
    /\ Event
    /\ gInInsertMode' = ~gInInsertMode
    /\ area' = [area EXCEPT ![current_item] =
                   update_inputsymbol([@ EXCEPT !.lines[Current.cur].changed = TRUE], ~gInInsertMode)]
    /\ UNCHANGED <<current_item, box, saved, stray>>

-----------------------------------------------------------------------------
(* Tab or Return, and Shift-Tab. *)
NewFocus(i) ==
    /\ Event
    /\ current_item' = i
    /\ stray' = stray \ {current_item, i}
    /\ area' = [j \in DOMAIN area |->
                   IF j \in {current_item, i} THEN draw_inputsymbol(area[j], gInInsertMode, j = i) ELSE area[j]]
    /\ UNCHANGED <<gInInsertMode, box, saved>>

next_input_focus == Len(area) > 1 /\ NewFocus(IF current_item = Len(area) THEN 1 ELSE current_item + 1)
prev_input_focus == NewFocus(IF current_item = 1 THEN Len(area) ELSE current_item - 1)

(* A click; update_inputsymbol draws the cursor of the old area again. *)
change_input_focus(i) ==
    /\ current_item' = i
    /\ stray' = (stray \cup {current_item}) \ {i}
    /\ area' = IF i = current_item THEN area
               ELSE [j \in DOMAIN area |->
                        IF j \in {current_item, i} THEN update_inputsymbol(area[j], gInInsertMode) ELSE area[j]]
    /\ UNCHANGED <<gInInsertMode, box>>

Click(i) == Event /\ change_input_focus(i) /\ UNCHANGED saved

(* The second button asks for the selection, which comes later, or not at all. *)
MiddleClick(i) == Event /\ change_input_focus(i) /\ saved' = i

SelectionNotify ==
    /\ saved # 0
    /\ \E s \in Pastes :
           LET add(r, c) ==
                   IF r.ok /\ MayType(r.area[saved])
                   THEN LET as == [r.area EXCEPT ![saved] = add_buffer_to_sym(r.area[saved], c, gInInsertMode)]
                        IN  [r EXCEPT !.area = Shown(as), !.stray = IF DrawnWhole(as) THEN {} ELSE (@ \cup {saved}) \ {current_item}]
                   ELSE [r EXCEPT !.ok = FALSE]
               pasted == FoldLeft(add, [ok |-> TRUE, area |-> area, stray |-> stray], s)
           IN  pasted.ok /\ area' = pasted.area /\ stray' = pasted.stray
    /\ saved' = 0
    /\ UNCHANGED <<current_item, gInInsertMode, box, events>>

NoSelection == saved # 0 /\ saved' = 0 /\ UNCHANGED <<area, current_item, gInInsertMode, box, stray, events>>

ClickBox(b) ==
    /\ Event
    /\ box' = IF box[b].group = NoGroup THEN toggle_input_box(box, b) ELSE toggle_radio_box(box, b)
    /\ UNCHANGED <<area, current_item, gInInsertMode, saved, stray>>

Next == \/ \E c \in Char : TypeKey(c)
        \/ ReturnKey \/ BackspaceKey \/ DeleteKey \/ ControlEndKey \/ EscapeKey
        \/ HomeKey \/ EndKey \/ LeftKey \/ RightKey \/ UpKey \/ DownKey
        \/ InsertKey \/ next_input_focus \/ prev_input_focus
        \/ \E i \in DOMAIN area : Click(i) \/ MiddleClick(i)
        \/ \E b \in DOMAIN box : ClickBox(b)
        \/ SelectionNotify \/ NoSelection

Spec == Init /\ [][Next]_vars

-----------------------------------------------------------------------------
TypeOK ==
    /\ current_item \in DOMAIN area /\ saved \in {0} \cup DOMAIN area /\ stray \subseteq DOMAIN area /\ events \in 0..MaxEvents
    /\ gInInsertMode \in BOOLEAN
    /\ \A i \in DOMAIN area :
           /\ area[i].cur \in DOMAIN area[i].lines /\ area[i].num_lines = Len(area[i].lines)
           /\ \A j \in DOMAIN area[i].lines :
                  LET line == area[i].lines[j]
                  IN  line.len \in 0..(area[i].size + 1) /\ line.buff_pntr \in 0..(area[i].size + 1)

(* The place of the cursor in the text that FriCAS gets for an area. *)
Width(line, size) == IF Wraps(line, size) THEN size ELSE line.len + 1
AtOf(a) == FoldLeft(+, 0, [j \in 1..(a.cur - 1) |-> Width(a.lines[j], a.size)]) + Curr(a).buff_pntr

Areas == INSTANCE TextAreas
    WITH text <- [i \in DOMAIN area |-> print_to_string(area[i])],
         at <- [i \in DOMAIN area |-> AtOf(area[i])],
         focus <- current_item, insert <- gInInsertMode, pasteTo <- {saved} \ {0}, boxes <- box

(***************************************************************************)
(* Every key does what its name says to the text that FriCAS gets with a   *)
(* command (dialog, print_to_string1): lines that are too long for the     *)
(* window are cut, filled, joined and renumbered, and what an earlier line *)
(* left in a buffer never comes back.  A paste goes where it was asked for *)
(* although the focus has gone elsewhere, and a group of radio boxes never *)
(* has two ticks.                                                          *)
(***************************************************************************)
EditsText ==
    [][/\ \A c \in Char : TypeKey(c) => Areas!Type(c)
       /\ ReturnKey => Areas!NewLine
       /\ BackspaceKey => Areas!EraseLeft
       /\ DeleteKey => Areas!EraseRight
       /\ ControlEndKey => Areas!EraseRest
       /\ EscapeKey => Areas!EraseLine
       /\ HomeKey => Areas!ToStart
       /\ EndKey => Areas!ToEnd
       /\ LeftKey => Areas!Left
       /\ RightKey => Areas!Right
       /\ UpKey => Areas!Up
       /\ DownKey => Areas!Down
       /\ InsertKey => Areas!ToggleInsert
       /\ \A b \in DOMAIN box : ClickBox(b) => Areas!Tick(b)
       /\ SelectionNotify => Areas!Paste
       /\ Areas!Next \/ UNCHANGED Areas!areas]_vars

(***************************************************************************)
(* The window of every area shows its lines (update_inputsymbol draws only *)
(* the lines marked as changed) and, in the one that has the focus, the    *)
(* cursor of the mode.  No cursor is at any other place, except that an    *)
(* area keeps its own when a click takes the focus from it (input.c        *)
(* 129-130) and gets it back when a paste comes late, until it is drawn    *)
(* whole: the code does not keep what ug03.htex 212 and 224 say, that only *)
(* one area has a cursor and that it moves with the click.                 *)
(***************************************************************************)
Cursors == {Bar, Block}

WindowShowsText ==
    \A i \in DOMAIN area :
        LET a == area[i]
        IN  /\ Len(a.screen) = Len(a.lines)
            /\ \A y \in DOMAIN a.screen : \A k \in 0..a.size :
                   LET here == y = a.cur /\ k = Curr(a).buff_pntr
                   IN  /\ a.screen[y][k] \ Cursors = IF k < a.lines[y].len THEN {a.lines[y].buffer[k]} ELSE {}
                       /\ a.screen[y][k] \cap Cursors # {} => here /\ i \in {current_item} \cup stray
                       /\ here /\ i = current_item =>
                              (IF gInInsertMode THEN Block ELSE Bar) \in a.screen[y][k]

=============================================================================

----------------------------- MODULE InputLines -----------------------------
(***************************************************************************)
(* The lines of an input area of HyperDoc (dialog.c, parse-input.c) as the *)
(* keys change them.  A line is a row of the window: a buffer of size + 2  *)
(* characters of which the first len count.  A line with len = size + 1    *)
(* ends with '_' and goes on in the next one.                              *)
(*                                                                         *)
(* An area is [size, lines, cur, num_lines, screen, redraw]: cur is the    *)
(* index of curr_line; the screen holds, for each row of the window and    *)
(* each column, what was drawn there since it was cleared; redraw says     *)
(* that redraw_win was called, which draws every area of the page again.   *)
(*                                                                         *)
(* A definition D_Fault that stands before a definition D is a faulty      *)
(* variant of D: it is used only to show that a property would notice.     *)
(***************************************************************************)
EXTENDS Integers, Sequences, SequencesExt

NUL == ""
NL == "newline"
Mark == "_"
Bar == "bar"        \* the cursor of overwrite mode: a line under the character
Block == "block"    \* that of insert mode: the character on a filled ground

alloc_inputline(size, number) ==
    [buffer |-> [k \in 0..(size + 1) |-> NUL], changed |-> FALSE, line_number |-> number, buff_pntr |-> 0, len |-> 0]

(* A new line with its first character. *)
Begun(size, c, p) ==
    [buffer |-> [k \in 0..(size + 1) |-> IF k = 0 THEN c ELSE NUL], changed |-> FALSE, line_number |-> 0, buff_pntr |-> p,
     len |-> 1]

Wraps(line, size) == line.len > size
Curr(a) == a.lines[a.cur]
FirstOf(a, i) == Max({0} \cup {j \in 1..(i - 1) : ~Wraps(a.lines[j], a.size)}) + 1
LastOf(a, i) == Min({j \in i..Len(a.lines) : ~Wraps(a.lines[j], a.size)})

(* n characters of a buffer at other places of another, or of the same. *)
Copied(to, at, from, first, n) ==
    [k \in DOMAIN to |-> IF k \in at..(at + n - 1) THEN from[first + k - at] ELSE to[k]]
Moved(line, at, first, n) == [line EXCEPT !.buffer = Copied(@, at, @, first, n)]

(* The row ends with the mark, and the buffer with 0. *)
Marked(line, size) == [line EXCEPT !.buffer[size] = Mark, !.buffer[size + 1] = NUL, !.len = size + 1]

Renumbered(lines, from, by) ==
    [j \in DOMAIN lines |-> IF j < from THEN lines[j] ELSE [lines[j] EXCEPT !.line_number = @ + by]]

LineAfter(a, i, line) ==
    [a EXCEPT !.lines = InsertAt(Renumbered(@, i + 1, 1), i + 1, [line EXCEPT !.line_number = a.lines[i].line_number + 1]),
              !.num_lines = @ + 1]
LinesGone(a, from, n) ==
    [a EXCEPT !.lines = Renumbered(SubSeq(@, 1, from - 1) \o SubSeq(@, from + n, Len(@)), from, -n),
              !.num_lines = @ - n]

-----------------------------------------------------------------------------
(* Drawing: XDrawString draws over what is there. *)
Drawn(a, y, line) ==
    IF y \notin DOMAIN a.screen THEN a
    ELSE [a EXCEPT !.screen[y] = [k \in DOMAIN @ |-> IF k < line.len THEN @[k] \cup {line.buffer[k]} ELSE @[k]]]

Cleared(a, y, columns) ==
    IF y \notin DOMAIN a.screen THEN a
    ELSE [a EXCEPT !.screen[y] = [k \in DOMAIN @ |-> IF k \in columns THEN {} ELSE @[k]]]

clear_cursor(a) ==
    LET line == Curr(a)
    IN  Drawn(Cleared(a, line.line_number, {line.buff_pntr}), line.line_number, line)

clear_cursorline(a) ==
    LET line == Curr(a)
    IN  Drawn(Cleared(a, line.line_number, line.buff_pntr..a.size), line.line_number, line)

draw_cursor(a, ins) ==
    LET line == Curr(a)
        x == line.buff_pntr
        y == line.line_number
        under == IF line.buffer[x] = NUL THEN {} ELSE {line.buffer[x]}
    IN  IF y \notin DOMAIN a.screen \/ x > a.size THEN a
        ELSE [a EXCEPT !.screen[y][x] = IF ins THEN {Block} \cup under ELSE @ \cup {Bar}]

Unchanged(a) == [a EXCEPT !.lines = [j \in DOMAIN @ |-> [@[j] EXCEPT !.changed = FALSE]]]

(* The changed lines, each at the row of its place in the list. *)
update_inputsymbol(a, ins) ==
    LET shown == FoldLeft(LAMBDA s, j : IF a.lines[j].changed THEN Drawn(Cleared(s, j, 0..a.size), j, a.lines[j]) ELSE s,
                          a, [j \in DOMAIN a.lines |-> j])
    IN  draw_cursor(Unchanged(shown), ins)

(* The window is as high as num_lines when the page is shown. *)
draw_inputsymbol(a, ins, current) ==
    LET clear == [a EXCEPT !.screen = [y \in 1..a.num_lines |-> [k \in 0..a.size |-> {}]], !.redraw = FALSE]
        shown == FoldLeft(LAMBDA s, j : Drawn(s, j, a.lines[j]), clear, [j \in DOMAIN a.lines |-> j])
    IN  IF current THEN draw_cursor(Unchanged(shown), ins) ELSE Unchanged(shown)

redraw_win(a) == [a EXCEPT !.redraw = TRUE]

-----------------------------------------------------------------------------
(* The default value when the page is parsed. *)
initialize_default(size, text) ==
    LET fill(r, c) ==
            LET n == Len(r)
                full == r[n].len = size
                next == alloc_inputline(size, n + 1)
            IN  IF c = NL THEN Append(r, next)
                ELSE IF full THEN Append([r EXCEPT ![n] = Marked(@, size)],
                                         [Begun(size, c, 0) EXCEPT !.line_number = n + 1])
                ELSE [r EXCEPT ![n].buffer[r[n].len] = c, ![n].len = @ + 1]
        lines == FoldLeft(fill, <<alloc_inputline(size, 1)>>, text)
    IN  [size |-> size, lines |-> [lines EXCEPT ![Len(lines)].buff_pntr = lines[Len(lines)].len],
         cur |-> Len(lines), num_lines |-> Len(lines), screen |-> << >>, redraw |-> FALSE]

(* The boxes of the page: a radio box comes to the others of its group. *)
NoGroup == ""
check_others(boxes, group) == \E i \in DOMAIN boxes : boxes[i].group = group /\ boxes[i].picked

parse_simplebox(boxes, box) == Append(boxes, box)
parse_radiobox(boxes, box) == Append(boxes, [box EXCEPT !.picked = @ /\ ~check_others(boxes, box.group)])
parse_boxes(page) ==
    FoldLeft(LAMBDA bs, b : IF b.group = NoGroup THEN parse_simplebox(bs, b) ELSE parse_radiobox(bs, b), << >>, page)

toggle_input_box(boxes, b) == [boxes EXCEPT ![b].picked = ~@]

(* Only the first that is picked is cleared. *)
clear_rbs(boxes, group) ==
    IF check_others(boxes, group)
    THEN [boxes EXCEPT ![Max({i \in DOMAIN boxes : boxes[i].group = group /\ boxes[i].picked})].picked = FALSE]
    ELSE boxes
toggle_radio_box(boxes, b) ==
    IF boxes[b].picked THEN boxes ELSE [clear_rbs(boxes, boxes[b].group) EXCEPT ![b].picked = TRUE]

-----------------------------------------------------------------------------
(* A character over the one at the cursor. *)
overwrite_buffer(a, c, ins) ==
    LET size == a.size
        i == a.cur
        line == Curr(a)
        atEnd == line.buff_pntr = size
        nl == atEnd /\ ~Wraps(line, size)
        first(l) == [l EXCEPT !.len = 1, !.buff_pntr = 1, !.buffer[0] = c]
        typed ==
            IF nl THEN [LineAfter([clear_cursor(a) EXCEPT !.lines[i] = Marked(@, size)], i,
                                  Begun(size, c, 1)) EXCEPT !.cur = i + 1]
            ELSE IF atEnd THEN [clear_cursor(a) EXCEPT !.lines[i + 1] = first(@), !.cur = i + 1]
            ELSE [clear_cursor([a EXCEPT !.lines[i].buffer[line.buff_pntr] = c])
                     EXCEPT !.lines[i].buff_pntr = @ + 1,
                            !.lines[i].len = IF line.buff_pntr = line.len THEN @ + 1 ELSE @]
        j == typed.cur
        onNext == /\ Curr(typed).buff_pntr >= size
                  /\ j < Len(typed.lines) /\ typed.lines[j + 1].len = 0
        placed ==
            IF onNext THEN [typed EXCEPT !.lines[j].buffer[size] = Mark, !.lines[j].len = size + 1,
                                         !.lines[j + 1].buff_pntr = 0, !.lines[j + 1].changed = TRUE, !.cur = j + 1]
            ELSE typed
    IN  IF nl THEN redraw_win(placed)
        ELSE draw_cursor(Drawn(placed, line.line_number, placed.lines[j]), ins)

(* The lines from i on make room for one character; see insert_buffer for when this keeps them. *)
RECURSIVE move_sym_forward(_, _)
move_sym_forward(a, i) ==
    LET size == a.size
        line == a.lines[i]
    IN  IF Wraps(line, size)
        THEN LET r == move_sym_forward(a, i + 1)
                 over == [k \in 0..(size + 1) |-> CASE k = 0 -> line.buffer[size - 1] [] k = 1 -> Mark [] OTHER -> NUL]
             IN  [r EXCEPT !.area.lines[i + 1].buffer = over,
                           !.area.lines[i] = [Moved(@, 1, 0, 1) EXCEPT !.changed = TRUE]]
        ELSE IF line.len + 1 > size
        THEN [nl |-> TRUE,
              area |-> [LineAfter([a EXCEPT !.lines[i] = Marked(Moved(@, 1, 0, 1), size)], i,
                                  Begun(size, line.buffer[size - 1], 0))
                           EXCEPT !.lines[i].line_number = @ + 1, !.lines[i + 1].line_number = line.line_number]]
        ELSE [nl |-> FALSE,
              area |-> [a EXCEPT !.lines[i] = [Moved(@, 1, 0, line.len) EXCEPT !.len = @ + 1, !.changed = TRUE]]]

(* A character before the one at the cursor. *)
insert_buffer(a, c, ins) ==
    LET size == a.size
        i == a.cur
        line == Curr(a)
        bp == line.buff_pntr
        fits == [clear_cursorline([a EXCEPT !.lines[i] = [Moved(@, bp + 1, bp, line.len - bp + 2)
                                                             EXCEPT !.len = @ + 1, !.buffer[bp] = c]])
                    EXCEPT !.lines[i].buff_pntr = @ + 1]
        pushed == move_sym_forward(a, i + 1)
        inRow == [pushed.area EXCEPT
                     !.lines[i + 1].buffer[0] = line.buffer[size - 1],
                     !.lines[i] = [Moved(@, bp + 1, bp, size - bp - 1)
                                      EXCEPT !.buffer[bp] = c, !.buff_pntr = @ + 1, !.changed = TRUE]]
        beyond == [pushed.area EXCEPT !.lines[i].changed = TRUE,
                                      !.lines[i + 1] = [@ EXCEPT !.buffer[0] = c, !.len = @ + 1,
                                                                 !.buff_pntr = 1, !.changed = TRUE]]
        before == IF bp > size THEN beyond
                  ELSE IF bp + 1 >= size THEN [inRow EXCEPT !.cur = i + 1, !.lines[i + 1].buff_pntr = 0] ELSE inRow
        leader == [LineAfter([a EXCEPT !.lines[i] = Marked(@, size)], i, Begun(size, c, 1)) EXCEPT !.cur = i + 1]
        shifted == Marked([Moved(line, bp + 1, bp, size - bp) EXCEPT !.buffer[bp] = c], size)
        within ==
            LET b == LineAfter([a EXCEPT !.lines[i] = shifted], i, Begun(size, line.buffer[size - 1], 0))
            IN  IF bp < size - 1 THEN [b EXCEPT !.lines[i].buff_pntr = @ + 1] ELSE [b EXCEPT !.cur = i + 1]
    IN  IF line.len < size THEN draw_cursor(fits, ins)
        ELSE IF Wraps(line, size)
        THEN IF pushed.nl THEN redraw_win(before) ELSE update_inputsymbol(before, ins)
        ELSE redraw_win(IF bp >= size THEN leader ELSE within)

add_buffer_to_sym(a, c, ins) == IF ins THEN insert_buffer(a, c, ins) ELSE overwrite_buffer(a, c, ins)

-----------------------------------------------------------------------------
(* The cursor goes to column p of line j. *)
CursorTo(a, j, p, ins) ==
    draw_cursor([clear_cursor(a) EXCEPT !.cur = j, !.lines[j].buff_pntr = p], ins)

move_cursor_home(a, ins) == CursorTo(a, FirstOf(a, a.cur), 0, ins)
move_cursor_end(a, ins) == LET j == LastOf(a, a.cur) IN CursorTo(a, j, a.lines[j].len, ins)

move_cursor_forward(a, ins) ==
    LET line == Curr(a)
    IN  IF line.buff_pntr \notin {line.len, a.size - 1} THEN CursorTo(a, a.cur, line.buff_pntr + 1, ins)
        ELSE IF a.cur < Len(a.lines) THEN CursorTo(a, a.cur + 1, 0, ins)
        ELSE a

move_cursor_backward(a, ins) ==
    LET above == a.lines[a.cur - 1]
    IN  IF Curr(a).buff_pntr > 0 THEN CursorTo(a, a.cur, Curr(a).buff_pntr - 1, ins)
        ELSE IF a.cur = 1 THEN a
        ELSE CursorTo(a, a.cur - 1, IF Wraps(above, a.size) THEN a.size - 1 ELSE above.len, ins)

InColumn(a, j, ins) == CursorTo(a, j, Min({Curr(a).buff_pntr, a.lines[j].len}), ins)
move_cursor_down(a, ins) ==
    LET last == LastOf(a, a.cur) IN IF last = Len(a.lines) THEN a ELSE InColumn(a, last + 1, ins)
move_cursor_up(a, ins) ==
    LET first == FirstOf(a, a.cur) IN IF first = 1 THEN a ELSE InColumn(a, first - 1, ins)

-----------------------------------------------------------------------------
(* The rest of a paragraph, from line j on, moves back by its first character, which is returned. *)
move_rest_back(a, j) ==
    LET size == a.size
        last == LastOf(a, j)
        back(l, next, k) ==
            IF k < last THEN [Moved(l, 0, 1, size - 1) EXCEPT !.buffer[size - 1] = next.buffer[0], !.changed = TRUE]
            ELSE IF l.len = 0 THEN l
            ELSE [Moved(l, 0, 1, l.len - 1) EXCEPT !.buffer[l.len - 1] = NUL, !.len = @ - 1, !.changed = TRUE]
        moved == [a EXCEPT !.lines = [k \in DOMAIN @ |-> IF k \in j..last THEN back(@[k], @[Min({k + 1, Len(@)})], k) ELSE @[k]]]
    IN  IF a.lines[j].len = 0 THEN [c |-> NUL, area |-> a]
        ELSE [c |-> a.lines[j].buffer[0],
              area |-> IF a.lines[last].len = 1
                       THEN [moved EXCEPT !.lines[last - 1].len = size, !.lines[last - 1].buffer[size] = NUL]
                       ELSE moved]

RestBack(a) == IF Wraps(Curr(a), a.size) THEN move_rest_back(a, a.cur + 1) ELSE [c |-> NUL, area |-> a]

Closed_Fault(a, to, at, c) ==
    LET line == Curr(a)
        n == Min({line.len, a.size})
        moved == Moved(line, to, at, n - at)
    IN  [a EXCEPT !.lines[a.cur] = [moved EXCEPT !.buffer[n - 1] = NUL, !.len = n - 1]]

(* The characters from column at on move back to column to; c comes to the end of the row. *)
Closed(a, to, at, c) ==
    LET size == a.size
        i == a.cur
        line == Curr(a)
        short == Moved(line, to, at, line.len - at)
        long == Moved(line, to, at, size - at)
        unmarked == IF i < Len(a.lines) /\ a.lines[i + 1].len = 0 THEN [long EXCEPT !.buffer[size] = NUL, !.len = size] ELSE long
    IN  [a EXCEPT !.lines[i] =
            IF ~Wraps(line, size)
            THEN IF c = NUL THEN [short EXCEPT !.len = @ - 1, !.buffer[line.len - 1] = NUL]
                 ELSE [short EXCEPT !.buffer[line.len - 1] = c]
            ELSE IF c = NUL THEN [long EXCEPT !.buffer[size - 1] = NUL, !.len = size - 1]
                 ELSE [unmarked EXCEPT !.buffer[size - 1] = c]]

(* The characters of the paragraph that starts at line j. *)
RowChars(l, size) == [k \in 1..Min({l.len, size}) |-> l.buffer[k - 1]]
ParagraphFrom(a, j) == FlattenSeq([k \in 1..(LastOf(a, j) - j + 1) |-> RowChars(a.lines[j + k - 1], a.size)])

(* The paragraph that starts at line j + 1 is written again from the end of line j on. *)
Joined(a, j) ==
    LET size == a.size
        text == ParagraphFrom(a, j + 1)
        last == LastOf(a, j + 1)
        room == size - a.lines[j].len
        inFirst == Min({room, Len(text)})
        n == Len(text) - inFirst            \* what is left for the lines below
        filled(l, from, m) == [l EXCEPT !.buffer = [k \in DOMAIN @ |-> IF k < m THEN text[from + k] ELSE @[k]]]
        row(k, l) ==
            LET from == inFirst + (k - j - 1) * size + 1
                left == Len(text) - from + 1
            IN  IF left > size THEN [Marked(filled(l, from, size), size) EXCEPT !.changed = TRUE]
                ELSE IF left > 0 THEN [filled(l, from, left) EXCEPT !.len = left, !.buffer[left] = NUL]
                ELSE IF k = last THEN [l EXCEPT !.len = 0] ELSE l
        top == [a.lines[j] EXCEPT !.changed = TRUE,
                                  !.buffer = Copied(@, a.lines[j].len, [k \in 1..Len(text) |-> text[k]], 1, inFirst)]
        written == [a EXCEPT !.lines = [k \in DOMAIN @ |->
                        CASE k = j -> IF n = 0 THEN [top EXCEPT !.len = @ + inFirst] ELSE Marked(top, size)
                          [] k > j /\ k <= last -> row(k, @[k])
                          [] OTHER -> @[k]]]
    IN  IF written.lines[last].len = 0 THEN redraw_win(LinesGone(written, last, 1)) ELSE written

back_over_eoln(a) ==
    Joined([a EXCEPT !.lines[a.cur - 1].buff_pntr = a.lines[a.cur - 1].len, !.cur = @ - 1], a.cur - 1)

(* Backspace. *)
move_back_one_char(a, ins) ==
    LET size == a.size
        r == RestBack(a)
        b == [r.area EXCEPT !.lines[a.cur].changed = TRUE]
        i == a.cur
        line == Curr(b)
        above == b.lines[i - 1]
        (* At the front of a row that is not empty: its first character goes to the row above. *)
        front == IF Wraps(line, size) THEN Moved(line, 0, 1, size - 2) ELSE Moved(line, 0, 1, line.len - 1)
        end == Min({line.len, size}) - 1
        pulled == [front EXCEPT !.buffer[end] = r.c, !.len = IF r.c = NUL THEN @ - 1 ELSE @]
        up(x) == [x EXCEPT !.cur = i - 1, !.lines[i - 1].changed = TRUE, !.lines[i - 1].buff_pntr = size]
        erased(x, c) ==
            LET p == Curr(x).buff_pntr
            IN  [Closed(x, p - 1, p, c) EXCEPT !.lines[x.cur].buff_pntr = p - 1]
    IN  IF line.buff_pntr > 0 THEN update_inputsymbol(erased(b, r.c), ins)
        ELSE IF i = 1 THEN b
        ELSE IF ~Wraps(above, size) THEN update_inputsymbol(back_over_eoln(b), ins)
        ELSE IF line.len > 0
        THEN update_inputsymbol(erased(up([b EXCEPT !.lines[i] = pulled]), line.buffer[0]), ins)
        ELSE redraw_win(erased(LinesGone(up(b), i, 1), NUL))

(* Delete. *)
delete_one_char_Fault(a, ins) ==
    LET r == RestBack(a)
        p == Curr(a).buff_pntr
    IN  IF r.c = NUL /\ Curr(a).len = p
        THEN IF a.cur = Len(a.lines) THEN a ELSE update_inputsymbol(Joined(a, a.cur), ins)
        ELSE update_inputsymbol(Closed(r.area, p, p + 1, r.c), ins)

delete_one_char(a, ins) ==
    LET r == RestBack(a)
        p == Curr(a).buff_pntr
    IN  IF r.c = NUL /\ Curr(a).len = p
        THEN IF a.cur = Len(a.lines) THEN a ELSE update_inputsymbol(Joined(a, a.cur), ins)
        ELSE update_inputsymbol([Closed(r.area, p, p + 1, r.c) EXCEPT !.lines[a.cur].changed = TRUE], ins)

(* Ctrl-End, and Escape after Home; the write to buffer[size + 2] is outside of the buffer. *)
delete_rest_of_line(a, ins) ==
    LET size == a.size
        i == a.cur
        line == Curr(a)
        n == LastOf(a, i) - i
        cut == [line EXCEPT !.len = line.buff_pntr, !.changed = TRUE,
                            !.buffer = [k \in DOMAIN @ |-> IF k < line.buff_pntr THEN @[k] ELSE NUL]]
        rest == [a EXCEPT !.lines[i] = cut]
    IN  IF n = 0 /\ line.buff_pntr = line.len
        THEN IF line.len = 0 /\ i < Len(a.lines) THEN redraw_win([LinesGone(a, i, 1) EXCEPT !.lines[i].buff_pntr = 0])
             ELSE a
        ELSE IF n > 0 THEN redraw_win(LinesGone(rest, i + 1, n)) ELSE update_inputsymbol(rest, ins)

-----------------------------------------------------------------------------
(* Return in a row that goes on: what follows the cursor is written again from the next line on. *)
tough_enter(a) ==
    LET size == a.size
        i == a.cur
        bp == Curr(a).buff_pntr
        last == LastOf(a, i)
        text == SubSeq(ParagraphFrom(a, i), bp + 1, Len(ParagraphFrom(a, i)))
        above == (last - i - 1) * size
        left == Len(text) - above
        filled(l, from, m) == [l EXCEPT !.buffer = [k \in DOMAIN @ |-> IF k < m THEN text[from + k] ELSE @[k]], !.changed = TRUE]
        row(k, l) ==
            IF k < last THEN Marked(filled(l, (k - i - 1) * size + 1, size), size)
            ELSE IF left > size THEN Marked(filled(l, above + 1, size), size)
            ELSE [filled(l, above + 1, left) EXCEPT !.len = left, !.buffer[left] = NUL]
        written == [a EXCEPT !.lines = [k \in DOMAIN @ |->
                        CASE k = i -> [@[k] EXCEPT !.len = bp, !.buffer[bp] = NUL, !.changed = TRUE]
                          [] k > i /\ k <= last -> row(k, @[k])
                          [] OTHER -> @[k]],
                            !.cur = i + 1]
        new == [alloc_inputline(size, a.lines[last].line_number + 1)
                   EXCEPT !.len = left - size,
                          !.buffer = [k \in DOMAIN @ |-> IF k < left - size THEN text[above + size + 1 + k] ELSE NUL]]
        grown == IF left > size THEN [written EXCEPT !.lines = InsertAt(@, last + 1, new), !.num_lines = @ + 1]
                 ELSE written
    IN  [grown EXCEPT !.lines[i + 1].buff_pntr = 0]

(* Shift-Return; at the front of the first line there is no line before to look at. *)
enter_new_line(a) ==
    LET size == a.size
        i == a.cur
        line == Curr(a)
        bp == line.buff_pntr
        n == line.len - bp
        new == alloc_inputline(size, 0)
        tail == [new EXCEPT !.len = n, !.buffer = [k \in DOMAIN @ |-> IF k < n THEN line.buffer[bp + k] ELSE NUL]]
    IN  redraw_win(
          IF bp = 0
          THEN IF Wraps(a.lines[i - 1], size)
               THEN [a EXCEPT !.lines[i - 1] = [@ EXCEPT !.buffer[size] = NUL, !.len = size, !.changed = TRUE]]
               ELSE [LineAfter(a, i - 1, new) EXCEPT !.cur = i + 1, !.lines[i].line_number = line.line_number]
          ELSE IF bp = size /\ Wraps(line, size)
          THEN [LineAfter([a EXCEPT !.lines = SubSeq(@, 1, i)], i, new) EXCEPT !.cur = i + 1]
          ELSE IF Wraps(line, size) THEN tough_enter(a)
          ELSE [LineAfter([a EXCEPT !.lines[i].len = bp, !.lines[i].buffer[bp] = NUL], i, tail) EXCEPT !.cur = i + 1])

-----------------------------------------------------------------------------
(* What a command that uses the area gets: each row up to the 0 that ends it. *)
RowValue(l, size) ==
    LET end == Min({size} \cup {k \in 0..(size - 1) : l.buffer[k] = NUL})
    IN  [k \in 1..end |-> l.buffer[k - 1]]

print_to_string(a) ==
    FlattenSeq([j \in DOMAIN a.lines |->
        RowValue(a.lines[j], a.size)
            \o (IF a.lines[j].len <= a.size /\ j < Len(a.lines) THEN <<NL>> ELSE << >>)])
=============================================================================

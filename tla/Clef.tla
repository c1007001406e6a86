--------------------------------- MODULE Clef ---------------------------------
(***************************************************************************)
(* src/clef: the line editor in front of the interpreter, as the program   *)
(* clef (a filter around a child on a pseudo terminal) and as spadbuf (the *)
(* window of a HyperDoc page, talking to the session manager).  The edit   *)
(* buffer is modelled byte by byte with its flags and with what is left in *)
(* it behind the line, because several operations print that; the terminal *)
(* is the row right of the prompt.                                         *)
(*                                                                         *)
(* A flag says what a byte is: 1 typed, 2 the circumflex that stands for a *)
(* control character, 0 the letter after it, 49 (the character '1') part   *)
(* of a function key's text, -1 the end.                                   *)
(***************************************************************************)
EXTENDS Integers, Sequences, FiniteSets, SequencesExt, TLC

CONSTANTS
    MAXLINE,        \* size of the edit buffer (1024)
    MAXRING,        \* lines kept (64)
    prev_check,     \* how many of them are compared with a new line (10)
    Typing,         \* for each kind of user, the sequences of keys that may arrive together
    Embedded,       \* the users who sit in front of spadbuf
    Files,          \* the words of each completion file when clef starts
    Pasted,         \* the runs of characters that may arrive together
    NewWords,       \* what may be written to such a file later
    FunctionKey,    \* the texts of the keys "delayed" and "immediate"
    Careful,        \* the user avoids the keys whose handlers are known to go wrong
    MaxReads        \* bound on how often each kind of user types

NULL == 0
ASSUME SizeAssumption ==
    /\ MAXLINE \in Nat \ {0} /\ MAXRING \in Nat \ {0} /\ prev_check \in Nat \ {0}
    /\ \A u \in DOMAIN Typing : MaxReads[u] \in Nat

VARIABLES
    user,           \* who types
    in_buff,        \* keys read and not yet processed
    reads,          \* how often it read
    spent,          \* done_completely: an earlier key of the same read was a function key
    had_tab_last,
    buff, buff_pntr, curr_pntr, INS_MODE,
    tty,            \* the row right of the prompt and the column of the terminal's cursor
    echo,           \* lines sent to the child that it has not echoed yet
    sent,           \* the bytes last sent: a line, or the keys from an interrupt on
    ring, current, next, prev, entry, ring_size,        \* the history: a circular list
    wordv, disk, newer, curr_wix, curr_prefix           \* completion

editVars == <<buff, buff_pntr, curr_pntr>>
ringVars == <<ring, next, prev, entry, ring_size>>
wordVars == <<wordv, newer, curr_wix, curr_prefix>>
vars == <<user, in_buff, reads, spent, had_tab_last, buff, buff_pntr, curr_pntr, INS_MODE, tty, echo,
          sent, ring, current, next, prev, entry, ring_size, wordv, disk, newer, curr_wix, curr_prefix>>

Node == 1 .. MAXRING
PTY == user \notin Embedded

-----------------------------------------------------------------------------
(* The edit buffer.  One byte more than the array: what stands behind it.  *)

Cell(c, f) == [c |-> c, f |-> f]
Cells(s, f) == [i \in DOMAIN s |-> Cell(s[i], f)]
Nothing == Cell("nul", 0)

(* The bytes of a printing key; one character of two bytes stands for UTF-8. *)
Bytes(k) == IF k = "uml" THEN <<"uml", "tail">> ELSE <<k>>
Printing == {"a", "b", "sp", "uml", "^", "["}

DistRight(b, i) == IF b[i].c = "uml" THEN 2 ELSE 1
DistLeft(b, i) == IF i > 1 /\ b[i - 1].c = "tail" /\ b[i - 2].c = "uml" THEN 2 ELSE 1

Shifted(b, from, to, d) == [i \in DOMAIN b |-> IF i - d \in from .. to - 1 THEN b[i - d] ELSE b[i]]
Stored(b, pos, s) == [i \in DOMAIN b |-> IF i - pos + 1 \in DOMAIN s THEN s[i - pos + 1] ELSE b[i]]
Emptied(b) == [b EXCEPT ![0] = Cell("nul", -1)]

(* The places a loop with cp += dist_right(cp) visits from i until j is reached. *)
Starts(b, i, j) == SelectSeq([n \in 1 .. j - i |-> i + n - 1], LAMBDA k : k = i \/ b[k - 1].c # "uml")

Printed(b, i, j) == LET s == Starts(b, i, j) IN [n \in DOMAIN s |-> b[s[n]].c]
Width(b, i, j) == Len(Starts(b, i, j))

-----------------------------------------------------------------------------
(* The terminal.  displaced: output came when neither clef nor spadbuf      *)
(* could put the line and the cursor back where they were (Output).        *)

EmptyRow == [row |-> [c \in 0 .. MAXLINE |-> "sp"], col |-> 0, displaced |-> FALSE]

(* Zero bytes print nothing. *)
Put(t, s) ==
    LET g == SelectSeq(s, LAMBDA c : c # "nul")
    IN  [t EXCEPT !.row = [c \in t.col .. t.col + Len(g) - 1 |-> g[c - t.col + 1]] @@ @, !.col = @ + Len(g)]
Back(t, n) == [t EXCEPT !.col = @ - n]
Blanks(n) == [i \in 1 .. n |-> "sp"]

(* Print what moved left and blank the n columns that became free. *)
DelPrint_Fault(t, b, from, to, n) ==
    LET s == Printed(b, from, to) IN Back(Put(t, s \o Blanks(n)), Len(s))

DelPrint(t, b, from, to, n) ==
    LET s == Printed(b, from, to) IN Back(Put(t, s \o Blanks(n)), Len(s) + n)

(* Print cnt new bytes and what follows them up to bp, and return behind them. *)
InsPrint(t, b, from, cnt, bp) ==
    LET new == Starts(b, from, from + cnt)
        rest == IF new = <<>> THEN from ELSE Last(new) + DistRight(b, Last(new))
    IN  Back(Put(t, Printed(b, from, from + cnt) \o Printed(b, rest, bp)), Width(b, rest, bp))

ClearBuff(t) ==
    LET all == Width(buff, 0, buff_pntr)
    IN  IF buff_pntr = 0 THEN t ELSE Back(Put(Back(t, Width(buff, 0, curr_pntr)), Blanks(all)), all)

-----------------------------------------------------------------------------
(* The line as it goes into the history and is compared there. *)

Line(b, bp) == [i \in 1 .. bp |-> b[i - 1]]
Same(s, t) == [i \in DOMAIN s |-> s[i].c] = [i \in DOMAIN t |-> t[i].c]

Delimiter(c) == c \notin {"a", "b", "A"}

-----------------------------------------------------------------------------
(***************************************************************************)
(* What a careful user types.  Each condition keeps away from a handler    *)
(* that goes wrong:                                                        *)
(*   home      takes one column per byte;                                  *)
(*   delete    takes the flag of a function key's text for that of a pair; *)
(*   insert    prints the byte behind the line;                            *)
(*   up, down  move curr_pntr without a history;                           *)
(*   overwriting splits pairs, and a control character eats the line's end;*)
(*   function keys print a byte too many, check no bound, and do not       *)
(*             lengthen a line that is overwritten;                        *)
(*   enter     ends a full line behind the buffer, and a typed circumflex  *)
(*             is not told from a control character in the history;        *)
(*   tab       twice at the beginning reads before the buffer, and in a    *)
(*             word that becomes shorter moves text over what is before it.*)
(***************************************************************************)
Rest == {buff[i] : i \in curr_pntr .. buff_pntr - 1}
AtEnd == curr_pntr = buff_pntr
NoPairs == \A i \in 0 .. buff_pntr - 1 : buff[i].f \notin {0, 2}
Clean == \A i \in buff_pntr .. MAXLINE : buff[i].c = "nul"
ToldApart == \A n \in Node :
    LET line == Line(buff, buff_pntr)
    IN  Same(entry[n], line) => [i \in DOMAIN line |-> entry[n][i].f = 1] = [i \in DOMAIN line |-> line[i].f = 1]

SoundKey(k) ==
    /\ k = "home" => \A i \in 0 .. curr_pntr - 1 : buff[i].c # "uml"
    /\ k \in {"delete", "del"} => AtEnd \/ buff[curr_pntr].f # 49
    /\ k = "insert" => ~ AtEnd \/ buff[curr_pntr].c = "nul"
    /\ k \in {"up", "down"} => ring # NULL \/ AtEnd
    /\ k \in Printing => INS_MODE \/ \A x \in Rest : x.f # 2
    /\ k \in {"control", "eof", "escM", "unknown"} => INS_MODE \/ AtEnd
    /\ k \in {"delayed", "immediate"} => INS_MODE /\ AtEnd /\ Clean /\ buff_pntr + 6 < MAXLINE
    /\ k = "immediate" => NoPairs
    /\ k = "enter" => buff_pntr < MAXLINE - 1 /\ ToldApart
    /\ k = "tab" => /\ curr_pntr = 0 => ~ had_tab_last
                    /\ AtEnd \/ Delimiter(buff[curr_pntr].c)
                    /\ buff_pntr + 2 < MAXLINE
                    /\ NoPairs

Sound(s) ==
    /\ SoundKey(s[1])
    /\ Len(s) > 1 => AtEnd /\ INS_MODE /\ NoPairs /\ buff_pntr + 2 * Len(s) < MAXLINE
    /\ ~ \E i, j \in DOMAIN s : i < j /\ s[i] \in {"escM", "delayed", "immediate"} /\ s[j] = "unknown"

-----------------------------------------------------------------------------
Init ==
    /\ user \in DOMAIN Typing
    /\ in_buff = <<>> /\ reads = 0 /\ spent = FALSE /\ had_tab_last = FALSE
    /\ buff = Emptied([i \in 0 .. MAXLINE |-> Nothing]) /\ buff_pntr = 0 /\ curr_pntr = 0
    /\ INS_MODE = (user \notin Embedded)
    /\ tty = EmptyRow /\ echo = 0 /\ sent = <<>>
    /\ ring = NULL /\ current = NULL /\ ring_size = 0
    /\ next = [n \in Node |-> NULL] /\ prev = [n \in Node |-> NULL] /\ entry = [n \in Node |-> <<>>]
    /\ wordv = Files /\ disk = Files /\ newer = [i \in DOMAIN Files |-> FALSE]
    /\ curr_wix = [pwct |-> 0, word |-> 0] /\ curr_prefix = <<>>

(* do_reading starts with what one read returned. *)
Read ==
    /\ in_buff = <<>> /\ reads < MaxReads[user]
    /\ \E s \in Typing[user] :
        /\ Careful => Sound(s)
        /\ in_buff' = s
        /\ reads' = reads + 1
    /\ spent' = FALSE
    /\ UNCHANGED <<user, had_tab_last, INS_MODE, tty, echo, sent, current, disk>>
    /\ UNCHANGED <<editVars, ringVars, wordVars>>

(* HyperDoc sends a line to spadbuf in place of what was typed. *)
ReceiveInputLine ==
    /\ ~ PTY
    /\ in_buff = <<>> /\ reads < MaxReads[user]
    /\ \E s \in Typing[user] :
        /\ Careful => s[1] \in Printing
        /\ in_buff' = s
        /\ reads' = reads + 1
    /\ spent' = FALSE
    /\ tty' = ClearBuff(tty)
    /\ IF buff_pntr = 0 THEN UNCHANGED editVars ELSE buff' = Emptied(buff) /\ buff_pntr' = 0 /\ curr_pntr' = 0
    /\ UNCHANGED <<user, had_tab_last, INS_MODE, echo, sent, current, disk, ringVars, wordVars>>

-----------------------------------------------------------------------------
(* A key of do_reading: Key(k) is the part that all keys have in common,   *)
(* Takes(n) advances num_proc by n bytes beyond the key itself.            *)

Key(k) ==
    /\ in_buff # <<>> /\ Head(in_buff) = k
    /\ had_tab_last' = (k = "tab")
    /\ UNCHANGED <<user, reads, disk>>

Takes(n) == in_buff' = SubSeq(in_buff, n + 2, Len(in_buff))

Quiet == UNCHANGED <<spent, echo, sent, current, ringVars, wordVars>>
Bell == UNCHANGED <<editVars, tty>>

(* delete_current_char and back_over_current_char: n bytes that take w columns. *)
RemoveBytes(t, from, n, w) ==
    /\ buff' = Shifted(buff, from + n, buff_pntr, - n)
    /\ buff_pntr' = buff_pntr - n
    /\ curr_pntr' = from
    /\ tty' = DelPrint(t, buff', from, buff_pntr', w)

DeleteCurrent ==
    IF curr_pntr = buff_pntr THEN Bell
    ELSE IF buff[curr_pntr].f \in {0, 1}
         THEN RemoveBytes(Back(Put(tty, Blanks(1)), 1), curr_pntr, DistRight(buff, curr_pntr), 1)
         ELSE RemoveBytes(Back(Put(tty, Blanks(2)), 2), curr_pntr, 2, 2)

(* The three bytes are right for ESC [ P; the key 7f is one byte, two more are lost. *)
DeleteKey == Key("delete") /\ Takes(0) /\ DeleteCurrent /\ Quiet /\ UNCHANGED INS_MODE
Del == Key("del") /\ Takes(2) /\ DeleteCurrent /\ Quiet /\ UNCHANGED INS_MODE

BackOver ==
    /\ Key("erase") /\ Takes(0) /\ Quiet /\ UNCHANGED INS_MODE
    /\ IF curr_pntr = 0 THEN Bell
       ELSE LET two == buff[curr_pntr - 1].f = 0
                w == IF two THEN 2 ELSE 1
                n == IF two THEN 2 ELSE DistLeft(buff, curr_pntr)
            IN  RemoveBytes(Back(Put(Back(tty, w), Blanks(w)), w), curr_pntr - n, n, w)

-----------------------------------------------------------------------------
(* Moving the cursor. *)

MoveTo(cp, t) == curr_pntr' = cp /\ tty' = t /\ UNCHANGED <<buff, buff_pntr, INS_MODE>> /\ Quiet

MoveEnd == Key("end") /\ Takes(0) /\ MoveTo(buff_pntr, Put(tty, Printed(buff, curr_pntr, buff_pntr)))

MoveHome == Key("home") /\ Takes(0) /\ MoveTo(0, Back(tty, curr_pntr))

MoveAhead ==
    /\ Key("right") /\ Takes(0)
    /\ IF curr_pntr = buff_pntr THEN Bell /\ Quiet /\ UNCHANGED INS_MODE
       ELSE LET one == DistRight(buff, curr_pntr)
                n == IF buff[curr_pntr].f = 2 THEN one + DistRight(buff, curr_pntr + one) ELSE one
            IN  MoveTo(curr_pntr + n, Put(tty, Printed(buff, curr_pntr, curr_pntr + n)))

MoveBack ==
    /\ Key("left") /\ Takes(0)
    /\ IF curr_pntr = 0 THEN Bell /\ Quiet /\ UNCHANGED INS_MODE
       ELSE LET w == IF buff[curr_pntr - 1].f = 0 THEN 1 ELSE 0
            IN  MoveTo(curr_pntr - w - DistLeft(buff, curr_pntr - w), Back(tty, w + 1))

MoveForeWord ==
    /\ Key("foreword") /\ Takes(0)
    /\ IF curr_pntr = buff_pntr THEN Bell /\ Quiet /\ UNCHANGED INS_MODE
       ELSE LET stops == {cp \in ToSet(Tail(Starts(buff, curr_pntr, buff_pntr))) : buff[cp].c = "sp"}
                cp == IF stops = {} THEN buff_pntr ELSE CHOOSE i \in stops : \A j \in stops : i <= j
            IN  MoveTo(cp, Put(tty, Printed(buff, curr_pntr, cp)))

MoveBackWord ==
    /\ Key("backword") /\ Takes(0)
    /\ IF curr_pntr = 0 THEN Bell /\ Quiet /\ UNCHANGED INS_MODE
       ELSE LET to[i \in 0 .. MAXLINE] ==
                    IF i = 0 \/ buff[i - 1].c = "sp" THEN [at |-> i, n |-> 0]
                    ELSE LET r == to[i - DistLeft(buff, i)] IN [r EXCEPT !.n = @ + 1]
                r == to[curr_pntr - DistLeft(buff, curr_pntr)]
            IN  MoveTo(r.at, Back(tty, r.n + 1))

-----------------------------------------------------------------------------
(* Deleting to the end, and the whole line. *)

Blanked(t, b, from, to) == LET n == Width(b, from, to) IN Back(Put(t, Blanks(n)), n)

DeleteToEndOfLine ==
    /\ Key("killend") /\ Takes(0) /\ Quiet
    /\ tty' = Blanked(tty, buff, curr_pntr, buff_pntr)
    /\ buff_pntr' = curr_pntr
    /\ UNCHANGED <<buff, curr_pntr, INS_MODE>>

DeleteLine ==
    /\ Key("kill") /\ Takes(0) /\ Quiet /\ UNCHANGED INS_MODE
    /\ IF buff_pntr = 0 THEN Bell
       ELSE /\ tty' = Blanked(Back(tty, Width(buff, 0, curr_pntr)), buff, 0, buff_pntr)
            /\ buff' = Emptied(buff) /\ buff_pntr' = 0 /\ curr_pntr' = 0

(* reprint prints the byte under the cursor, at the end of the line what is left there. *)
InsertToggle ==
    /\ Key("insert") /\ Takes(0) /\ Quiet /\ UNCHANGED editVars
    /\ INS_MODE' = ~ INS_MODE
    /\ LET under == buff[curr_pntr].c
       IN  tty' = Back(Put(tty, IF under = "nul" THEN <<"sp">> ELSE <<under>>), 1)

-----------------------------------------------------------------------------
(* Typing. *)

(* The check the two insert operations make. *)
Fits(n) == buff_pntr + n <= MAXLINE - 1

(* overwrite_buff_part: as many characters as were put in go, as far as bp reaches. *)
Overwritten(b, from, amount, bp) ==
    LET pp == from + amount
        s == Starts(b, pp, bp)
        nn == Width(b, from, pp)
        count == IF s = <<>> THEN 0
                 ELSE IF Len(s) > nn THEN s[nn + 1] - pp
                 ELSE Last(s) + DistRight(b, Last(s)) - pp
    IN  [b |-> Shifted(b, pp + count, bp, - count), bp |-> bp - count]

InsertPrinting(s) ==
    LET amount == Len(s)
        b == Stored(Shifted(buff, curr_pntr, buff_pntr, amount), curr_pntr, s)
        over == Overwritten(b, curr_pntr, amount, buff_pntr + amount)
    IN  IF ~ Fits(amount) THEN Bell
        ELSE /\ curr_pntr' = curr_pntr + amount
             /\ IF INS_MODE \/ curr_pntr = buff_pntr
                THEN /\ buff' = b /\ buff_pntr' = buff_pntr + amount
                     /\ tty' = InsPrint(tty, buff', curr_pntr, amount, buff_pntr')
                ELSE /\ buff' = over.b /\ buff_pntr' = over.bp
                     /\ tty' = Put(tty, Printed(buff', curr_pntr, curr_pntr'))

(* All printing characters that have arrived are taken together. *)
Run == CHOOSE n \in 1 .. Len(in_buff) :
    /\ \A i \in 1 .. n : in_buff[i] \in Printing
    /\ n < Len(in_buff) => in_buff[n + 1] \notin Printing

TypePrinting ==
    /\ in_buff # <<>> /\ Head(in_buff) \in Printing
    /\ Takes(Run - 1)
    /\ had_tab_last' = FALSE
    /\ UNCHANGED <<user, reads, disk, INS_MODE>> /\ Quiet
    /\ \E s \in {Cells(FlattenSeq([i \in 1 .. Run |-> Bytes(in_buff[i])]), 1)} : InsertPrinting(s)

(* A control character is shown as two; buff_pntr is not moved before the overwriting. *)
InsertNonPrinting(s) ==
    LET n == Len(s)
        b == Stored(Shifted(buff, curr_pntr, buff_pntr, n), curr_pntr, s)
        over == Overwritten(b, curr_pntr, n, buff_pntr)
        inserting == INS_MODE \/ curr_pntr = buff_pntr
        bp == IF inserting THEN buff_pntr + n ELSE over.bp
    IN  IF ~ Fits(n) THEN Bell
        ELSE /\ curr_pntr' = curr_pntr + n
             /\ buff_pntr' = IF curr_pntr' > bp THEN curr_pntr' ELSE bp
             /\ buff' = IF inserting THEN b ELSE over.b
             /\ tty' = IF inserting THEN InsPrint(tty, b, curr_pntr, n, buff_pntr + n)
                       ELSE Put(tty, Printed(over.b, curr_pntr, curr_pntr + n))

Control(letter) == <<Cell("^", 2), Cell(letter, 0)>>

TypeControl == Key("control") /\ Takes(0) /\ InsertNonPrinting(Control("A")) /\ Quiet /\ UNCHANGED INS_MODE

(* End of file is taken as text, and the key after it is lost. *)
TypeEof == Key("eof") /\ Takes(1) /\ InsertNonPrinting(Control("A")) /\ Quiet /\ UNCHANGED INS_MODE

(* ESC [ M puts itself into the line and takes three more bytes. *)
TypeEscM ==
    /\ Key("escM") /\ Takes(3) /\ UNCHANGED INS_MODE
    /\ InsertNonPrinting(Control("[") \o Cells(<<"[", "a">>, 1))
    /\ spent' = TRUE
    /\ UNCHANGED <<echo, sent, current, ringVars, wordVars>>

(* A sequence it does not know: ESC becomes text, the rest is read as typed;
   after a function key in the same read num_proc stands still for ever.  *)
TypeUnknown ==
    /\ Key("unknown") /\ Quiet /\ UNCHANGED INS_MODE
    /\ IF spent THEN Bell /\ UNCHANGED in_buff
       ELSE InsertNonPrinting(Control("[")) /\ in_buff' = <<"[">> \o Tail(in_buff)

(* INTR and QUIT give all that was read to the child, which gets what stood *)
(* behind them a second time when it is read on as text.                    *)
Interrupt_Fault == Key("intr") /\ UNCHANGED in_buff /\ Bell /\ UNCHANGED INS_MODE /\ Quiet
Interrupt ==
    /\ Key("intr") /\ Takes(0)
    /\ sent' = in_buff
    /\ Bell /\ UNCHANGED <<INS_MODE, spent, echo, current, ringVars, wordVars>>

-----------------------------------------------------------------------------
(* The history, a list without ends: prev leads to older lines, next of    *)
(* the newest, which ring points to, is the oldest.                        *)

Older(n) == LET back[i \in 0 .. prev_check + MAXRING] == IF i = 0 THEN ring ELSE prev[back[i - 1]] IN back[n]

MoveToFront_Fault(t) ==
    LET next1 == [next EXCEPT ![t] = next[ring], ![ring] = t]
        prev1 == [prev EXCEPT ![t] = ring, ![next[ring]] = t]
    IN  /\ next' = [next1 EXCEPT ![prev[t]] = next[t]]
        /\ prev' = [prev1 EXCEPT ![next[t]] = prev[t]]
        /\ ring' = t
        /\ UNCHANGED <<entry, ring_size>>

MoveToFront(t) ==
    LET next1 == [next EXCEPT ![prev[t]] = next[t]]
        next2 == [next1 EXCEPT ![t] = next1[ring], ![ring] = t]
        prev1 == [prev EXCEPT ![next[t]] = prev[t]]
    IN  /\ next' = next2
        /\ prev' = [prev1 EXCEPT ![t] = ring, ![next2[t]] = t]
        /\ ring' = t
        /\ UNCHANGED <<entry, ring_size>>

AddNode(line) ==
    LET new == ring_size + 1
        first == IF ring_size = 0 THEN new ELSE next[ring]
    IN  /\ next' = IF ring_size = 0 THEN [next EXCEPT ![new] = new] ELSE [next EXCEPT ![new] = first, ![ring] = new]
        /\ prev' = IF ring_size = 0 THEN [prev EXCEPT ![new] = new] ELSE [prev EXCEPT ![new] = ring, ![first] = new]
        /\ ring' = new
        /\ entry' = [entry EXCEPT ![new] = line]
        /\ ring_size' = new

Recycle(line) ==
    /\ ring' = next[ring]
    /\ entry' = [entry EXCEPT ![ring'] = line]
    /\ UNCHANGED <<next, prev, ring_size>>

InsertQueue(line) ==
    LET same == {i \in 0 .. prev_check - 2 : ring # NULL /\ Same(entry[Older(i)], line)}
    IN  IF line = <<>> \/ (ring # NULL /\ Same(entry[ring], line)) THEN UNCHANGED ringVars
        ELSE IF same # {} THEN MoveToFront(Older(CHOOSE i \in same : \A j \in same : i <= j))
        ELSE IF ring_size < MAXRING THEN AddNode(line) ELSE Recycle(line)

-----------------------------------------------------------------------------
(* Sending the line. *)

(* convert_buffer: a circumflex that was not typed becomes the control      *)
(* character it stands for.                                                 *)
Converted_Fault(line) ==
    LET from[i \in 1 .. MAXLINE + 2] ==
            IF i > Len(line) THEN <<>>
            ELSE IF line[i].c = "^"
                 THEN LET c1 == IF i < Len(line) THEN line[i + 1].c ELSE "nl"
                      IN  IF c1 = "[" THEN <<"ESC">> \o from[i + 2]
                          ELSE IF c1 = "A" THEN <<"CTRL">> \o from[i + 2]
                          ELSE <<"stale">> \o from[i + 1]
            ELSE <<line[i].c>> \o from[i + 1]
    IN  from[1]

Converted(line) ==
    LET from[i \in 1 .. MAXLINE + 2] ==
            IF i > Len(line) THEN <<>>
            ELSE IF line[i].c = "^" /\ line[i].f # 1
                 THEN LET c1 == IF i < Len(line) THEN line[i + 1].c ELSE "nl"
                      IN  IF c1 = "[" THEN <<"ESC">> \o from[i + 2]
                          ELSE IF c1 = "A" THEN <<"CTRL">> \o from[i + 2]
                          ELSE <<"stale">> \o from[i + 1]
            ELSE <<line[i].c>> \o from[i + 1]
    IN  from[1]

Raw(line) == [i \in DOMAIN line |-> line[i].c]

(* What send_line_to_child and send_function_to_child have in common. *)
SendLine(b, bp, bytes) ==
    /\ InsertQueue(Line(b, bp))
    /\ sent' = bytes
    /\ buff' = Emptied([b EXCEPT ![bp] = Cell("nl", 1), ![bp + 1] = Cell("nul", -1)])
    /\ buff_pntr' = 0 /\ curr_pntr' = 0
    /\ current' = NULL
    /\ echo' = IF PTY THEN echo + 1 ELSE echo

SendLineToChild ==
    /\ Key("enter") /\ Takes(0)
    /\ SendLine(buff, buff_pntr, Converted(Line(buff, buff_pntr)))
    /\ tty' = IF PTY THEN Back(tty, Width(buff, 0, curr_pntr)) ELSE EmptyRow
    /\ UNCHANGED <<INS_MODE, spent, wordVars>>

(* handle_function_key.  One byte too many is printed; when overwriting,   *)
(* buff_pntr stays where it was.                                           *)
FunctionText(k) == Cells(FunctionKey[k], 49)

FunctionBuff(k) ==
    LET s == FunctionText(k)
    IN  Stored(IF INS_MODE THEN Shifted(buff, curr_pntr, buff_pntr, Len(s)) ELSE buff, curr_pntr, s)

FunctionEnd(k) == IF INS_MODE THEN buff_pntr + Len(FunctionKey[k]) ELSE buff_pntr

HandleDelayed ==
    LET amount == Len(FunctionKey["delayed"])
        b == FunctionBuff("delayed")
    IN  /\ Key("delayed") /\ Takes(0)
        /\ buff' = b /\ buff_pntr' = FunctionEnd("delayed") /\ curr_pntr' = curr_pntr + amount
        /\ tty' = IF INS_MODE THEN InsPrint(tty, b, curr_pntr, amount + 1, buff_pntr + amount + 1)
                  ELSE Put(tty, FunctionKey["delayed"])
        /\ spent' = TRUE
        /\ UNCHANGED <<INS_MODE, echo, sent, current, ringVars, wordVars>>

(* An immediate key sends the line unconverted and swallows the key after it. *)
HandleImmediate ==
    LET amount == Len(FunctionKey["immediate"])
        b == FunctionBuff("immediate")
        bp == FunctionEnd("immediate")
        cp == curr_pntr + amount
        t == IF INS_MODE THEN InsPrint(tty, b, curr_pntr, amount + 1, bp + amount + 1)
             ELSE Put(tty, FunctionKey["immediate"])
    IN  /\ Key("immediate") /\ Takes(1)
        /\ SendLine(b, bp, Raw(Line(b, bp)))
        /\ tty' = Back(t, Width(b, 0, cp))
        /\ spent' = TRUE
        /\ UNCHANGED <<INS_MODE, wordVars>>

(* prev_buff and next_buff; after them do_reading sets curr_pntr to the end. *)
SwitchToBuff(n) ==
    LET line == entry[n]
        size == Len(line)
        b == IF buff_pntr = 0 THEN buff ELSE Emptied(buff)
        full == [Stored(b, 0, line) EXCEPT ![size] = Cell("nul", -1)]
    IN  /\ current' = n
        /\ buff' = full /\ buff_pntr' = size /\ curr_pntr' = size
        /\ tty' = Put(ClearBuff(tty), Printed(full, 0, size))

ArrowKey(k, n) ==
    /\ Key(k) /\ Takes(0)
    /\ UNCHANGED <<INS_MODE, spent, echo, sent, ringVars, wordVars>>
    /\ IF ring = NULL THEN curr_pntr' = buff_pntr /\ UNCHANGED <<buff, buff_pntr, tty, current>>
       ELSE SwitchToBuff(n)

PrevBuff == ArrowKey("up", IF current = NULL THEN ring ELSE prev[current])
NextBuff == ArrowKey("down", IF current = NULL THEN next[ring] ELSE next[current])

-----------------------------------------------------------------------------
(* Completion of words. *)

WordStart ==
    LET d == {i \in 0 .. curr_pntr - 1 : Delimiter(buff[i].c)}
    IN  IF d = {} THEN 0 ELSE 1 + CHOOSE i \in d : \A j \in d : j <= i

WordEnd == CHOOSE e \in curr_pntr .. buff_pntr :
    /\ e = buff_pntr \/ Delimiter(buff[e].c)
    /\ \A i \in curr_pntr .. e - 1 : ~ Delimiter(buff[i].c)

Matches(w, prefix) == IF prefix = <<>> THEN w = <<>> ELSE IsPrefix(prefix, w)

(* A file that changed is read again; burst1Wct counts its words on top of *)
(* the old number, which leaves empty words at the end.                    *)
Interned(t) == IF newer[t] THEN disk[t] \o [i \in DOMAIN wordv[t] |-> <<>>] ELSE wordv[t]

Places(words) == FlattenSeq([t \in DOMAIN words |-> [i \in DOMAIN words[t] |-> [pwct |-> t, word |-> i]]])
WordAt(words, p) == words[p.pwct][p.word]

(* scanWct stops at the first match and has read again the files up to it. *)
ScanWct(prefix) ==
    LET fresh == [t \in DOMAIN wordv |-> Interned(t)]
        found == SelectSeq(Places(fresh), LAMBDA p : Matches(WordAt(fresh, p), prefix))
        seen(t) == found = <<>> \/ t <= found[1].pwct
    IN  /\ curr_prefix' = prefix
        /\ wordv' = [t \in DOMAIN wordv |-> IF seen(t) THEN fresh[t] ELSE wordv[t]]
        /\ newer' = [t \in DOMAIN newer |-> newer[t] /\ ~ seen(t)]
        /\ curr_wix' = IF found # <<>> THEN found[1]
                       ELSE IF Places(fresh) # <<>> THEN Last(Places(fresh)) ELSE [pwct |-> 0, word |-> 0]

(* rescanWct goes round from the word after the last one, that one included. *)
Rescanned ==
    LET all == Places(wordv)
        n == CHOOSE i \in DOMAIN all : all[i] = curr_wix
        round == SubSeq(all, n + 1, Len(all)) \o SubSeq(all, 1, n)
    IN  IF curr_wix \notin ToSet(all) THEN <<>>
        ELSE SelectSeq(round, LAMBDA p : Matches(WordAt(wordv, p), curr_prefix))

(* do_replace_wct moves what is right of the cursor, not of the word. *)
DoReplaceWct(b, old_len, w, e) ==
    LET diff == Len(w) - old_len
        line == Stored(Shifted(buff, curr_pntr, buff_pntr, diff), b, Cells(w, 1))
        bp == buff_pntr + diff
        ncs == e + diff
        left == Width(buff, b, curr_pntr)
        gone == left + Width(buff, curr_pntr, b + old_len) - Width(line, b, b + Len(w))
        spare == IF gone > 0 THEN gone ELSE 0
        shown == Put(Back(tty, left), Printed(line, b, bp) \o Blanks(spare))
    IN  /\ buff' = line /\ buff_pntr' = bp /\ curr_pntr' = ncs
        /\ tty' = Back(shown, spare + Width(line, ncs, bp))

FindWct ==
    IF curr_pntr = 0 THEN Bell /\ UNCHANGED wordVars
    ELSE LET prefix == [i \in 1 .. curr_pntr - WordStart |-> buff[WordStart + i - 1].c]
         IN  /\ ScanWct(prefix)
             /\ LET w == WordAt(wordv', curr_wix')
                IN  IF curr_wix'.pwct # 0 /\ Matches(w, prefix)
                    THEN DoReplaceWct(WordStart, WordEnd - WordStart, w, WordEnd) ELSE Bell

(* At the beginning of the line this reads the byte before the buffer, which *)
(* is taken to be no part of a word.                                         *)
RescanWct ==
    /\ UNCHANGED <<wordv, newer, curr_prefix>>
    /\ IF Rescanned = <<>> THEN Bell /\ UNCHANGED curr_wix
       ELSE /\ curr_wix' = Rescanned[1]
            /\ DoReplaceWct(WordStart, curr_pntr - WordStart, WordAt(wordv, Rescanned[1]), curr_pntr)

CompleteWord ==
    /\ Key("tab") /\ Takes(0)
    /\ IF had_tab_last THEN RescanWct ELSE FindWct
    /\ UNCHANGED <<INS_MODE, spent, echo, sent, current, ringVars>>

FileChanges ==
    /\ \E t \in DOMAIN Files, words \in NewWords :
        /\ disk[t] = Files[t]
        /\ disk' = [disk EXCEPT ![t] = words]
        /\ newer' = [newer EXCEPT ![t] = TRUE]
    /\ UNCHANGED <<user, in_buff, reads, spent, had_tab_last, INS_MODE, tty, echo, sent, current>>
    /\ UNCHANGED <<editVars, ringVars, wordv, curr_wix, curr_prefix>>

-----------------------------------------------------------------------------
(* Output of the child, at any time no keys are being processed.  clef      *)
(* takes its line away as if the cursor were at its end, lets the output   *)
(* have the row and prints the whole line again, which leaves the          *)
(* terminal's cursor at its end; spadbuf just prints.                      *)

UpAndBlank == LET n == Width(buff, 0, buff_pntr) IN Back(Put(Back(tty, n), Blanks(n)), n)
Reprinted(t) == Put(t, Printed(buff, 0, buff_pntr))
AfterPrompt(t) ==
    [t EXCEPT !.row = [c \in 0 .. MAXLINE |-> IF c + t.col + 1 \in DOMAIN t.row THEN t.row[c + t.col + 1] ELSE "sp"],
              !.col = 0]

Output(t) ==
    /\ in_buff = <<>>
    /\ tty' = [(IF PTY THEN Reprinted(t) ELSE t) EXCEPT !.displaced = @ \/ IF PTY THEN ~ AtEnd ELSE buff_pntr # 0]
    /\ UNCHANGED <<user, in_buff, reads, spent, had_tab_last, INS_MODE, sent, current, disk>>
    /\ UNCHANGED <<editVars, ringVars, wordVars>>

(* The echo of a line the child was sent, or lines of its own. *)
ChildEchoes == echo > 0 /\ Output(EmptyRow) /\ echo' = echo - 1
ChildPrints == Output(EmptyRow) /\ UNCHANGED echo
ChildPrompts == Output(AfterPrompt(IF PTY THEN UpAndBlank ELSE tty)) /\ UNCHANGED echo

KeyStep ==
    \/ DeleteKey \/ Del \/ BackOver
    \/ MoveEnd \/ MoveHome \/ MoveAhead \/ MoveBack \/ MoveForeWord \/ MoveBackWord
    \/ DeleteToEndOfLine \/ DeleteLine \/ InsertToggle
    \/ TypePrinting \/ TypeControl \/ TypeEof \/ TypeEscM \/ TypeUnknown \/ Interrupt
    \/ SendLineToChild \/ HandleDelayed \/ HandleImmediate \/ PrevBuff \/ NextBuff
    \/ CompleteWord

Next == Read \/ ReceiveInputLine \/ KeyStep \/ FileChanges \/ ChildEchoes \/ ChildPrints \/ ChildPrompts

Spec == Init /\ [][Next]_vars /\ WF_vars(KeyStep)

-----------------------------------------------------------------------------
TypeOK ==
    /\ user \in DOMAIN Typing
    /\ reads \in 0 .. MaxReads[user] /\ echo \in Nat
    /\ spent \in BOOLEAN /\ had_tab_last \in BOOLEAN /\ INS_MODE \in BOOLEAN
    /\ buff_pntr \in 0 .. MAXLINE - 1 /\ curr_pntr \in 0 .. buff_pntr
    /\ tty.col \in - MAXLINE .. MAXLINE
    /\ ring \in Node \cup {NULL} /\ current \in Node \cup {NULL} /\ ring_size \in 0 .. MAXRING

(***************************************************************************)
(* What the terminal shows right of the prompt is the line, and its cursor *)
(* stands where the next key takes effect, unless output came since the    *)
(* last free row while the cursor was inside the line (in clef) or there   *)
(* was a line (in spadbuf): edible.c 301-304 and spadbuf.c 123-128 then    *)
(* leave the two apart, until output ends with a free row or a line is     *)
(* sent.  Between sending a line and its echo the old one is still there.  *)
(***************************************************************************)
ScreenShowsLine ==
    echo = 0 /\ ~ tty.displaced =>
        LET shown == Printed(buff, 0, buff_pntr)
        IN  /\ tty.col = Width(buff, 0, curr_pntr)
            /\ \A c \in DOMAIN tty.row : tty.row[c] = IF c + 1 \in DOMAIN shown THEN shown[c + 1] ELSE "sp"

(***************************************************************************)
(* Relinking a line that was given again leaves one circle: every line is  *)
(* reached from the newest, prev and next are inverse, and a line is not   *)
(* there twice among the last prev_check - 1.                              *)
(***************************************************************************)
RingSound ==
    ring # NULL =>
        LET nodes == 1 .. ring_size
        IN  /\ {Older(i) : i \in 0 .. ring_size - 1} = nodes
            /\ \A n \in nodes : next[prev[n]] = n /\ prev[next[n]] = n
            /\ \A i \in 1 .. ring_size - 1 : i < prev_check - 1 => ~ Same(entry[Older(i)], entry[ring])
            /\ current \in nodes \cup {NULL}

(***************************************************************************)
(* The line, the history and what the child gets are those of an editor    *)
(* that works on whole characters.                                         *)
(***************************************************************************)
Glyphs(line) ==
    LET shown == SelectSeq(line, LAMBDA x : x.f # 2 /\ x.c # "tail")
        glyph(x) == IF x.f # 0 THEN x.c ELSE IF x.c = "[" THEN "ESC" ELSE "CTRL"
    IN  [n \in DOMAIN shown |-> glyph(shown[n])]

Words == UNION ({ToSet(words) : words \in NewWords} \cup {ToSet(Files[t]) : t \in DOMAIN Files})
Interrupts == {s \in UNION {Suffixes(r) : r \in UNION {Typing[u] : u \in DOMAIN Typing}} : s # <<>> /\ s[1] = "intr"}

Whole == INSTANCE LineEditor WITH
    Runs <- Pasted, Blank <- "sp",
    WordList <- Words,
    HistorySize <- MAXRING, Recent <- prev_check - 1,
    Signals <- Interrupts,
    text <- Glyphs(Line(buff, buff_pntr)),
    cursor <- Len(Glyphs(Line(buff, curr_pntr))),
    insert <- INS_MODE,
    history <- [i \in 1 .. ring_size |-> Glyphs(entry[Older(ring_size - i)])],
    recalled <- IF current = NULL THEN 0 ELSE ring_size - (CHOOSE i \in 0 .. ring_size - 1 : Older(i) = current),
    sent <- SelectSeq(sent, LAMBDA c : c # "tail")

EditsWhole == Whole!Spec

(***************************************************************************)
(* Whatever is typed is processed: no key leaves num_proc where it was.    *)
(***************************************************************************)
KeysProcessed == in_buff # <<>> ~> in_buff = <<>>
=============================================================================

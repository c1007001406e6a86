------------------------------ MODULE LineEditor ------------------------------
(***************************************************************************)
(* What clef promises its user: one line of glyphs with a cursor between   *)
(* two of them, keys that change it where the cursor stands, a history of  *)
(* lines, and a program that gets exactly the line that is shown.  A       *)
(* control character and a character of several bytes are one glyph each.  *)
(***************************************************************************)
EXTENDS Integers, Sequences, SequencesExt

CONSTANTS
    Runs,           \* what is typed at once: sequences of glyphs
    Blank,          \* the glyph that ends a word
    WordList,       \* the words a completion may put in
    HistorySize,    \* MAXRING
    Recent,         \* prev_check - 1: how far back a line is recognised
    Signals         \* what interrupts send

VARIABLES
    text,           \* the line
    cursor,         \* how many glyphs are left of the cursor
    insert,         \* insert or overwrite
    history,        \* the lines sent so far, oldest first
    recalled,       \* the element of history last shown, 0 for none
    sent            \* the line last sent, or an interrupt with what was typed after it

vars == <<text, cursor, insert, history, recalled, sent>>

Left == SubSeq(text, 1, cursor)
Right == SubSeq(text, cursor + 1, Len(text))
From(s, n) == SubSeq(s, n + 1, Len(s))

Init ==
    /\ text = <<>> /\ cursor = 0 /\ insert \in BOOLEAN
    /\ history = <<>> /\ recalled = 0 /\ sent = <<>>

-----------------------------------------------------------------------------
Move(c) == cursor' = c /\ UNCHANGED <<text, insert, history, recalled, sent>>

Edit(t, c) == cursor' = c /\ text' = t /\ UNCHANGED <<insert, history, recalled, sent>>

Step == \E c \in {cursor - 1, cursor + 1, 0, Len(text)} : c \in 0 .. Len(text) /\ Move(c)

(* The beginning of the word left of the cursor, the blank right of it. *)
WordLeft ==
    \E c \in 0 .. cursor - 1 :
        /\ c = 0 \/ text[c] = Blank
        /\ \A d \in c + 1 .. cursor - 1 : text[d] # Blank
        /\ Move(c)

WordRight ==
    \E c \in cursor + 1 .. Len(text) :
        /\ c = Len(text) \/ text[c + 1] = Blank
        /\ \A d \in cursor + 1 .. c - 1 : text[d + 1] # Blank
        /\ Move(c)

Typed(gs) == Left \o gs \o (IF insert THEN Right ELSE From(Right, Len(gs)))

Type == \E gs \in Runs : Edit(Typed(gs), cursor + Len(gs))

EraseLeft == cursor > 0 /\ Edit(Front(Left) \o Right, cursor - 1)
EraseRight == Right # <<>> /\ Edit(Left \o Tail(Right), cursor)
EraseLine == Edit(<<>>, 0)
EraseRest == Edit(Left, cursor)

Toggle == insert' = ~ insert /\ UNCHANGED <<text, cursor, history, recalled, sent>>

(* The letters around the cursor become a word that begins with those left of it. *)
Complete ==
    \E w \in WordList, b \in 0 .. cursor - 1, e \in cursor .. Len(text) :
        /\ cursor' = b + Len(w)
        /\ Blank \notin ToSet(SubSeq(text, b + 1, e))
        /\ IsPrefix(SubSeq(text, b + 1, b + 1), w)
        /\ Edit(SubSeq(text, 1, b) \o w \o From(text, e), b + Len(w))

-----------------------------------------------------------------------------
Recall(n) ==
    /\ recalled' = n
    /\ text' = history[n]
    /\ cursor' = Len(history[n])
    /\ UNCHANGED <<insert, history, sent>>

Older == history # <<>> /\ Recall(IF recalled \in {0, 1} THEN Len(history) ELSE recalled - 1)
Newer == history # <<>> /\ Recall(IF recalled \in {0, Len(history)} THEN 1 ELSE recalled + 1)

(* A line given again, if it is not too old, moves to the front. *)
Remember(line) ==
    LET n == Len(history)
        same == {i \in 1 .. n : i > n - Recent /\ history[i] = line}
    IN  IF line = <<>> \/ n \in same THEN history
        ELSE IF same # {} THEN Append(RemoveAt(history, CHOOSE i \in same : \A j \in same : j <= i), line)
        ELSE Append(IF n < HistorySize THEN history ELSE Tail(history), line)

Send(line) ==
    /\ sent' = line
    /\ history' = Remember(line)
    /\ text' = <<>> /\ cursor' = 0 /\ recalled' = 0
    /\ UNCHANGED insert

Enter == Send(text)

(* A function key can stand for a whole command. *)
EnterWith == \E gs \in Runs : Send(Typed(gs))

(* An interrupt leaves the line alone. *)
Signal == sent' \in Signals /\ UNCHANGED <<text, cursor, insert, history, recalled>>

Next ==
    \/ Step \/ WordLeft \/ WordRight
    \/ Type \/ EraseLeft \/ EraseRight \/ EraseLine \/ EraseRest \/ Toggle \/ Complete
    \/ Older \/ Newer \/ Enter \/ EnterWith \/ Signal

Spec == Init /\ [][Next]_vars
=============================================================================

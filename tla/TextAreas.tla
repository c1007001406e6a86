------------------------------ MODULE TextAreas ------------------------------
(***************************************************************************)
(* What the input areas of a page promise (ug03.htex, section Input        *)
(* Areas): each is a text with a cursor, one of them has the focus, and    *)
(* the keys edit the text of that one.  A paste comes some time after it   *)
(* was asked for and goes into the area for which it was.  Beside them are *)
(* boxes to tick, of which those of a group have at most one tick.         *)
(***************************************************************************)
EXTENDS Integers, Sequences

CONSTANTS Char, NL, Pastes, NoGroup

VARIABLES text, at, focus, insert, pasteTo, boxes

areas == <<text, at, focus, insert, pasteTo, boxes>>
Area == DOMAIN text

Before(a) == SubSeq(text[a], 1, at[a])
After(a) == SubSeq(text[a], at[a] + 1, Len(text[a]))

(* The beginning and the end of the line with the cursor. *)
LineStart(a) ==
    CHOOSE n \in 0..at[a] :
        /\ n = 0 \/ text[a][n] = NL
        /\ \A m \in (n + 1)..at[a] : text[a][m] # NL
LineEnd(a) ==
    CHOOSE n \in at[a]..Len(text[a]) :
        /\ n = Len(text[a]) \/ text[a][n + 1] = NL
        /\ \A m \in (at[a] + 1)..n : text[a][m] # NL

Edit(a, t, n) ==
    /\ text' = [text EXCEPT ![a] = t] /\ at' = [at EXCEPT ![a] = n]
    /\ UNCHANGED <<focus, insert, boxes>>
Without(a, from, to) == SubSeq(text[a], 1, from) \o SubSeq(text[a], to + 1, Len(text[a]))

(* A character goes before the one at the cursor, or replaces it if the line has one there. *)
Put(a, s) ==
    LET replaced == IF insert THEN 0 ELSE IF Len(s) < LineEnd(a) - at[a] THEN Len(s) ELSE LineEnd(a) - at[a]
    IN  Edit(a, Before(a) \o s \o SubSeq(After(a), replaced + 1, Len(After(a))), at[a] + Len(s))

Type(c) == Put(focus, <<c>>) /\ UNCHANGED pasteTo
NewLine == Edit(focus, Before(focus) \o <<NL>> \o After(focus), at[focus] + 1) /\ UNCHANGED pasteTo
MoveTo(n) == Edit(focus, text[focus], n) /\ UNCHANGED pasteTo
Beep == UNCHANGED areas

EraseLeft ==
    IF at[focus] = 0 THEN Beep
    ELSE Edit(focus, Without(focus, at[focus] - 1, at[focus]), at[focus] - 1) /\ UNCHANGED pasteTo
EraseRight ==
    IF After(focus) = << >> THEN Beep
    ELSE Edit(focus, Without(focus, at[focus], at[focus] + 1), at[focus]) /\ UNCHANGED pasteTo

(* From n to the end of the line; an empty line goes as a whole. *)
EraseFrom(n) ==
    IF n < LineEnd(focus) THEN Edit(focus, Without(focus, n, LineEnd(focus)), n) /\ UNCHANGED pasteTo
    ELSE IF LineStart(focus) = LineEnd(focus) /\ n < Len(text[focus])
    THEN Edit(focus, Without(focus, n, n + 1), n) /\ UNCHANGED pasteTo
    ELSE Beep

EraseRest == EraseFrom(at[focus])
EraseLine == EraseFrom(LineStart(focus))

ToStart == MoveTo(LineStart(focus))
ToEnd == MoveTo(LineEnd(focus))
Left == IF at[focus] = 0 THEN Beep ELSE MoveTo(at[focus] - 1)
Right == IF After(focus) = << >> THEN Beep ELSE MoveTo(at[focus] + 1)

(* To another line; there is none above the first and below the last. *)
Up == IF LineStart(focus) = 0 THEN Beep ELSE \E n \in 0..(LineStart(focus) - 1) : MoveTo(n)
Down == IF LineEnd(focus) = Len(text[focus]) THEN Beep
        ELSE \E n \in (LineEnd(focus) + 1)..Len(text[focus]) : MoveTo(n)

ToggleInsert == insert' = ~insert /\ UNCHANGED <<text, at, focus, pasteTo, boxes>>
Focus(a) == focus' = a /\ UNCHANGED <<text, at, insert, pasteTo, boxes>>
AskPaste(a) == focus' = a /\ pasteTo' = {a} /\ UNCHANGED <<text, at, insert, boxes>>
Paste ==
    /\ pasteTo' = {}
    /\ \/ \E a \in pasteTo, s \in Pastes : Put(a, s)
       \/ UNCHANGED <<text, at, focus, insert, boxes>>

(* A single box changes; one of a group gets the tick of the group. *)
Group(b) == {c \in DOMAIN boxes : boxes[b].group # NoGroup /\ boxes[c].group = boxes[b].group}
Ticked(b) == {c \in Group(b) : boxes[c].picked}
Tick(b) ==
    /\ boxes' = [c \in DOMAIN boxes |->
                     IF c \in Group(b) THEN [boxes[c] EXCEPT !.picked = c = b]
                     ELSE IF c = b THEN [boxes[c] EXCEPT !.picked = ~@] ELSE boxes[c]]
    /\ UNCHANGED <<text, at, focus, insert, pasteTo>>

Init ==
    /\ \A a \in Area : text[a] \in Seq(Char \cup {NL}) /\ at[a] \in 0..Len(text[a])
    /\ focus \in Area /\ insert = FALSE /\ pasteTo = {}
    /\ \A b, c \in DOMAIN boxes : c \in Ticked(b) => Ticked(b) = {c}

Next == \/ \E c \in Char : Type(c)
        \/ NewLine \/ EraseLeft \/ EraseRight \/ EraseRest \/ EraseLine
        \/ ToStart \/ ToEnd \/ Left \/ Right \/ Up \/ Down
        \/ ToggleInsert \/ Paste
        \/ \E a \in Area : Focus(a) \/ AskPaste(a)
        \/ \E b \in DOMAIN boxes : Tick(b)

Spec == Init /\ [][Next]_areas
=============================================================================

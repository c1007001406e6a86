------------------------------- MODULE View2D -------------------------------
(***************************************************************************)
(* One two-dimensional viewport (src/graph/view2D): slots for graphs, what *)
(* the window shows of them, and the control panel, whose buttons change   *)
(* the graphs that are shown and selected.  Input comes from the mouse     *)
(* and, through the viewport manager, from Lisp.  What is exchanged with   *)
(* the viewport manager is the subject of Viewports; here a graph arrives. *)
(*                                                                         *)
(* Scales are levels: 0 is minScale, Big is 99, above which the drawing    *)
(* routine cuts scales off, Big + 1 stands for everything above.  Centers  *)
(* run from -MaxDelta to MaxDelta, and only centerX is followed (centerY   *)
(* is treated alike).  Colours, messages and the texts on buttons are left *)
(* out.                                                                    *)
(*                                                                         *)
(* Careful: after Pick, Drop or Query the user clicks on a graph, and Lisp *)
(* does not show or put graphs meanwhile; graphs other than the first are  *)
(* not scaled beyond Big, nor is any by Lisp; Lisp does not move a hidden  *)
(* first graph on which others depend; Reset is not used on graphs that    *)
(* arrived hidden or on empty slots.                                       *)
(*                                                                         *)
(* A definition D_Fault that stands before a definition D is a faulty      *)
(* variant of D: it is used only to show that a property would notice.     *)
(***************************************************************************)
EXTENDS Integers

CONSTANTS
    LastSlot,       \* slots are 0 .. LastSlot
    Toggles,        \* the buttons for attributes of graphs that are followed
    Careful,        \* the user and Lisp leave out what is known to go wrong (see above)
    MaxSteps        \* bound: operations of the user and of Lisp

AttributeButton == {"pointsOnOff", "connectOnOff", "spline2D", "axesOnOff2D", "unitsOnOff2D"}

ASSUME View2DAssumption == /\ LastSlot \in Nat
                           /\ Toggles \subseteq AttributeButton
                           /\ Careful \in BOOLEAN
                           /\ MaxSteps \in Nat

Slot == 0 .. LastSlot
Big == 2
Scale == 0 .. Big + 1
MaxDelta == 1
Center == (0 - MaxDelta) .. MaxDelta
Mode == {"pick2D", "drop2D", "query2D"}
Pot == {"scale2D", "translate2D"}
AxisButton == {"zoom2Dx", "zoom2Dy", "translate2Dx"}
Single == AttributeButton \cup AxisButton \cup Mode \cup Pot
              \cup {"clear2D", "reset2D", "ps2D", "hideControl2D", "closeAll2D"}
GraphButton == {"graph", "graphSelect"}       \* one of each for every slot
Button == Single \cup GraphButton

VARIABLES
    graph,          \* graphArray (is there a key) and graphStateArray
    backup,         \* graphStateBackupArray
    image,          \* what viewWindow shows of each slot
    number, caret,  \* the number and the caret of each slot as drawn on the panel
    doit,           \* "" or the mode whose graph is still to be clicked
    flag,           \* pointsON, connectON, splineON, axesON, unitsON, zoomXON, ...
    haveControl, closing, spadDraw,
    last,           \* controlButton: the button pressed last
    held,           \* followMouse
    hears,          \* externalControl = 0 and not viewAloned: Lisp is heard
    alive,          \* the program runs
    steps           \* bound

graphs == <<graph, backup, image, number, caret, doit>>
panel == <<flag, haveControl, closing, last, held>>
vars == <<graphs, panel, spadDraw, hears, alive, steps>>

-----------------------------------------------------------------------------
(***************************************************************************)
(* Drawing: drawTheViewport.                                               *)
(***************************************************************************)
Shown(g, i) == g[i].key /\ g[i].showing
Chosen(g, i) == g[i].showing /\ g[i].selected

CutOff(n) == IF n > Big THEN Big ELSE n

(* Buttons that are not followed stay as initButtons and main set them. *)
AtFirst == [t \in AttributeButton \cup AxisButton |-> t \notin {"spline2D", "unitsOnOff2D"}]
Has(state, t) == IF t \in Toggles THEN state.on[t] ELSE AtFirst[t]

(* The scale of the first graph when slot i is about to be drawn: too large a *)
(* y scale of any graph drawn before is cut off there.                        *)
BaseScale(g, i) ==
    [x |-> IF i > 0 /\ Shown(g, 0) THEN CutOff(g[0].scaleX) ELSE g[0].scaleX,
     y |-> IF \E j \in Slot : j < i /\ Shown(g, j) /\ g[j].scaleY > Big THEN Big ELSE g[0].scaleY]

(* The scale of a graph where its points are drawn and after them: its y scale *)
(* is cut off only in the first graph.                                         *)
OwnScale(g, i) == [x |-> CutOff(g[i].scaleX), y |-> IF i = 0 THEN CutOff(g[0].scaleY) ELSE g[i].scaleY]

AxesAt(g, i, scale) == IF Has(g[i], "axesOnOff2D") THEN <<scale, g[0].center>> ELSE <<>>

Look(g, i) ==
    [on |-> g[i].on,
     axes |-> AxesAt(g, i, BaseScale(g, i)),
     points |-> <<OwnScale(g, i), g[0].center>>,
     box |-> IF Has(g[i], "spline2D") THEN <<OwnScale(g, i), g[i].center>> ELSE <<>>,
     units |-> IF Has(g[i], "unitsOnOff2D") THEN <<BaseScale(g, i + 1), g[0].center>> ELSE <<>>]

NoLook == [on |-> [t \in Toggles |-> FALSE], axes |-> <<>>, points |-> <<>>, box |-> <<>>, units |-> <<>>]

Picture(g) == [i \in Slot |-> IF Shown(g, i) THEN Look(g, i) ELSE NoLook]

AfterDrawing(g) ==
    [i \in Slot |-> [g[i] EXCEPT
        !.scaleX = IF Shown(g, i) THEN CutOff(@) ELSE @,
        !.scaleY = IF i = 0 THEN BaseScale(g, LastSlot + 1).y ELSE @]]

(* drawViewport(Xoption) at the end of a handler that left the graphs in state g. *)
Draw(g) == /\ image' = Picture(g)
           /\ graph' = AfterDrawing(g)

-----------------------------------------------------------------------------
(***************************************************************************)
(* A graph arrives in slot i: freeGraph, getGraphFromViewman.  The backup  *)
(* is taken before the scale of the first graph replaces that of the graph *)
(* itself; the center of the slot is not sent and stays.                   *)
(***************************************************************************)
Arriving == [on : [Toggles -> BOOLEAN], scaleX : {1}, scaleY : {1}, showing : BOOLEAN]

Arrived(g, i, a) == [key |-> TRUE, on |-> a.on, showing |-> a.showing, selected |-> TRUE,
                     scaleX |-> a.scaleX, scaleY |-> a.scaleY, center |-> g[i].center]

Scaled(g, i, s) == [g EXCEPT ![i] = [s EXCEPT !.scaleX = IF i = 0 THEN @ ELSE g[0].scaleX,
                                              !.scaleY = IF i = 0 THEN @ ELSE g[0].scaleY]]

Received(i, a) == Scaled(graph, i, Arrived(graph, i, a))

(* The simulated clicks that follow: the number is redrawn and the graph shown if *)
(* it arrived so, then the caret is drawn and the graph becomes selected.         *)
Installed(i, a, g) ==
    /\ backup' = [backup EXCEPT ![i] = Arrived(graph, i, a)]
    /\ Draw(g)
    /\ number' = [number EXCEPT ![i] = g[i].showing]

CaretOn(i) == caret' = [caret EXCEPT ![i] = TRUE]

-----------------------------------------------------------------------------
(***************************************************************************)
(* The buttons of the panel: buttonAction, clickedOnGraph and              *)
(* clickedOnGraphSelect.                                                   *)
(***************************************************************************)
(* drawControlPanel: the flags of the attributes are taken from the first graph. *)
DrawControlPanel(g) ==
    /\ flag' = [t \in DOMAIN flag |-> IF t \in Toggles THEN g[0].on[t] ELSE flag[t]]
    /\ number' = [i \in Slot |-> g[i].showing]
    /\ caret' = [i \in Slot |-> g[i].selected]

ToggleAttribute(t) ==
    LET now == ~flag[t]
    IN  /\ flag' = [flag EXCEPT ![t] = now]
        /\ Draw([i \in Slot |-> IF Chosen(graph, i) THEN [graph[i] EXCEPT !.on[t] = now] ELSE graph[i]])
        /\ UNCHANGED <<backup, number, caret, doit, haveControl>>

ToggleAxis(t) ==
    /\ flag' = [flag EXCEPT ![t] = ~@]
    /\ UNCHANGED <<graphs, haveControl>>

SetMode(m) ==
    /\ doit' = IF hears \/ m = "query2D" THEN m ELSE doit
    /\ UNCHANGED <<graph, backup, image, number, caret, flag, haveControl>>

Deselected(g) == [i \in Slot |-> [g[i] EXCEPT !.selected = FALSE]]

(* clear2D: every slot is selected, then its caret clicked; a pending mode takes *)
(* the first of these clicks, so that the first graph stays selected.            *)
Clear2D ==
    LET rest == [Deselected(graph) EXCEPT ![0].selected = TRUE] IN
    /\ doit' = ""
    /\ \/ /\ doit = ""
          /\ graph' = Deselected(graph)
          /\ caret' = [i \in Slot |-> FALSE]
          /\ UNCHANGED <<backup, image, number>>
       \/ /\ doit # ""
          /\ graph' = rest
          /\ caret' = [i \in Slot |-> i = 0 /\ caret[0]]
          /\ UNCHANGED <<backup, image, number>>
       \/ /\ doit = "drop2D"
          /\ \E a \in Arriving : Installed(0, a, Scaled(rest, 0, Arrived(graph, 0, a)))
          /\ caret' = [i \in Slot |-> i = 0]
    /\ UNCHANGED <<flag, haveControl>>

Restored(g, i) == IF Chosen(g, i) THEN [backup[i] EXCEPT !.key = g[i].key] ELSE g[i]

Reset2D_Fault ==
    LET g == [i \in Slot |-> Restored(graph, i)] IN
    /\ graph' = [i \in Slot |-> IF Chosen(g, i) THEN [g[i] EXCEPT !.on = [t \in Toggles |-> AtFirst[t]]] ELSE g[i]]
    /\ flag' = [t \in DOMAIN flag |-> IF t \in AttributeButton THEN AtFirst[t] ELSE flag[t]]
    /\ UNCHANGED <<backup, image, number, caret, doit, haveControl>>

Reset2D ==
    LET g == [i \in Slot |-> Restored(graph, i)] IN
    /\ flag' = [t \in DOMAIN flag |-> IF t \in AttributeButton THEN AtFirst[t] ELSE flag[t]]
    /\ Draw([i \in Slot |-> IF Chosen(g, i) THEN [g[i] EXCEPT !.on = [t \in Toggles |-> AtFirst[t]]] ELSE g[i]])
    /\ UNCHANGED <<backup, number, caret, doit, haveControl>>

(* ps2D draws for PostScript: the window stays, too large scales are cut off. *)
PS2D ==
    /\ graph' = AfterDrawing(graph)
    /\ UNCHANGED <<backup, image, number, caret, doit, flag, haveControl>>

HideControl2D ==
    /\ haveControl' = FALSE
    /\ UNCHANGED <<graphs, flag>>

(* doPick tells the viewport manager, doDrop asks it: nothing was picked, or a *)
(* graph arrives.                                                              *)
DoPick == /\ doit' = ""
          /\ UNCHANGED <<graph, backup, image, number, caret>>

DoDrop(i) ==
    /\ doit' = ""
    /\ \/ UNCHANGED <<graph, backup, image, number, caret>>
       \/ \E a \in Arriving : Installed(i, a, Received(i, a)) /\ CaretOn(i)

Consumed(i) ==
    /\ doit # ""
    /\ IF doit = "drop2D" THEN DoDrop(i) ELSE DoPick
    /\ UNCHANGED <<flag, haveControl>>

ClickedOnGraph(i) ==
    \/ Consumed(i)
    \/ /\ doit = ""
       /\ Draw([graph EXCEPT ![i].showing = ~@])
       /\ number' = [number EXCEPT ![i] = ~graph[i].showing]
       /\ UNCHANGED <<backup, caret, doit, flag, haveControl>>

ClickedOnGraphSelect_Fault(i) ==
    \/ Consumed(i)
    \/ /\ doit = ""
       /\ graph' = [graph EXCEPT ![i].selected = ~@]
       /\ caret' = [caret EXCEPT ![i] = graph[i].selected]
       /\ UNCHANGED <<backup, image, number, doit, flag, haveControl>>

ClickedOnGraphSelect(i) ==
    \/ Consumed(i)
    \/ /\ doit = ""
       /\ graph' = [graph EXCEPT ![i].selected = ~@]
       /\ caret' = [caret EXCEPT ![i] = ~graph[i].selected]
       /\ UNCHANGED <<backup, image, number, doit, flag, haveControl>>

(***************************************************************************)
(* The potentiometers.  A scale moves by at most one level; a center that  *)
(* falls below -MaxDelta is set to MaxDelta.                               *)
(***************************************************************************)
Zoomed(n, d) == IF n + d \in Scale THEN n + d ELSE n

BoundedCenter(c) == IF c \in Center THEN c ELSE MaxDelta

Scale2D_Fault(g, d) ==
    [i \in Slot |-> IF g[i].showing
        THEN [g[i] EXCEPT !.scaleX = IF flag["zoom2Dx"] THEN Zoomed(@, d) ELSE @,
                          !.scaleY = IF flag["zoom2Dy"] THEN Zoomed(@, d) ELSE @]
        ELSE g[i]]

Scale2D(g, d) ==
    [i \in Slot |-> IF Chosen(g, i)
        THEN [g[i] EXCEPT !.scaleX = IF flag["zoom2Dx"] THEN Zoomed(@, d) ELSE @,
                          !.scaleY = IF flag["zoom2Dy"] THEN Zoomed(@, d) ELSE @]
        ELSE g[i]]

Translate2D(g, d) ==
    [i \in Slot |-> IF Chosen(g, i) /\ flag["translate2Dx"]
        THEN [g[i] EXCEPT !.center = BoundedCenter(@ - d)]
        ELSE g[i]]

Turned(pot, d) == IF pot = "scale2D" THEN Scale2D(graph, d) ELSE Translate2D(graph, d)

KeptInside(g) == \A i \in Slot \ {0} : g[i].scaleY <= Big

Turn(pot) ==
    /\ \E d \in {-1, 1} : /\ Careful => KeptInside(Turned(pot, d))
                          /\ Draw(Turned(pot, d))
    /\ UNCHANGED <<backup, number, caret, doit, flag, haveControl>>

-----------------------------------------------------------------------------
(***************************************************************************)
(* Events of the mouse and of the window system: processEvents.            *)
(***************************************************************************)
ResetLosesNothing == \A i \in Slot : Chosen(graph, i) => backup[i].showing /\ backup[i].selected

Allowed(b) ==
    Careful => /\ doit = "" \/ b \in Mode \cup GraphButton
               /\ b = "reset2D" => ResetLosesNothing

Counted == /\ steps < MaxSteps
           /\ steps' = steps + 1

Goodbye == /\ alive' = FALSE
           /\ UNCHANGED <<graphs, panel, spadDraw, hears>>

(* A button is pressed: the second press of Quit in a row ends the program, *)
(* any other press withdraws the first.                                     *)
Press(b) ==
    /\ haveControl /\ ~held
    /\ Allowed(b)
    /\ ~(closing /\ b = "closeAll2D")
    /\ closing' = (b = "closeAll2D")
    /\ last' = b
    /\ UNCHANGED <<spadDraw, hears, alive>>

PressSingle ==
    \/ \E t \in Toggles : Press(t) /\ ToggleAttribute(t) /\ UNCHANGED held
    \/ \E t \in AxisButton : Press(t) /\ ToggleAxis(t) /\ UNCHANGED held
    \/ \E m \in Mode : Press(m) /\ SetMode(m) /\ UNCHANGED held
    \/ Press("clear2D") /\ Clear2D /\ UNCHANGED held
    \/ Press("reset2D") /\ Reset2D /\ UNCHANGED held
    \/ Press("ps2D") /\ PS2D /\ UNCHANGED held
    \/ Press("hideControl2D") /\ HideControl2D /\ UNCHANGED held
    \/ Press("closeAll2D") /\ UNCHANGED <<graphs, flag, haveControl, held>>

PressGraph(i) ==
    \/ Press("graph") /\ ClickedOnGraph(i) /\ UNCHANGED held
    \/ Press("graphSelect") /\ ClickedOnGraphSelect(i) /\ UNCHANGED held

PressPot(pot) == /\ Press(pot)
                 /\ Turn(pot)
                 /\ held' = TRUE

(* Polling repeats the effect as long as the mouse button is held. *)
Repeat == /\ held
          /\ Turn(last)
          /\ UNCHANGED <<closing, last, held, spadDraw, hears, alive>>

(* The window is drawn once more only if followMouse is yes: while the button is *)
(* held, polling counts it up and sets it back to yes now and then.              *)
Release == /\ held
           /\ held' = FALSE
           /\ Draw(graph) \/ UNCHANGED <<graph, image>>
           /\ UNCHANGED <<backup, number, caret, doit, flag, haveControl, closing, last, spadDraw, hears, alive, steps>>

ConfirmQuit == /\ haveControl /\ ~held
               /\ closing
               /\ Goodbye

(* A click on the picture puts the panel up (or moves it). *)
ShowPanel ==
    /\ haveControl' = TRUE
    /\ DrawControlPanel(graph)
    /\ UNCHANGED <<graph, backup, image, doit>>

PressView == /\ ~held
             /\ ShowPanel
             /\ UNCHANGED <<closing, last, held, spadDraw, hears, alive>>

ExposeView == /\ Draw(graph)
              /\ UNCHANGED <<backup, number, caret, doit, flag, haveControl>>

ExposePanel == /\ haveControl
               /\ DrawControlPanel(graph)
               /\ UNCHANGED <<graph, backup, image, doit, haveControl>>

Expose == /\ ExposeView \/ ExposePanel
          /\ UNCHANGED <<closing, last, held, spadDraw, hears, alive>>

-----------------------------------------------------------------------------
(***************************************************************************)
(* Commands of Lisp: spadAction.  Afterwards the window is drawn if        *)
(* spadDraw is set; only a new title clears it again.                      *)
(***************************************************************************)
(* What a command that leaves the graphs in state g, and wants them drawn  *)
(* or not, does in the end.                                                *)
Finish(g, wanted) ==
    /\ spadDraw' = (spadDraw \/ wanted)
    /\ IF spadDraw \/ wanted THEN Draw(g) ELSE graph' = g /\ UNCHANGED image

SetAttribute(i) ==
    /\ \E t \in Toggles, v \in BOOLEAN : Finish([graph EXCEPT ![i].on[t] = v], graph[i].showing)
    /\ UNCHANGED <<backup, number, caret, doit, panel>>

SafeBase(i) == Careful => i > 0 \/ graph[0].showing \/ \A j \in Slot : ~Shown(graph, j)

SetScale(i) ==
    /\ SafeBase(i)
    /\ \E n \in Scale : /\ Careful => n <= Big
                        /\ Finish([graph EXCEPT ![i].scaleX = n, ![i].scaleY = n], graph[i].showing)
    /\ UNCHANGED <<backup, number, caret, doit, panel>>

SetCenter(i) ==
    /\ SafeBase(i)
    /\ \E c \in (0 - MaxDelta - 1) .. (MaxDelta + 1) :
          Finish([graph EXCEPT ![i].center = BoundedCenter(c)], graph[i].showing)
    /\ UNCHANGED <<backup, number, caret, doit, panel>>

(* showing2D: showing is set to the opposite and the number clicked; a pending *)
(* mode takes the click.  (A pending drop would put its question to the        *)
(* viewport manager in the middle of the manager's own command: left out.)     *)
SetShowing(i) ==
    /\ Careful => doit = ""
    /\ \E v \in BOOLEAN :
          \/ /\ doit = ""
             /\ Draw([graph EXCEPT ![i].showing = v])
             /\ number' = [number EXCEPT ![i] = v]
             /\ UNCHANGED <<backup, caret, doit>>
          \/ /\ doit \in {"pick2D", "query2D"}
             /\ doit' = ""
             /\ Finish([graph EXCEPT ![i].showing = ~v], FALSE)
             /\ UNCHANGED <<backup, number, caret>>
    /\ UNCHANGED <<spadDraw, panel>>

(* putGraph: as a drop, with lines on.  A pending mode takes the first click. *)
PutGraph(i) ==
    /\ Careful => doit = ""
    /\ \E a \in Arriving :
          LET s == Arrived(graph, i, a)
              lines == [t \in Toggles |-> t = "connectOnOff" \/ a.on[t]]
              g == [Scaled(graph, i, s) EXCEPT ![i].on = lines]
          IN  \/ /\ doit = ""
                 /\ Installed(i, a, g)
                 /\ CaretOn(i)
                 /\ UNCHANGED doit
              \/ /\ doit \in {"pick2D", "query2D"}
                 /\ doit' = ""
                 /\ Finish([g EXCEPT ![i].showing = ~@], FALSE)
                 /\ backup' = [backup EXCEPT ![i] = s]
                 /\ CaretOn(i)
                 /\ UNCHANGED number
    /\ UNCHANGED <<spadDraw, panel>>

OfSlot(i) == \/ SetAttribute(i) \/ SetScale(i) \/ SetCenter(i) \/ SetShowing(i) \/ PutGraph(i)

(* hideControl2D, changeTitle, resizeViewport, reset. *)
ShowControl == /\ ShowPanel
               /\ UNCHANGED <<spadDraw, closing, last, held>>

DropControl == /\ haveControl' = FALSE
               /\ UNCHANGED <<graphs, spadDraw, flag, closing, last, held>>

ChangeTitle == /\ spadDraw' = FALSE
               /\ UNCHANGED <<graphs, panel>>

ResizeViewport == /\ Finish(graph, TRUE)
                  /\ UNCHANGED <<backup, number, caret, doit, panel>>

PressReset == /\ Careful => ResetLosesNothing
              /\ Reset2D
              /\ UNCHANGED <<spadDraw, closing, last, held>>

FromLisp ==
    /\ hears /\ ~held
    /\ \/ \E i \in Slot : OfSlot(i)
       \/ ShowControl \/ DropControl \/ ChangeTitle \/ ResizeViewport \/ PressReset
    /\ UNCHANGED <<hears, alive>>

CloseFromLisp == /\ hears /\ ~held
                 /\ Goodbye

-----------------------------------------------------------------------------
EmptySlot == [key |-> FALSE, on |-> [t \in Toggles |-> AtFirst[t]], showing |-> FALSE,
              selected |-> FALSE, scaleX |-> 1, scaleY |-> 1, center |-> 0]

FirstGraph == [EmptySlot EXCEPT !.key = TRUE, !.showing = TRUE, !.selected = TRUE]

(* The first slot has a graph, the others have or have not. *)
Init ==
    /\ graph \in {g \in [Slot -> {EmptySlot, FirstGraph}] : g[0] = FirstGraph}
    /\ backup = graph
    /\ image = Picture(graph)
    /\ number = [i \in Slot |-> graph[i].showing]
    /\ caret = [i \in Slot |-> graph[i].selected]
    /\ doit = ""
    /\ flag = [t \in Toggles \cup AxisButton |-> AtFirst[t]]
    /\ haveControl \in BOOLEAN
    /\ closing = FALSE
    /\ spadDraw = FALSE
    /\ last = "translate2D"
    /\ held = FALSE
    /\ hears \in BOOLEAN
    /\ alive = TRUE
    /\ steps = 0

Step == \/ PressSingle
        \/ \E i \in Slot : PressGraph(i)
        \/ \E pot \in Pot : PressPot(pot)
        \/ Repeat
        \/ ConfirmQuit
        \/ PressView
        \/ Expose
        \/ FromLisp
        \/ CloseFromLisp

Next == alive /\ (Release \/ (Counted /\ Step))

Spec == Init /\ [][Next]_vars

-----------------------------------------------------------------------------
TypeOK ==
    /\ graph \in [Slot -> [key : BOOLEAN, on : [Toggles -> BOOLEAN], showing : BOOLEAN,
                           selected : BOOLEAN, scaleX : Scale, scaleY : Scale, center : Center]]
    /\ doit \in Mode \cup {""}
    /\ last \in Button

(***************************************************************************)
(* What the window shows is what the states of the graphs say, also while  *)
(* a potentiometer is held: every change that matters to a picture is      *)
(* followed by drawing it, although each graph is drawn relative to the    *)
(* first, and spadDraw remembers only some of the changes.  One thing lags *)
(* behind: the axes of the first graph are drawn before its scale is cut   *)
(* off at Big, and keep the scale it had before until the next drawing.    *)
(***************************************************************************)
BeforeCut(n) == IF n = Big THEN {Big, Big + 1} ELSE {n}

Pictures(g) == {[Picture(g) EXCEPT ![0].axes = IF Shown(g, 0) THEN AxesAt(g, 0, scale) ELSE @] :
                    scale \in [x : BeforeCut(g[0].scaleX), y : BeforeCut(g[0].scaleY)]}

WindowCurrent == alive => image \in Pictures(graph)

(***************************************************************************)
(* Panel buttons other than the numbers and carets change no graph that is *)
(* not shown and selected, except that Clear changes its selection, and a  *)
(* command of Lisp for one slot changes no other slot: getGraphFromViewman *)
(* and drawTheViewport, which cuts off the scales of the graphs it draws,  *)
(* must not interfere.  (With graphs other than the first scaled above Big *)
(* drawTheViewport does: it cuts the first one.  Careful leaves that out.) *)
(***************************************************************************)
OthersKept ==
    [][/\ PressSingle \/ Repeat \/ (\E pot \in Pot : PressPot(pot)) =>
             \A i \in Slot : Chosen(graph, i) \/ graph'[i] = [graph[i] EXCEPT !.selected = graph'[i].selected]
       /\ \A i \in Slot : OfSlot(i) => \A j \in Slot \ {i} : graph'[j] = graph[j]]_vars

(***************************************************************************)
(* As long as the panel is up its numbers and carets tell which graphs are *)
(* displayed and which ones a button will change, also after graphs came   *)
(* and went, were reset, or were shown by Lisp.                            *)
(***************************************************************************)
MarksTrue == alive /\ haveControl => \A i \in Slot : /\ number[i] = graph[i].showing
                                                     /\ caret[i] = graph[i].selected
=============================================================================

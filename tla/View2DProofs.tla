---------------------------- MODULE View2DProofs ----------------------------
(***************************************************************************)
(* Theorems about View2D, for any number of slots, any attributes and any  *)
(* number of operations: types; and for careful users that the window      *)
(* shows the graphs as they are, that the panel marks them truly, and that *)
(* an operation on some graphs leaves the others alone.                    *)
(*                                                                         *)
(* Drawing changes the graphs it draws: it cuts their scales off.  The     *)
(* reason for all three is that between two operations there is nothing    *)
(* left to cut off (InScale), so that to draw once more changes nothing.   *)
(***************************************************************************)
EXTENDS View2D, TLAPS

GraphState == [key : BOOLEAN, on : [Toggles -> BOOLEAN], showing : BOOLEAN,
               selected : BOOLEAN, scaleX : Scale, scaleY : Scale, center : Center]

States == [Slot -> GraphState]

Types ==
  /\ graph \in States /\ backup \in States
  /\ number \in [Slot -> BOOLEAN] /\ caret \in [Slot -> BOOLEAN]
  /\ flag \in [Toggles \cup AxisButton -> BOOLEAN]
  /\ doit \in Mode \cup {""} /\ last \in Button
  /\ haveControl \in BOOLEAN /\ spadDraw \in BOOLEAN /\ held \in BOOLEAN /\ alive \in BOOLEAN
  /\ held => last \in Pot

(* No drawing finds anything to cut off. *)
InScale(g) == \A i \in Slot : g[i].scaleY <= Big /\ (g[i].key => g[i].scaleX <= Big)

ScalesInv ==
  /\ graph[0].key
  /\ InScale(graph)
  /\ \A i \in Slot : backup[i].scaleX <= Big /\ backup[i].scaleY <= Big

ViewInv == Types /\ ScalesInv /\ image \in Pictures(graph) /\ MarksTrue
-----------------------------------------------------------------------------
(* Slots and scales. *)

LEMMA SlotFacts == 0 \in Slot /\ Slot \subseteq Nat /\ LastSlot \in Slot /\ LastSlot + 1 \in Nat
BY View2DAssumption DEF Slot

LEMMA ScaleFacts ==
  /\ Scale \subseteq Nat /\ 1 \in Scale /\ Big \in Scale /\ Big = 2
  /\ 0 \in Center /\ \A c \in Int : BoundedCenter(c) \in Center
  /\ \A n \in Scale : CutOff(n) \in Scale /\ CutOff(n) <= Big /\ (n <= Big => CutOff(n) = n)
  /\ \A n \in Scale, d \in {-1, 1} : Zoomed(n, d) \in Scale
BY DEF Scale, Big, Center, MaxDelta, BoundedCenter, CutOff, Zoomed

LEMMA BaseScaleType ==
  ASSUME NEW g \in States, NEW i \in Nat
  PROVE  /\ BaseScale(g, i).x \in Scale /\ BaseScale(g, i).y \in Scale
         /\ BaseScale(g, i).y = IF \E j \in Slot : j < i /\ Shown(g, j) /\ g[j].scaleY > Big
                                THEN Big ELSE g[0].scaleY
<1>1. g[0].scaleX \in Scale /\ g[0].scaleY \in Scale /\ Big \in Scale /\ CutOff(g[0].scaleX) \in Scale
  BY SlotFacts, ScaleFacts DEF States, GraphState
<1> QED
  BY <1>1 DEF BaseScale

(* Drawing changes nothing but scales. *)
LEMMA DrawChangesScales ==
  ASSUME NEW g \in States
  PROVE  /\ AfterDrawing(g) \in States
         /\ \A i \in Slot : /\ AfterDrawing(g)[i].key = g[i].key
                            /\ AfterDrawing(g)[i].showing = g[i].showing
                            /\ AfterDrawing(g)[i].selected = g[i].selected
                            /\ AfterDrawing(g)[i].on = g[i].on /\ AfterDrawing(g)[i].center = g[i].center
                            /\ AfterDrawing(g)[i].scaleX = IF Shown(g, i) THEN CutOff(g[i].scaleX) ELSE g[i].scaleX
                            /\ AfterDrawing(g)[i].scaleY =
                                  IF i = 0 THEN BaseScale(g, LastSlot + 1).y ELSE g[i].scaleY
<1> DEFINE x(i) == IF Shown(g, i) THEN CutOff(g[i].scaleX) ELSE g[i].scaleX
           y(i) == IF i = 0 THEN BaseScale(g, LastSlot + 1).y ELSE g[i].scaleY
<1>1. \A i \in Slot : x(i) \in Scale /\ y(i) \in Scale /\ g[i] \in GraphState
  BY BaseScaleType, ScaleFacts, SlotFacts DEF States, GraphState
<1>2. AfterDrawing(g) = [i \in Slot |-> [g[i] EXCEPT !.scaleX = x(i), !.scaleY = y(i)]]
  BY <1>1 DEF AfterDrawing, GraphState
<1> HIDE DEF x, y
<1>3. \A i \in Slot : /\ [g[i] EXCEPT !.scaleX = x(i), !.scaleY = y(i)] \in GraphState
                      /\ [g[i] EXCEPT !.scaleX = x(i), !.scaleY = y(i)].key = g[i].key
                      /\ [g[i] EXCEPT !.scaleX = x(i), !.scaleY = y(i)].showing = g[i].showing
                      /\ [g[i] EXCEPT !.scaleX = x(i), !.scaleY = y(i)].selected = g[i].selected
                      /\ [g[i] EXCEPT !.scaleX = x(i), !.scaleY = y(i)].on = g[i].on
                      /\ [g[i] EXCEPT !.scaleX = x(i), !.scaleY = y(i)].center = g[i].center
                      /\ [g[i] EXCEPT !.scaleX = x(i), !.scaleY = y(i)].scaleX = x(i)
                      /\ [g[i] EXCEPT !.scaleX = x(i), !.scaleY = y(i)].scaleY = y(i)
  BY <1>1 DEF GraphState
<1> DEFINE r(i) == [g[i] EXCEPT !.scaleX = x(i), !.scaleY = y(i)]
<1>4. AfterDrawing(g) = [i \in Slot |-> r(i)]
  BY <1>2
<1>5. \A i \in Slot : r(i) \in GraphState
  BY <1>3
<1> HIDE DEF r
<1>6. AfterDrawing(g) \in States
  BY <1>4, <1>5 DEF States
<1>7. \A i \in Slot : AfterDrawing(g)[i] = r(i)
  BY <1>4
<1>8. \A i \in Slot : /\ r(i).key = g[i].key /\ r(i).showing = g[i].showing /\ r(i).selected = g[i].selected
                      /\ r(i).on = g[i].on /\ r(i).center = g[i].center
                      /\ r(i).scaleX = x(i) /\ r(i).scaleY = y(i)
  BY <1>3 DEF r
<1> QED
  BY <1>6, <1>7, <1>8 DEF x, y

(* Where no scale is too large, drawing changes nothing. *)
LEMMA DrawKeeps ==
  ASSUME NEW g \in States, InScale(g)
  PROVE  AfterDrawing(g) = g
<1>1. \A i \in Slot : /\ g[i] \in GraphState
                      /\ (IF Shown(g, i) THEN CutOff(g[i].scaleX) ELSE g[i].scaleX) = g[i].scaleX
                      /\ (IF i = 0 THEN BaseScale(g, LastSlot + 1).y ELSE g[i].scaleY) = g[i].scaleY
  <2>1. SUFFICES ASSUME NEW i \in Slot
                 PROVE  /\ g[i] \in GraphState
                        /\ Shown(g, i) => CutOff(g[i].scaleX) = g[i].scaleX
                        /\ i = 0 => BaseScale(g, LastSlot + 1).y = g[i].scaleY
    OBVIOUS
  <2>2. g[i] \in GraphState /\ (Shown(g, i) => g[i].key)
    BY DEF States, Shown
  <2>3. Shown(g, i) => CutOff(g[i].scaleX) = g[i].scaleX
    BY <2>2 DEF InScale, GraphState, CutOff, Scale, Big
  <2>4. ~\E j \in Slot : j < LastSlot + 1 /\ Shown(g, j) /\ g[j].scaleY > Big
    BY DEF InScale, States, GraphState, Scale, Big
  <2> QED
    BY <2>2, <2>3, <2>4, BaseScaleType, SlotFacts
<1>2. \A i \in Slot : [g[i] EXCEPT !.scaleX = g[i].scaleX, !.scaleY = g[i].scaleY] = g[i]
  BY <1>1 DEF GraphState
<1>3. AfterDrawing(g) = [i \in Slot |-> g[i]]
  BY <1>1, <1>2 DEF AfterDrawing
<1> QED
  BY <1>3 DEF States

(* After a drawing no scale is too large, if those of graphs not drawn were not. *)
LEMMA DrawScales ==
  ASSUME NEW g \in States,
         \A i \in Slot : i # 0 \/ ~Shown(g, 0) => g[i].scaleY <= Big,
         \A i \in Slot : g[i].key /\ ~g[i].showing => g[i].scaleX <= Big
  PROVE  InScale(AfterDrawing(g))
<1> SUFFICES ASSUME NEW i \in Slot
             PROVE  /\ AfterDrawing(g)[i].scaleY <= Big
                    /\ AfterDrawing(g)[i].key => AfterDrawing(g)[i].scaleX <= Big
  BY DEF InScale
<1>1. g[i] \in GraphState /\ g[0] \in GraphState
  BY SlotFacts DEF States
<1>2. AfterDrawing(g)[i].key => AfterDrawing(g)[i].scaleX <= Big
  BY <1>1, DrawChangesScales DEF Shown, GraphState, CutOff, Scale, Big
<1>3. CASE i # 0
  BY <1>1, <1>2, <1>3, DrawChangesScales
<1>4. CASE i = 0
  <2>1. AfterDrawing(g)[i].scaleY = BaseScale(g, LastSlot + 1).y
    BY <1>4, DrawChangesScales
  <2>2. CASE Shown(g, 0) /\ g[0].scaleY > Big
    <3>1. \E j \in Slot : j < LastSlot + 1 /\ Shown(g, j) /\ g[j].scaleY > Big
      BY <2>2, SlotFacts, View2DAssumption
    <3> QED
      BY <1>2, <2>1, <3>1, BaseScaleType, SlotFacts, ScaleFacts
  <2>3. CASE ~(Shown(g, 0) /\ g[0].scaleY > Big)
    <3>1. g[0].scaleY <= Big
      BY <1>1, <2>3, SlotFacts DEF GraphState, Scale, Big
    <3> QED
      BY <1>2, <2>1, <3>1, BaseScaleType, SlotFacts, ScaleFacts
  <2> QED
    BY <2>2, <2>3
<1> QED
  BY <1>3, <1>4
-----------------------------------------------------------------------------
(* Types. *)

LEMMA DrawTypes ==
  ASSUME NEW g \in States, Draw(g)
  PROVE  graph' \in States
BY DrawChangesScales DEF Draw

LEMMA ArrivedType ==
  ASSUME NEW g \in States, NEW i \in Slot, NEW a \in Arriving
  PROVE  /\ Arrived(g, i, a) \in GraphState
         /\ Arrived(g, i, a).key /\ Arrived(g, i, a).selected /\ Arrived(g, i, a).showing = a.showing
         /\ Arrived(g, i, a).scaleX = 1 /\ Arrived(g, i, a).scaleY = 1
<1>1. g[i].center \in Center /\ 1 \in Scale
  BY ScaleFacts DEF States, GraphState
<1>2. a.on \in [Toggles -> BOOLEAN] /\ a.scaleX = 1 /\ a.scaleY = 1 /\ a.showing \in BOOLEAN
  BY DEF Arriving
<1> QED
  BY <1>1, <1>2 DEF Arrived, GraphState

(* A graph in slot i takes the scale of the first graph. *)
LEMMA ScaledType ==
  ASSUME NEW g \in States, NEW i \in Slot, NEW s \in GraphState
  PROVE  /\ Scaled(g, i, s) \in States
         /\ \A j \in Slot \ {i} : Scaled(g, i, s)[j] = g[j]
         /\ Scaled(g, i, s)[i].key = s.key /\ Scaled(g, i, s)[i].showing = s.showing
         /\ Scaled(g, i, s)[i].selected = s.selected
         /\ Scaled(g, i, s)[i].scaleX = IF i = 0 THEN s.scaleX ELSE g[0].scaleX
         /\ Scaled(g, i, s)[i].scaleY = IF i = 0 THEN s.scaleY ELSE g[0].scaleY
<1> DEFINE x == IF i = 0 THEN s.scaleX ELSE g[0].scaleX
           y == IF i = 0 THEN s.scaleY ELSE g[0].scaleY
           r == [s EXCEPT !.scaleX = x, !.scaleY = y]
<1>1. x \in Scale /\ y \in Scale
  BY SlotFacts DEF States, GraphState
<1> HIDE DEF x, y
<1>2. /\ r \in GraphState /\ r.key = s.key /\ r.showing = s.showing /\ r.selected = s.selected
      /\ r.scaleX = x /\ r.scaleY = y
  BY <1>1 DEF GraphState
<1>3. Scaled(g, i, s) = [g EXCEPT ![i] = r]
  BY DEF Scaled, x, y, r
<1> HIDE DEF r
<1>4. [g EXCEPT ![i] = r] \in States /\ [g EXCEPT ![i] = r][i] = r /\ \A j \in Slot \ {i} : [g EXCEPT ![i] = r][j] = g[j]
  BY <1>2 DEF States
<1> QED
  BY <1>2, <1>3, <1>4 DEF x, y

LEMMA InstalledTypes ==
  ASSUME Types, NEW i \in Slot, NEW a \in Arriving, NEW g \in States, Installed(i, a, g)
  PROVE  graph' \in States /\ backup' \in States /\ number' \in [Slot -> BOOLEAN]
<1>1. g[i].showing \in BOOLEAN
  BY DEF States, GraphState
<1>2. Arrived(graph, i, a) \in GraphState
  BY ArrivedType DEF Types
<1> QED
  BY <1>1, <1>2, DrawTypes DEF Installed, Types, States

LEMMA CaretType ==
  ASSUME Types, NEW i \in Slot, CaretOn(i)
  PROVE  caret' \in [Slot -> BOOLEAN]
BY DEF CaretOn, Types

LEMMA ReceivedType ==
  ASSUME Types, NEW i \in Slot, NEW a \in Arriving
  PROVE  Received(i, a) \in States
BY ArrivedType, ScaledType DEF Types, Received

LEMMA PanelTypes ==
  ASSUME Types, DrawControlPanel(graph)
  PROVE  /\ flag' \in [Toggles \cup AxisButton -> BOOLEAN]
         /\ number' \in [Slot -> BOOLEAN] /\ caret' \in [Slot -> BOOLEAN]
<1>1. \A i \in Slot : graph[i].showing \in BOOLEAN /\ graph[i].selected \in BOOLEAN
  BY DEF Types, States, GraphState
<1>2. graph[0].on \in [Toggles -> BOOLEAN]
  BY SlotFacts DEF Types, States, GraphState
<1>3. DOMAIN flag = Toggles \cup AxisButton /\ \A t \in Toggles \cup AxisButton : flag[t] \in BOOLEAN
  BY DEF Types
<1>4. \A t \in Toggles : graph[0].on[t] \in BOOLEAN
  BY <1>2
<1> QED
  BY <1>1, <1>3, <1>4 DEF DrawControlPanel

(* What the handlers of the panel change. *)
Handled ==
  /\ graph' \in States /\ backup' \in States
  /\ number' \in [Slot -> BOOLEAN] /\ caret' \in [Slot -> BOOLEAN]
  /\ flag' \in [Toggles \cup AxisButton -> BOOLEAN]
  /\ doit' \in Mode \cup {""} /\ haveControl' \in BOOLEAN

LEMMA ToggledType ==
  ASSUME NEW g \in States, NEW t \in Toggles, NEW v \in BOOLEAN
  PROVE  [i \in Slot |-> IF Chosen(g, i) THEN [g[i] EXCEPT !.on[t] = v] ELSE g[i]] \in States
<1>1. \A i \in Slot : g[i] \in GraphState /\ g[i].on \in [Toggles -> BOOLEAN]
  BY DEF States, GraphState
<1>2. \A i \in Slot : [g[i].on EXCEPT ![t] = v] \in [Toggles -> BOOLEAN]
  BY <1>1
<1>3. \A i \in Slot : [g[i] EXCEPT !.on[t] = v] \in GraphState
  BY <1>1, <1>2 DEF GraphState
<1> QED
  BY <1>1, <1>3 DEF States

LEMMA ToggleTypes ==
  ASSUME Types, NEW t \in Toggles, ToggleAttribute(t)
  PROVE  Handled
<1>1. (~flag[t]) \in BOOLEAN
  BY DEF Types
<1>2. graph' \in States
  BY <1>1, ToggledType, DrawTypes DEF ToggleAttribute, Types
<1> QED
  BY <1>1, <1>2 DEF ToggleAttribute, Types, Handled

LEMMA DeselectedType ==
  ASSUME NEW g \in States
  PROVE  /\ Deselected(g) \in States
         /\ [Deselected(g) EXCEPT ![0].selected = TRUE] \in States
<1>1. \A i \in Slot : g[i] \in GraphState /\ [g[i] EXCEPT !.selected = FALSE] \in GraphState
  BY DEF States, GraphState
<1>2. Deselected(g) \in States
  BY <1>1 DEF Deselected, States
<1>3. Deselected(g)[0] \in GraphState
  BY <1>2, SlotFacts DEF States
<1>4. [Deselected(g)[0] EXCEPT !.selected = TRUE] \in GraphState
  BY <1>3 DEF GraphState
<1> QED
  BY <1>2, <1>4, SlotFacts DEF States

LEMMA ClearTypes ==
  ASSUME Types, Clear2D
  PROVE  Handled
<1> DEFINE rest == [Deselected(graph) EXCEPT ![0].selected = TRUE]
<1>1. Deselected(graph) \in States /\ rest \in States
  BY DeselectedType DEF Types
<1>2. (caret[0] \in BOOLEAN) /\ 0 \in Slot
  BY SlotFacts DEF Types
<1> HIDE DEF rest
<1>3. CASE graph' = Deselected(graph) /\ caret' = [i \in Slot |-> FALSE] /\ UNCHANGED <<backup, image, number>>
  BY <1>1, <1>3 DEF Clear2D, Types, Handled
<1>4. CASE graph' = rest /\ caret' = [i \in Slot |-> i = 0 /\ caret[0]] /\ UNCHANGED <<backup, image, number>>
  BY <1>1, <1>2, <1>4 DEF Clear2D, Types, Handled
<1>5. ASSUME NEW a \in Arriving, Installed(0, a, Scaled(rest, 0, Arrived(graph, 0, a))),
             caret' = [i \in Slot |-> i = 0]
      PROVE  Handled
  <2>1. Scaled(rest, 0, Arrived(graph, 0, a)) \in States
    BY <1>1, <1>2, ArrivedType, ScaledType DEF Types
  <2> QED
    BY <1>2, <1>5, <2>1, InstalledTypes DEF Clear2D, Types, Handled
<1> QED
  BY <1>3, <1>4, <1>5 DEF Clear2D, rest

LEMMA RestoredType ==
  ASSUME Types
  PROVE  LET g == [i \in Slot |-> Restored(graph, i)]
         IN  /\ g \in States
             /\ [i \in Slot |-> IF Chosen(g, i) THEN [g[i] EXCEPT !.on = [t \in Toggles |-> AtFirst[t]]] ELSE g[i]]
                   \in States
<1> DEFINE g == [i \in Slot |-> Restored(graph, i)]
<1>1. \A i \in Slot : Restored(graph, i) \in GraphState
  BY DEF Types, States, Restored, GraphState
<1>2. g \in States
  BY <1>1 DEF States
<1> HIDE DEF g
<1>3. [t \in Toggles |-> AtFirst[t]] \in [Toggles -> BOOLEAN]
  BY View2DAssumption DEF AtFirst
<1>4. \A i \in Slot : g[i] \in GraphState /\ [g[i] EXCEPT !.on = [t \in Toggles |-> AtFirst[t]]] \in GraphState
  BY <1>2, <1>3 DEF States, GraphState
<1>5. [i \in Slot |-> IF Chosen(g, i) THEN [g[i] EXCEPT !.on = [t \in Toggles |-> AtFirst[t]]] ELSE g[i]] \in States
  BY <1>4 DEF States
<1> QED
  BY <1>2, <1>5 DEF g

LEMMA ResetTypes ==
  ASSUME Types, Reset2D
  PROVE  Handled
<1>1. graph' \in States
  BY RestoredType, DrawTypes DEF Reset2D
<1>2. DOMAIN flag = Toggles \cup AxisButton /\ \A t \in Toggles \cup AxisButton : flag[t] \in BOOLEAN
  BY DEF Types
<1>3. \A t \in AttributeButton : AtFirst[t] \in BOOLEAN
  BY DEF AtFirst
<1>4. flag' \in [Toggles \cup AxisButton -> BOOLEAN]
  BY <1>2, <1>3 DEF Reset2D
<1> QED
  BY <1>1, <1>4 DEF Reset2D, Types, Handled
LEMMA ConsumedTypes ==
  ASSUME Types, NEW i \in Slot, Consumed(i)
  PROVE  Handled
<1>1. CASE UNCHANGED <<graph, backup, image, number, caret>> /\ doit' = ""
  BY <1>1 DEF Consumed, Types, Handled
<1>2. ASSUME NEW a \in Arriving, Installed(i, a, Received(i, a)), CaretOn(i), doit' = ""
      PROVE  Handled
  BY <1>2, InstalledTypes, ReceivedType, CaretType DEF Consumed, Types, Handled
<1> QED
  BY <1>1, <1>2 DEF Consumed, DoPick, DoDrop

LEMMA ShownType ==
  ASSUME NEW g \in States, NEW i \in Slot, NEW v \in BOOLEAN
  PROVE  /\ [g EXCEPT ![i].showing = v] \in States
         /\ [g EXCEPT ![i].selected = v] \in States
<1>1. g[i] \in GraphState
  BY DEF States
<1>2. [g[i] EXCEPT !.showing = v] \in GraphState /\ [g[i] EXCEPT !.selected = v] \in GraphState
  BY <1>1 DEF GraphState
<1> QED
  BY <1>2 DEF States

LEMMA ClickTypes ==
  ASSUME Types, NEW i \in Slot, ClickedOnGraph(i) \/ ClickedOnGraphSelect(i)
  PROVE  Handled
<1>1. graph[i].showing \in BOOLEAN /\ graph[i].selected \in BOOLEAN
  BY DEF Types, States, GraphState
<1>2. CASE Consumed(i)
  BY <1>2, ConsumedTypes
<1>3. CASE ClickedOnGraph(i) /\ ~Consumed(i)
  <2>1. Draw([graph EXCEPT ![i].showing = ~graph[i].showing])
    BY <1>3 DEF ClickedOnGraph
  <2>2. graph' \in States
    BY <1>1, <2>1, ShownType, DrawTypes DEF Types
  <2> QED
    BY <1>1, <1>3, <2>2 DEF ClickedOnGraph, Types, Handled
<1>4. CASE ClickedOnGraphSelect(i) /\ ~Consumed(i)
  <2>1. graph' = [graph EXCEPT ![i].selected = ~graph[i].selected]
    BY <1>4 DEF ClickedOnGraphSelect
  <2>2. graph' \in States
    BY <1>1, <2>1, ShownType DEF Types
  <2> QED
    BY <1>1, <1>4, <2>2 DEF ClickedOnGraphSelect, Types, Handled
<1> QED
  BY <1>2, <1>3, <1>4

LEMMA TurnedType ==
  ASSUME NEW pot \in Pot, NEW d \in {-1, 1}, graph \in States
  PROVE  /\ Turned(pot, d) \in States
         /\ \A i \in Slot : Turned(pot, d)[i].key = graph[i].key /\ Turned(pot, d)[i].showing = graph[i].showing
                            /\ Turned(pot, d)[i].selected = graph[i].selected
                            /\ (~Chosen(graph, i) => Turned(pot, d)[i] = graph[i])
<1>1. \A i \in Slot : graph[i] \in GraphState
  BY DEF States
<1>2. CASE pot = "scale2D"
  <2> DEFINE r(i) == [graph[i] EXCEPT !.scaleX = IF flag["zoom2Dx"] THEN Zoomed(@, d) ELSE @,
                                      !.scaleY = IF flag["zoom2Dy"] THEN Zoomed(@, d) ELSE @]
  <2>1. \A i \in Slot : r(i) \in GraphState /\ r(i).key = graph[i].key /\ r(i).showing = graph[i].showing
                        /\ r(i).selected = graph[i].selected
    <3>1. SUFFICES ASSUME NEW i \in Slot
                   PROVE  r(i) \in GraphState /\ r(i).key = graph[i].key /\ r(i).showing = graph[i].showing
                          /\ r(i).selected = graph[i].selected
      OBVIOUS
    <3> DEFINE x == IF flag["zoom2Dx"] THEN Zoomed(graph[i].scaleX, d) ELSE graph[i].scaleX
               y == IF flag["zoom2Dy"] THEN Zoomed(graph[i].scaleY, d) ELSE graph[i].scaleY
    <3>2. graph[i].scaleX \in Scale /\ graph[i].scaleY \in Scale
      BY <1>1 DEF GraphState
    <3>3. x \in Scale /\ y \in Scale
      BY <3>2, ScaleFacts
    <3>4. r(i) = [graph[i] EXCEPT !.scaleX = x, !.scaleY = y]
      BY <1>1 DEF GraphState
    <3> HIDE DEF x, y, r
    <3> QED
      BY <1>1, <3>3, <3>4 DEF GraphState
  <2>2. Turned(pot, d) = [i \in Slot |-> IF Chosen(graph, i) THEN r(i) ELSE graph[i]]
    BY <1>2 DEF Turned, Scale2D
  <2> HIDE DEF r
  <2> QED
    BY <1>1, <2>1, <2>2 DEF States
<1>3. CASE pot = "translate2D"
  <2> DEFINE r(i) == [graph[i] EXCEPT !.center = BoundedCenter(@ - d)]
  <2>1. \A i \in Slot : r(i) \in GraphState /\ r(i).key = graph[i].key /\ r(i).showing = graph[i].showing
                        /\ r(i).selected = graph[i].selected
    <3>1. SUFFICES ASSUME NEW i \in Slot
                   PROVE  r(i) \in GraphState /\ r(i).key = graph[i].key /\ r(i).showing = graph[i].showing
                          /\ r(i).selected = graph[i].selected
      OBVIOUS
    <3>2. graph[i].center \in Center
      BY <1>1 DEF GraphState
    <3>3. BoundedCenter(graph[i].center - d) \in Center
      BY <3>2 DEF Center, MaxDelta, BoundedCenter
    <3> DEFINE b == BoundedCenter(graph[i].center - d)
    <3>4. r(i) = [graph[i] EXCEPT !.center = b]
      OBVIOUS
    <3> HIDE DEF b, r
    <3>5. b \in Center
      BY <3>3 DEF b
    <3> QED
      BY <1>1, <3>4, <3>5 DEF GraphState
  <2>2. Turned(pot, d) = [i \in Slot |-> IF Chosen(graph, i) /\ flag["translate2Dx"] THEN r(i) ELSE graph[i]]
    BY <1>3 DEF Turned, Translate2D
  <2> HIDE DEF r
  <2> QED
    BY <1>1, <2>1, <2>2 DEF States
<1> QED
  BY <1>2, <1>3 DEF Pot

LEMMA TurnTypes ==
  ASSUME Types, NEW pot \in Pot, Turn(pot)
  PROVE  Handled
BY TurnedType, DrawTypes DEF Turn, Types, Handled

(* The commands of Lisp for one slot. *)
LEMMA SlotStates ==
  ASSUME NEW g \in States, NEW i \in Slot
  PROVE  /\ \A t \in Toggles, v \in BOOLEAN : [g EXCEPT ![i].on[t] = v] \in States
         /\ \A n \in Scale : [g EXCEPT ![i].scaleX = n, ![i].scaleY = n] \in States
         /\ \A c \in Int : [g EXCEPT ![i].center = BoundedCenter(c)] \in States
<1>1. g[i] \in GraphState /\ g[i].on \in [Toggles -> BOOLEAN]
  BY DEF States, GraphState
<1>2. ASSUME NEW t \in Toggles, NEW v \in BOOLEAN PROVE [g EXCEPT ![i].on[t] = v] \in States
  <2>1. [g[i].on EXCEPT ![t] = v] \in [Toggles -> BOOLEAN]
    BY <1>1
  <2>2. [g[i] EXCEPT !.on[t] = v] \in GraphState
    BY <1>1, <2>1 DEF GraphState
  <2> QED
    BY <2>2 DEF States
<1>3. ASSUME NEW n \in Scale PROVE [g EXCEPT ![i].scaleX = n, ![i].scaleY = n] \in States
  <2>1. [g[i] EXCEPT !.scaleX = n] \in GraphState
    BY <1>1 DEF GraphState
  <2>2. [[g[i] EXCEPT !.scaleX = n] EXCEPT !.scaleY = n] \in GraphState
    BY <2>1 DEF GraphState
  <2> QED
    BY <2>1, <2>2 DEF States
<1>4. ASSUME NEW c \in Int PROVE [g EXCEPT ![i].center = BoundedCenter(c)] \in States
  <2>1. [g[i] EXCEPT !.center = BoundedCenter(c)] \in GraphState
    BY <1>1, ScaleFacts DEF GraphState
  <2> QED
    BY <2>1 DEF States
<1> QED
  BY <1>2, <1>3, <1>4

LEMMA FinishTypes ==
  ASSUME Types, NEW g \in States, NEW wanted \in BOOLEAN, Finish(g, wanted)
  PROVE  graph' \in States /\ spadDraw' \in BOOLEAN
BY DrawTypes DEF Finish, Types

(* What putGraph makes of the graph that arrives. *)
LEMMA LinesType ==
  ASSUME NEW g \in States, NEW i \in Slot, NEW a \in Arriving
  PROVE  LET lines == [t \in Toggles |-> t = "connectOnOff" \/ a.on[t]]
             s == Scaled(g, i, Arrived(g, i, a))
             h == [s EXCEPT ![i].on = lines]
         IN  /\ h \in States /\ \A j \in Slot \ {i} : h[j] = g[j]
             /\ h[i].key /\ h[i].selected /\ h[i].showing = s[i].showing /\ h[i].showing = a.showing
             /\ h[i].scaleX = s[i].scaleX /\ h[i].scaleY = s[i].scaleY
<1> DEFINE lines == [t \in Toggles |-> t = "connectOnOff" \/ a.on[t]]
           s == Scaled(g, i, Arrived(g, i, a))
<1>1. \A t \in Toggles : a.on[t] \in BOOLEAN
  BY DEF Arriving
<1>2. lines \in [Toggles -> BOOLEAN]
  BY <1>1
<1>3. /\ s \in States /\ \A j \in Slot \ {i} : s[j] = g[j]
      /\ s[i].key /\ s[i].selected /\ s[i].showing = a.showing
  BY ArrivedType, ScaledType
<1> HIDE DEF lines, s
<1>4. s[i] \in GraphState
  BY <1>3 DEF States
<1>5. /\ [s[i] EXCEPT !.on = lines] \in GraphState
      /\ [s[i] EXCEPT !.on = lines].key = s[i].key
      /\ [s[i] EXCEPT !.on = lines].selected = s[i].selected
      /\ [s[i] EXCEPT !.on = lines].showing = s[i].showing
      /\ [s[i] EXCEPT !.on = lines].scaleX = s[i].scaleX
      /\ [s[i] EXCEPT !.on = lines].scaleY = s[i].scaleY
  BY <1>2, <1>4 DEF GraphState
<1>6. /\ [s EXCEPT ![i].on = lines] \in States
      /\ [s EXCEPT ![i].on = lines][i] = [s[i] EXCEPT !.on = lines]
      /\ \A j \in Slot \ {i} : [s EXCEPT ![i].on = lines][j] = s[j]
  BY <1>3, <1>5 DEF States
<1> QED
  BY <1>3, <1>5, <1>6 DEF lines, s
LEMMA OfSlotTypes ==
  ASSUME Types, NEW i \in Slot, OfSlot(i)
  PROVE  /\ graph' \in States /\ backup' \in States
         /\ number' \in [Slot -> BOOLEAN] /\ caret' \in [Slot -> BOOLEAN]
         /\ doit' \in Mode \cup {""} /\ spadDraw' \in BOOLEAN /\ UNCHANGED panel
<1>1. graph[i].showing \in BOOLEAN /\ graph \in States
  BY DEF Types, States, GraphState
<1>2. CASE SetAttribute(i)
  <2>1. PICK t \in Toggles, v \in BOOLEAN : Finish([graph EXCEPT ![i].on[t] = v], graph[i].showing)
    BY <1>2 DEF SetAttribute
  <2> QED
    BY <1>1, <1>2, <2>1, SlotStates, FinishTypes DEF SetAttribute, Types
<1>3. CASE SetScale(i)
  <2>1. PICK n \in Scale : Finish([graph EXCEPT ![i].scaleX = n, ![i].scaleY = n], graph[i].showing)
    BY <1>3 DEF SetScale
  <2> QED
    BY <1>1, <1>3, <2>1, SlotStates, FinishTypes DEF SetScale, Types
<1>4. CASE SetCenter(i)
  <2>1. PICK c \in Int : Finish([graph EXCEPT ![i].center = BoundedCenter(c)], graph[i].showing)
    BY <1>4 DEF SetCenter
  <2> QED
    BY <1>1, <1>4, <2>1, SlotStates, FinishTypes DEF SetCenter, Types
<1>5. CASE SetShowing(i)
  <2>1. PICK v \in BOOLEAN :
          \/ Draw([graph EXCEPT ![i].showing = v]) /\ number' = [number EXCEPT ![i] = v] /\ UNCHANGED <<backup, caret, doit>>
          \/ Finish([graph EXCEPT ![i].showing = ~v], FALSE) /\ doit' = "" /\ UNCHANGED <<backup, number, caret>>
    BY <1>5 DEF SetShowing
  <2>2. (~v) \in BOOLEAN
    OBVIOUS
  <2>3. [graph EXCEPT ![i].showing = v] \in States /\ [graph EXCEPT ![i].showing = ~v] \in States
    BY <1>1, <2>2, ShownType
  <2>4. graph' \in States
    BY <2>1, <2>3, DrawTypes, FinishTypes
  <2>5. /\ number' \in [Slot -> BOOLEAN] /\ UNCHANGED <<backup, caret>> /\ (doit' = "" \/ UNCHANGED doit)
        /\ UNCHANGED <<spadDraw, panel>>
    BY <1>5, <2>1 DEF SetShowing, Types
  <2> QED
    BY <2>4, <2>5 DEF Types
<1>6. CASE PutGraph(i)
  <2> DEFINE lines(a) == [t \in Toggles |-> t = "connectOnOff" \/ a.on[t]]
             g(a) == [Scaled(graph, i, Arrived(graph, i, a)) EXCEPT ![i].on = lines(a)]
  <2>1. PICK a \in Arriving :
          \/ Installed(i, a, g(a)) /\ CaretOn(i) /\ UNCHANGED doit
          \/ /\ doit' = "" /\ Finish([g(a) EXCEPT ![i].showing = ~@], FALSE)
             /\ backup' = [backup EXCEPT ![i] = Arrived(graph, i, a)] /\ CaretOn(i) /\ UNCHANGED number
    BY <1>6 DEF PutGraph
  <2>2. g(a) \in States
    BY <1>1, LinesType
  <2>3. g(a)[i].showing \in BOOLEAN
    BY <2>2 DEF States, GraphState
  <2> HIDE DEF g
  <2>4. [g(a) EXCEPT ![i].showing = ~@] \in States
    BY <2>2, <2>3, ShownType
  <2>5. UNCHANGED <<spadDraw, panel>>
    BY <1>6 DEF PutGraph
  <2>6. caret' \in [Slot -> BOOLEAN]
    BY <2>1, CaretType
  <2>7. CASE Installed(i, a, g(a)) /\ UNCHANGED doit
    BY <2>2, <2>5, <2>6, <2>7, InstalledTypes DEF Types
  <2>8. CASE /\ doit' = "" /\ Finish([g(a) EXCEPT ![i].showing = ~@], FALSE)
             /\ backup' = [backup EXCEPT ![i] = Arrived(graph, i, a)] /\ UNCHANGED number
    <3>1. graph' \in States
      BY <2>4, <2>8, FinishTypes
    <3>2. backup' \in States
      BY <1>1, <2>8, ArrivedType DEF Types, States
    <3> QED
      BY <2>5, <2>6, <2>8, <3>1, <3>2 DEF Types
  <2> QED
    BY <2>1, <2>7, <2>8
<1> QED
  BY <1>2, <1>3, <1>4, <1>5, <1>6 DEF OfSlot

(* The rest of the program's state. *)
OtherTypes ==
  /\ last \in Button /\ held \in BOOLEAN /\ (held => last \in Pot)
  /\ spadDraw \in BOOLEAN /\ alive \in BOOLEAN

LEMMA HandledTypes ==
  ASSUME Handled, OtherTypes'
  PROVE  Types'
BY DEF Handled, OtherTypes, Types

LEMMA PressedTypes ==
  ASSUME Types, NEW b \in Button, Press(b)
  PROVE  last' \in Button /\ last' = b /\ ~held /\ UNCHANGED <<spadDraw, alive>>
BY DEF Press

LEMMA ButtonFacts ==
  /\ Toggles \subseteq Button /\ AxisButton \subseteq Button /\ Mode \subseteq Button /\ Pot \subseteq Button
  /\ {"clear2D", "reset2D", "ps2D", "hideControl2D", "closeAll2D", "graph", "graphSelect"} \subseteq Button
BY View2DAssumption DEF Button, Single, GraphButton

LEMMA SingleTypes ==
  ASSUME Types, PressSingle
  PROVE  Types'
<1>1. ASSUME NEW b \in Button, Press(b), Handled, UNCHANGED held
      PROVE  Types'
  BY <1>1, PressedTypes, HandledTypes DEF Types, OtherTypes
<1>2. CASE \E t \in Toggles : Press(t) /\ ToggleAttribute(t) /\ UNCHANGED held
  BY <1>1, <1>2, ButtonFacts, ToggleTypes
<1>3. ASSUME NEW t \in AxisButton, Press(t), ToggleAxis(t), UNCHANGED held PROVE Types'
  <2>1. (~flag[t]) \in BOOLEAN
    BY DEF Types
  <2>2. Handled
    BY <1>3, <2>1 DEF ToggleAxis, graphs, Types, Handled
  <2> QED
    BY <1>1, <1>3, <2>2, ButtonFacts
<1>4. ASSUME NEW m \in Mode, Press(m), SetMode(m), UNCHANGED held PROVE Types'
  <2>1. Handled
    BY <1>4 DEF SetMode, Types, Handled
  <2> QED
    BY <1>1, <1>4, <2>1, ButtonFacts
<1>5. CASE Press("clear2D") /\ Clear2D /\ UNCHANGED held
  BY <1>1, <1>5, ButtonFacts, ClearTypes
<1>6. CASE Press("reset2D") /\ Reset2D /\ UNCHANGED held
  BY <1>1, <1>6, ButtonFacts, ResetTypes
<1>7. CASE Press("ps2D") /\ PS2D /\ UNCHANGED held
  <2>1. Handled
    BY <1>7, DrawChangesScales DEF PS2D, Types, Handled
  <2> QED
    BY <1>1, <1>7, <2>1, ButtonFacts
<1>8. CASE Press("hideControl2D") /\ HideControl2D /\ UNCHANGED held
  <2>1. Handled
    BY <1>8 DEF HideControl2D, graphs, Types, Handled
  <2> QED
    BY <1>1, <1>8, <2>1, ButtonFacts
<1>9. CASE Press("closeAll2D") /\ UNCHANGED <<graphs, flag, haveControl, held>>
  <2>1. Handled
    BY <1>9 DEF graphs, Types, Handled
  <2> QED
    BY <1>1, <1>9, <2>1, ButtonFacts
<1> QED
  BY <1>2, <1>3, <1>4, <1>5, <1>6, <1>7, <1>8, <1>9 DEF PressSingle

LEMMA LispTypes ==
  ASSUME Types, FromLisp
  PROVE  Types'
<1>1. ASSUME NEW i \in Slot, OfSlot(i) PROVE Types'
  BY <1>1, OfSlotTypes DEF FromLisp, Types, panel
<1>2. CASE ShowControl
  BY <1>2, PanelTypes DEF FromLisp, ShowControl, ShowPanel, Types
<1>3. CASE DropControl
  BY <1>3 DEF FromLisp, DropControl, graphs, Types
<1>4. CASE ChangeTitle
  BY <1>4 DEF FromLisp, ChangeTitle, graphs, panel, Types
<1>5. CASE ResizeViewport
  <2>1. graph' \in States /\ spadDraw' \in BOOLEAN
    BY <1>5, FinishTypes DEF ResizeViewport, Types
  <2> QED
    BY <1>5, <2>1 DEF FromLisp, ResizeViewport, panel, Types
<1>6. CASE PressReset
  BY <1>6, ResetTypes, HandledTypes DEF FromLisp, PressReset, Types, OtherTypes
<1> QED
  BY <1>1, <1>2, <1>3, <1>4, <1>5, <1>6 DEF FromLisp

LEMMA ReleaseTypes ==
  ASSUME Types, Release
  PROVE  Types'
BY DrawTypes DEF Release, Types

LEMMA TypesStep ==
  ASSUME Types, [Next]_vars
  PROVE  Types'
<1>1. CASE UNCHANGED vars
  BY <1>1 DEF vars, graphs, panel, Types
<1>2. CASE Release
  BY <1>2, ReleaseTypes
<1>3. CASE PressSingle
  BY <1>3, SingleTypes
<1>4. ASSUME NEW i \in Slot, PressGraph(i) PROVE Types'
  <2>1. PICK b \in Button : Press(b) /\ Handled /\ UNCHANGED held
    BY <1>4, ButtonFacts, ClickTypes DEF PressGraph
  <2>2. last' \in Button /\ ~held /\ UNCHANGED <<spadDraw, alive>>
    BY <2>1, PressedTypes
  <2>3. OtherTypes'
    BY <2>1, <2>2 DEF Types, OtherTypes
  <2> QED
    BY <2>1, <2>3, HandledTypes
<1>5. ASSUME NEW pot \in Pot, PressPot(pot) PROVE Types'
  BY <1>5, ButtonFacts, TurnTypes, PressedTypes, HandledTypes DEF PressPot, Types, OtherTypes
<1>6. CASE Repeat
  BY <1>6, TurnTypes, HandledTypes DEF Repeat, Types, OtherTypes
<1>7. CASE ConfirmQuit \/ CloseFromLisp
  <2>1. alive' = FALSE /\ UNCHANGED <<graphs, panel, spadDraw>>
    BY <1>7 DEF ConfirmQuit, CloseFromLisp, Goodbye
  <2>2. Handled
    BY <2>1 DEF graphs, panel, Types, Handled
  <2>3. OtherTypes'
    BY <2>1 DEF panel, Types, OtherTypes
  <2> QED
    BY <2>2, <2>3, HandledTypes
<1>8. CASE PressView
  BY <1>8, PanelTypes DEF PressView, ShowPanel, Types
<1>9. CASE Expose
  <2>1. CASE ExposeView
    BY <1>9, <2>1, DrawTypes DEF Expose, ExposeView, Types
  <2>2. CASE ExposePanel
    BY <1>9, <2>2, PanelTypes DEF Expose, ExposePanel, Types
  <2> QED
    BY <1>9, <2>1, <2>2 DEF Expose
<1>10. CASE FromLisp
  BY <1>10, LispTypes
<1> QED
  BY <1>1, <1>2, <1>3, <1>4, <1>5, <1>6, <1>7, <1>8, <1>9, <1>10 DEF Next, Step

LEMMA InitTypes == Init => Types
<1> SUFFICES ASSUME Init PROVE Types
  OBVIOUS
<1>1. \A t \in Toggles \cup AxisButton : AtFirst[t] \in BOOLEAN
  BY View2DAssumption DEF AtFirst
<1>2. [t \in Toggles |-> AtFirst[t]] \in [Toggles -> BOOLEAN]
  BY <1>1
<1> DEFINE on == [t \in Toggles |-> AtFirst[t]]
<1> HIDE DEF on
<1>3. EmptySlot \in GraphState /\ FirstGraph \in GraphState
  <2>1. EmptySlot = [key |-> FALSE, on |-> on, showing |-> FALSE,
                     selected |-> FALSE, scaleX |-> 1, scaleY |-> 1, center |-> 0]
    BY DEF EmptySlot, on
  <2>2. EmptySlot \in GraphState
    BY <1>2, <2>1, ScaleFacts DEF GraphState, on
  <2>3. [EmptySlot EXCEPT !.key = TRUE] \in GraphState
    BY <2>2 DEF GraphState
  <2>4. [[EmptySlot EXCEPT !.key = TRUE] EXCEPT !.showing = TRUE] \in GraphState
    BY <2>3 DEF GraphState
  <2>5. [[[EmptySlot EXCEPT !.key = TRUE] EXCEPT !.showing = TRUE] EXCEPT !.selected = TRUE] \in GraphState
    BY <2>4 DEF GraphState
  <2> QED
    BY <2>2, <2>5 DEF FirstGraph
<1>4. graph \in States /\ backup \in States
  BY <1>3 DEF Init, States
<1>5. \A i \in Slot : graph[i].showing \in BOOLEAN /\ graph[i].selected \in BOOLEAN
  BY <1>4 DEF States, GraphState
<1>6. "translate2D" \in Button
  BY DEF Button, Single, Pot
<1>7. number \in [Slot -> BOOLEAN] /\ caret \in [Slot -> BOOLEAN]
  BY <1>5 DEF Init
<1>8. flag \in [Toggles \cup AxisButton -> BOOLEAN]
  BY <1>1 DEF Init
<1> QED
  BY <1>4, <1>6, <1>7, <1>8 DEF Init, Types
-----------------------------------------------------------------------------
(* Pictures. *)

Drawn(scale, g) == [Picture(g) EXCEPT ![0].axes = IF Shown(g, 0) THEN AxesAt(g, 0, scale) ELSE @]
Drawable(g) == [x : BeforeCut(g[0].scaleX), y : BeforeCut(g[0].scaleY)]

LEMMA PicturesAre ==
  ASSUME NEW g
  PROVE  Pictures(g) = {Drawn(scale, g) : scale \in Drawable(g)}
BY DEF Pictures, Drawn, Drawable

LEMMA PictureType ==
  ASSUME NEW g \in States
  PROVE  /\ Picture(g) = [i \in Slot |-> Picture(g)[i]]
         /\ \A i \in Slot : Picture(g)[i] = IF Shown(g, i) THEN Look(g, i) ELSE NoLook
BY DEF Picture

(* If the first graph is hidden there is one picture. *)
LEMMA HiddenDrawn ==
  ASSUME NEW g \in States, ~Shown(g, 0), NEW scale
  PROVE  Drawn(scale, g) = Picture(g)
<1>1. Picture(g)[0] = NoLook /\ Drawn(scale, g) = [Picture(g) EXCEPT ![0].axes = Picture(g)[0].axes]
  BY SlotFacts, PictureType DEF Drawn
<1>2. [NoLook EXCEPT !.axes = NoLook.axes] = NoLook
  BY DEF NoLook
<1>3. Drawn(scale, g) = [Picture(g) EXCEPT ![0] = Picture(g)[0]]
  BY <1>1, <1>2
<1> QED
  BY <1>3, PictureType

LEMMA DrawableFacts ==
  ASSUME NEW g \in States
  PROVE  BaseScale(g, 0) \in Drawable(g)
<1>1. g[0].scaleX \in BeforeCut(g[0].scaleX) /\ g[0].scaleY \in BeforeCut(g[0].scaleY)
  BY DEF BeforeCut
<1>2. BaseScale(g, 0) = [x |-> g[0].scaleX, y |-> g[0].scaleY]
  BY SlotFacts DEF BaseScale, Slot
<1> QED
  BY <1>1, <1>2 DEF Drawable

(* What has just been drawn is among the pictures. *)
LEMMA PictureIsDrawn ==
  ASSUME NEW g \in States
  PROVE  Picture(g) \in Pictures(g)
<1>1. Drawn(BaseScale(g, 0), g) = Picture(g)
  <2>1. CASE ~Shown(g, 0)
    BY <2>1, HiddenDrawn
  <2>2. CASE Shown(g, 0)
    <3>1. Picture(g)[0] = Look(g, 0) /\ Look(g, 0).axes = AxesAt(g, 0, BaseScale(g, 0))
      BY <2>2, SlotFacts, PictureType DEF Look
    <3>2. [Look(g, 0) EXCEPT !.axes = Look(g, 0).axes] = Look(g, 0)
      BY DEF Look
    <3>3. Drawn(BaseScale(g, 0), g) = [Picture(g) EXCEPT ![0] = Picture(g)[0]]
      BY <2>2, <3>1, <3>2 DEF Drawn
    <3> QED
      BY <3>3, PictureType
  <2> QED
    BY <2>1, <2>2
<1> QED
  BY <1>1, DrawableFacts, PicturesAre

LEMMA PicturesAlike ==
  ASSUME NEW g \in States, NEW h \in States, Picture(g) = Picture(h), Shown(g, 0) = Shown(h, 0),
         Shown(g, 0) => \A scale : AxesAt(g, 0, scale) = AxesAt(h, 0, scale),
         BeforeCut(g[0].scaleX) = BeforeCut(h[0].scaleX), BeforeCut(g[0].scaleY) = BeforeCut(h[0].scaleY)
  PROVE  Pictures(g) = Pictures(h)
<1>1. \A scale : Drawn(scale, g) = Drawn(scale, h)
  BY DEF Drawn
<1>2. Drawable(g) = Drawable(h)
  BY DEF Drawable
<1> QED
  BY <1>1, <1>2, PicturesAre

LEMMA HiddenPictures ==
  ASSUME NEW g \in States, ~Shown(g, 0)
  PROVE  Pictures(g) = {Picture(g)}
<1>1. \A scale : Drawn(scale, g) = Picture(g)
  BY HiddenDrawn
<1>2. \E scale : scale \in Drawable(g)
  BY DrawableFacts
<1> QED
  BY <1>1, <1>2, PicturesAre

(* Neither the selection of graphs nor the attributes of hidden ones are seen in the window. *)
LEMMA SelectionUnseen ==
  ASSUME NEW g \in States, NEW h \in States,
         \A i \in Slot : /\ g[i].key = h[i].key /\ g[i].showing = h[i].showing
                         /\ Shown(g, i) => g[i].on = h[i].on
                         /\ g[i].scaleX = h[i].scaleX /\ g[i].scaleY = h[i].scaleY /\ g[i].center = h[i].center
  PROVE  Pictures(g) = Pictures(h)
<1>1. 0 \in Slot
  BY SlotFacts
<1>2. \A i \in Slot : Shown(g, i) = Shown(h, i)
  BY DEF Shown
<1>3. \A n \in Nat : BaseScale(g, n) = BaseScale(h, n)
  BY <1>1, <1>2 DEF BaseScale
<1>4. ASSUME NEW i \in Slot, Shown(g, i)
      PROVE  Look(g, i) = Look(h, i)
  <2>1. \A t : Has(g[i], t) = Has(h[i], t)
    BY <1>4 DEF Has
  <2>2. BaseScale(g, i) = BaseScale(h, i) /\ BaseScale(g, i + 1) = BaseScale(h, i + 1)
    BY <1>3, SlotFacts
  <2> QED
    BY <1>1, <1>4, <2>1, <2>2 DEF Look, AxesAt, OwnScale
<1>5. Picture(g) = Picture(h)
  BY <1>2, <1>4 DEF Picture
<1>6. Shown(g, 0) => \A scale : AxesAt(g, 0, scale) = AxesAt(h, 0, scale)
  BY <1>1 DEF AxesAt, Has
<1>7. /\ Shown(g, 0) = Shown(h, 0)
      /\ BeforeCut(g[0].scaleX) = BeforeCut(h[0].scaleX) /\ BeforeCut(g[0].scaleY) = BeforeCut(h[0].scaleY)
  BY <1>1, <1>2
<1> QED
  BY <1>5, <1>6, <1>7, PicturesAlike

(* Nor is a graph that is not shown, unless others are drawn relative to it. *)
LEMMA HiddenUnseen ==
  ASSUME NEW g \in States, NEW h \in States, NEW i \in Slot, \A j \in Slot \ {i} : g[j] = h[j],
         ~Shown(g, i), ~Shown(h, i), i # 0 \/ \A j \in Slot : ~Shown(g, j)
  PROVE  Pictures(g) = Pictures(h)
<1>1. 0 \in Slot
  BY SlotFacts
<1>2. \A j \in Slot : Shown(g, j) = Shown(h, j)
  BY DEF Shown
<1>3. CASE \A j \in Slot : ~Shown(g, j)
  <2>1. Picture(g) = Picture(h)
    BY <1>2, <1>3 DEF Picture
  <2> QED
    BY <1>1, <1>2, <1>3, <2>1, HiddenPictures
<1>4. CASE i # 0
  <2>1. g[0] = h[0]
    BY <1>1, <1>4
  <2>2. \A n \in Nat : BaseScale(g, n) = BaseScale(h, n)
    <3>1. \A j \in Slot : (Shown(g, j) /\ g[j].scaleY > Big) <=> (Shown(h, j) /\ h[j].scaleY > Big)
      BY <1>2
    <3>2. Shown(g, 0) = Shown(h, 0)
      BY <1>1, <1>2
    <3> QED
      BY <2>1, <3>1, <3>2 DEF BaseScale
  <2>3. ASSUME NEW j \in Slot, j # i
        PROVE  Look(g, j) = Look(h, j)
    <3>1. BaseScale(g, j) = BaseScale(h, j) /\ BaseScale(g, j + 1) = BaseScale(h, j + 1)
      BY <2>2, SlotFacts
    <3> QED
      BY <2>1, <2>3, <3>1 DEF Look, AxesAt, OwnScale
  <2>4. \A j \in Slot : (IF Shown(g, j) THEN Look(g, j) ELSE NoLook) = (IF Shown(h, j) THEN Look(h, j) ELSE NoLook)
    BY <1>2, <2>3
  <2>5. Picture(g) = Picture(h)
    BY <2>4 DEF Picture
  <2>6. Shown(g, 0) = Shown(h, 0) /\ \A scale : AxesAt(g, 0, scale) = AxesAt(h, 0, scale)
    BY <1>1, <1>2, <2>1 DEF AxesAt
  <2> QED
    BY <2>1, <2>5, <2>6, PicturesAlike
<1> QED
  BY <1>3, <1>4

-----------------------------------------------------------------------------
(* What every handler keeps. *)
Sound == ScalesInv /\ image \in Pictures(graph)
Marks == \A i \in Slot : number[i] = graph[i].showing /\ caret[i] = graph[i].selected
KeepsOthers ==
  \A i \in Slot : Chosen(graph, i) \/ graph'[i] = [graph[i] EXCEPT !.selected = graph'[i].selected]

LEMMA UnselectedSame ==
  ASSUME NEW s \in GraphState
  PROVE  [s EXCEPT !.selected = s.selected] = s
BY DEF GraphState

LEMMA DrawSound ==
  ASSUME NEW g \in States, Draw(g), InScale(g), g[0].key
  PROVE  graph' = g /\ image' \in Pictures(graph') /\ InScale(graph') /\ graph'[0].key
BY DrawKeeps, PictureIsDrawn DEF Draw

(* A graph that arrives has a sound scale. *)
LEMMA ArrivedScales ==
  ASSUME NEW g \in States, InScale(g), g[0].key, NEW i \in Slot, NEW s \in GraphState,
         s.scaleX <= Big, s.scaleY <= Big, s.key
  PROVE  InScale(Scaled(g, i, s)) /\ Scaled(g, i, s)[0].key
<1>1. g[0].scaleX <= Big /\ g[0].scaleY <= Big
  BY SlotFacts DEF InScale
<1>2. /\ \A j \in Slot \ {i} : Scaled(g, i, s)[j] = g[j]
      /\ Scaled(g, i, s)[i].key
      /\ Scaled(g, i, s)[i].scaleX <= Big /\ Scaled(g, i, s)[i].scaleY <= Big
  BY <1>1, ScaledType
<1>3. ASSUME NEW j \in Slot
      PROVE  Scaled(g, i, s)[j].scaleY <= Big /\ (Scaled(g, i, s)[j].key => Scaled(g, i, s)[j].scaleX <= Big)
  BY <1>2 DEF InScale
<1>4. Scaled(g, i, s)[0].key
  BY <1>2, SlotFacts
<1> QED
  BY <1>3, <1>4 DEF InScale

LEMMA InstalledSound ==
  ASSUME Types, Sound, NEW i \in Slot, NEW a \in Arriving, NEW g \in States, InScale(g), g[0].key,
         Installed(i, a, g)
  PROVE  Sound' /\ graph' = g /\ number' = [number EXCEPT ![i] = g[i].showing]
<1>1. graph' = g /\ image' \in Pictures(graph') /\ InScale(graph') /\ graph'[0].key
  BY DrawSound DEF Installed
<1>2. \A j \in Slot : backup'[j].scaleX <= Big /\ backup'[j].scaleY <= Big
  <2>1. Arrived(graph, i, a).scaleX <= Big /\ Arrived(graph, i, a).scaleY <= Big
    <3>1. graph \in States
      BY DEF Types
    <3>2. Arrived(graph, i, a).scaleX = 1 /\ Arrived(graph, i, a).scaleY = 1
      BY <3>1, ArrivedType
    <3> QED
      BY <3>2 DEF Big
  <2> QED
    BY <2>1 DEF Installed, Sound, ScalesInv, Types, States
<1> QED
  BY <1>1, <1>2 DEF Installed, Sound, ScalesInv

LEMMA ReceivedSound ==
  ASSUME Types, Sound, NEW i \in Slot, NEW a \in Arriving
  PROVE  /\ Received(i, a) \in States /\ InScale(Received(i, a)) /\ Received(i, a)[0].key
         /\ \A j \in Slot \ {i} : Received(i, a)[j] = graph[j]
         /\ Received(i, a)[i].selected
<1>1. /\ Arrived(graph, i, a) \in GraphState /\ Arrived(graph, i, a).key /\ Arrived(graph, i, a).selected
      /\ Arrived(graph, i, a).scaleX <= Big /\ Arrived(graph, i, a).scaleY <= Big
  <2>1. graph \in States
    BY DEF Types
  <2>2. /\ Arrived(graph, i, a) \in GraphState /\ Arrived(graph, i, a).key /\ Arrived(graph, i, a).selected
        /\ Arrived(graph, i, a).scaleX = 1 /\ Arrived(graph, i, a).scaleY = 1
    BY <2>1, ArrivedType
  <2> QED
    BY <2>2 DEF Big
<1>2. Received(i, a) = Scaled(graph, i, Arrived(graph, i, a))
  BY DEF Received
<1>3. graph \in States /\ InScale(graph) /\ graph[0].key
  BY DEF Types, Sound, ScalesInv
<1> QED
  BY <1>1, <1>2, <1>3, ScaledType, ArrivedScales

(* Every mark of a slot that a graph arrives in is set as the graph says. *)
LEMMA ArrivedMarks ==
  ASSUME Types, Marks, NEW i \in Slot, graph' \in States,
         \A j \in Slot \ {i} : graph'[j] = graph[j],
         graph'[i].selected, number' = [number EXCEPT ![i] = graph'[i].showing], CaretOn(i)
  PROVE  Marks'
<1>1. graph'[i].selected = TRUE
  BY DEF States, GraphState
<1> QED
  BY <1>1 DEF Marks, CaretOn, Types

-----------------------------------------------------------------------------
(* The handlers of the panel. *)

LEMMA ConsumedSound ==
  ASSUME Types, Sound, NEW i \in Slot, Consumed(i)
  PROVE  Sound' /\ (Marks => Marks')
<1>1. CASE UNCHANGED <<graph, backup, image, number, caret>>
  BY <1>1 DEF Sound, ScalesInv, Marks
<1>2. ASSUME NEW a \in Arriving, Installed(i, a, Received(i, a)), CaretOn(i)
      PROVE  Sound' /\ (Marks => Marks')
  <2>1. Sound' /\ graph' = Received(i, a) /\ number' = [number EXCEPT ![i] = Received(i, a)[i].showing]
    BY <1>2, ReceivedSound, InstalledSound
  <2>2. Marks => Marks'
    BY <1>2, <2>1, ReceivedSound, ArrivedMarks
  <2> QED
    BY <2>1, <2>2
<1> QED
  BY <1>1, <1>2 DEF Consumed, DoPick, DoDrop

LEMMA ToggleSound ==
  ASSUME Types, Sound, NEW t \in Toggles, ToggleAttribute(t)
  PROVE  Sound' /\ (Marks => Marks') /\ KeepsOthers
<1> DEFINE r(i) == [graph[i] EXCEPT !.on[t] = ~flag[t]]
           g == [i \in Slot |-> IF Chosen(graph, i) THEN r(i) ELSE graph[i]]
<1>1. (~flag[t]) \in BOOLEAN
  BY DEF Types
<1>2. g \in States /\ Draw(g)
  BY <1>1, ToggledType DEF ToggleAttribute, Types
<1>3. \A i \in Slot : graph[i] \in GraphState
  BY DEF Types, States
<1>4. \A i \in Slot : /\ r(i).key = graph[i].key /\ r(i).showing = graph[i].showing
                      /\ r(i).selected = graph[i].selected
                      /\ r(i).scaleX = graph[i].scaleX /\ r(i).scaleY = graph[i].scaleY
  BY <1>3 DEF GraphState
<1>5. \A i \in Slot : g[i] = IF Chosen(graph, i) THEN r(i) ELSE graph[i]
  OBVIOUS
<1> HIDE DEF g, r
<1>6. InScale(g) /\ g[0].key
  BY <1>4, <1>5, SlotFacts DEF Sound, ScalesInv, InScale
<1>7. graph' = g /\ image' \in Pictures(graph') /\ InScale(graph') /\ graph'[0].key
  BY <1>2, <1>6, DrawSound
<1>8. UNCHANGED <<backup, number, caret>>
  BY DEF ToggleAttribute
<1>9. Sound'
  BY <1>7, <1>8 DEF Sound, ScalesInv
<1>10. Marks => Marks'
  BY <1>4, <1>5, <1>7, <1>8 DEF Marks
<1>11. KeepsOthers
  BY <1>3, <1>5, <1>7, UnselectedSame DEF KeepsOthers
<1> QED
  BY <1>9, <1>10, <1>11

(* For careful users a click on Clear clears every selection. *)
LEMMA ClearSound ==
  ASSUME Types, Sound, Clear2D, doit = ""
  PROVE  Sound' /\ (Marks => Marks') /\ KeepsOthers
<1>1. graph' = Deselected(graph) /\ caret' = [i \in Slot |-> FALSE] /\ UNCHANGED <<backup, image, number>>
  BY DEF Clear2D
<1>2. \A i \in Slot : graph[i] \in GraphState /\ graph'[i] = [graph[i] EXCEPT !.selected = FALSE]
  BY <1>1 DEF Deselected, Types, States
<1>3. \A i \in Slot : /\ graph'[i].key = graph[i].key /\ graph'[i].showing = graph[i].showing
                      /\ graph'[i].selected = FALSE /\ graph'[i].on = graph[i].on
                      /\ graph'[i].scaleX = graph[i].scaleX /\ graph'[i].scaleY = graph[i].scaleY
                      /\ graph'[i].center = graph[i].center
  BY <1>2 DEF GraphState
<1>4. graph \in States /\ graph' \in States
  BY <1>1, DeselectedType DEF Types
<1>5. Pictures(graph) = Pictures(graph')
  BY <1>3, <1>4, SelectionUnseen
<1>6. Sound'
  BY <1>1, <1>3, <1>5, SlotFacts DEF Sound, ScalesInv, InScale
<1>7. Marks => Marks'
  BY <1>1, <1>3 DEF Marks
<1>8. KeepsOthers
  BY <1>2, <1>3 DEF KeepsOthers
<1> QED
  BY <1>6, <1>7, <1>8

(* For careful users Reset brings back graphs that were shown and selected. *)
LEMMA ResetSound ==
  ASSUME Types, Sound, Reset2D, ResetLosesNothing
  PROVE  Sound' /\ (Marks => Marks') /\ KeepsOthers
<1> DEFINE g == [i \in Slot |-> Restored(graph, i)]
           h == [i \in Slot |-> IF Chosen(g, i) THEN [g[i] EXCEPT !.on = [t \in Toggles |-> AtFirst[t]]] ELSE g[i]]
<1>1. g \in States /\ h \in States
  BY RestoredType
<1>2. Draw(h) /\ UNCHANGED <<backup, number, caret>>
  BY DEF Reset2D
<1>3. \A i \in Slot : graph[i] \in GraphState /\ backup[i] \in GraphState /\ g[i] \in GraphState
  BY <1>1 DEF Types, States
<1>4. ASSUME NEW i \in Slot
      PROVE  /\ g[i].key = graph[i].key /\ g[i].showing = graph[i].showing /\ g[i].selected = graph[i].selected
             /\ g[i].scaleY <= Big /\ (g[i].key => g[i].scaleX <= Big)
             /\ (~Chosen(graph, i) => g[i] = graph[i])
  <2>1. g[i] = Restored(graph, i)
    OBVIOUS
  <2> HIDE DEF g
  <2>2. CASE Chosen(graph, i)
    <3>1. g[i] = [backup[i] EXCEPT !.key = graph[i].key]
      BY <2>1, <2>2 DEF Restored
    <3>2. /\ g[i].key = graph[i].key /\ g[i].showing = backup[i].showing /\ g[i].selected = backup[i].selected
          /\ g[i].scaleX = backup[i].scaleX /\ g[i].scaleY = backup[i].scaleY
      BY <1>3, <3>1 DEF GraphState
    <3>3. backup[i].showing = graph[i].showing /\ backup[i].selected = graph[i].selected
      BY <1>3, <2>2 DEF ResetLosesNothing, Chosen, GraphState
    <3> QED
      BY <2>2, <3>2, <3>3 DEF Sound, ScalesInv
  <2>3. CASE ~Chosen(graph, i)
    BY <2>1, <2>3 DEF Restored, Sound, ScalesInv, InScale
  <2> QED
    BY <2>2, <2>3
<1>5. \A i \in Slot : h[i] = IF Chosen(g, i) THEN [g[i] EXCEPT !.on = [t \in Toggles |-> AtFirst[t]]] ELSE g[i]
  OBVIOUS
<1> HIDE DEF g, h
<1>6. \A i \in Slot : /\ h[i].key = g[i].key /\ h[i].showing = g[i].showing /\ h[i].selected = g[i].selected
                      /\ h[i].scaleX = g[i].scaleX /\ h[i].scaleY = g[i].scaleY
                      /\ (~Chosen(g, i) => h[i] = g[i])
  BY <1>3, <1>5 DEF GraphState
<1>7. InScale(h) /\ h[0].key
  BY <1>4, <1>6, SlotFacts DEF InScale, Sound, ScalesInv
<1>8. graph' = h /\ image' \in Pictures(graph') /\ InScale(graph') /\ graph'[0].key
  BY <1>1, <1>2, <1>7, DrawSound
<1>9. Sound'
  BY <1>2, <1>8 DEF Sound, ScalesInv
<1>10. Marks => Marks'
  BY <1>2, <1>4, <1>6, <1>8 DEF Marks
<1>11. KeepsOthers
  BY <1>3, <1>4, <1>6, <1>8, UnselectedSame DEF KeepsOthers, Chosen
<1> QED
  BY <1>9, <1>10, <1>11

LEMMA SameGraphs ==
  ASSUME Types, UNCHANGED graph
  PROVE  KeepsOthers
<1>1. \A i \in Slot : graph[i] \in GraphState
  BY DEF Types, States
<1> QED
  BY <1>1, UnselectedSame DEF KeepsOthers

LEMMA SameSound ==
  ASSUME Sound, UNCHANGED <<graph, backup, image>>
  PROVE  Sound'
BY DEF Sound, ScalesInv

LEMMA PostScriptSound ==
  ASSUME Types, Sound, PS2D
  PROVE  UNCHANGED graphs
BY DrawKeeps DEF PS2D, graphs, Types, Sound, ScalesInv

(* Clicks on a slot: for a pending mode, or to show a graph, or to select one. *)
LEMMA ShowSound ==
  ASSUME Types, Sound, NEW i \in Slot, NEW v \in BOOLEAN, Draw([graph EXCEPT ![i].showing = v]),
         number' = [number EXCEPT ![i] = v], UNCHANGED <<backup, caret>>
  PROVE  Sound' /\ (Marks => Marks') /\ \A j \in Slot \ {i} : graph'[j] = graph[j]
<1> DEFINE g == [graph EXCEPT ![i].showing = v]
<1>1. g \in States
  BY ShownType DEF Types
<1>2. \A j \in Slot : graph[j] \in GraphState
  BY DEF Types, States
<1>3. /\ \A j \in Slot \ {i} : g[j] = graph[j]
      /\ g[i] = [graph[i] EXCEPT !.showing = v]
  BY DEF Types, States
<1> HIDE DEF g
<1>4. /\ g[i].showing = v /\ g[i].key = graph[i].key /\ g[i].selected = graph[i].selected
      /\ g[i].scaleX = graph[i].scaleX /\ g[i].scaleY = graph[i].scaleY
  BY <1>2, <1>3 DEF GraphState
<1>5. InScale(g) /\ g[0].key
  BY <1>3, <1>4, SlotFacts DEF Sound, ScalesInv, InScale
<1>6. graph' = g /\ image' \in Pictures(graph') /\ InScale(graph') /\ graph'[0].key
  BY <1>1, <1>5, DrawSound DEF g
<1>7. Sound'
  BY <1>6 DEF Sound, ScalesInv
<1>8. Marks => Marks'
  BY <1>3, <1>4, <1>6 DEF Marks, Types
<1> QED
  BY <1>3, <1>6, <1>7, <1>8

LEMMA ClickSound ==
  ASSUME Types, Sound, NEW i \in Slot, ClickedOnGraph(i)
  PROVE  Sound' /\ (Marks => Marks')
<1>1. CASE Consumed(i)
  BY <1>1, ConsumedSound
<1>2. CASE ~Consumed(i)
  <2>1. (~graph[i].showing) \in BOOLEAN
    BY DEF Types, States, GraphState
  <2>2. /\ Draw([graph EXCEPT ![i].showing = ~graph[i].showing]) /\ number' = [number EXCEPT ![i] = ~graph[i].showing]
        /\ UNCHANGED <<backup, caret>>
    BY <1>2 DEF ClickedOnGraph, Types, States
  <2> QED
    BY <2>1, <2>2, ShowSound
<1> QED
  BY <1>1, <1>2

LEMMA SelectSound ==
  ASSUME Types, Sound, NEW i \in Slot, ClickedOnGraphSelect(i)
  PROVE  Sound' /\ (Marks => Marks')
<1>1. CASE Consumed(i)
  BY <1>1, ConsumedSound
<1>2. CASE ~Consumed(i)
  <2>1. (~graph[i].selected) \in BOOLEAN /\ graph \in States
    BY DEF Types, States, GraphState
  <2> DEFINE v == ~graph[i].selected
  <2>2. graph' = [graph EXCEPT ![i].selected = v] /\ caret' = [caret EXCEPT ![i] = v] /\ UNCHANGED <<backup, image, number>>
    BY <1>2 DEF ClickedOnGraphSelect, Types, States
  <2> HIDE DEF v
  <2>3. /\ \A j \in Slot \ {i} : graph'[j] = graph[j]
        /\ graph'[i] = [graph[i] EXCEPT !.selected = v]
    BY <2>1, <2>2 DEF States
  <2>4. \A j \in Slot : graph[j] \in GraphState
    BY <2>1 DEF States
  <2>5. /\ graph'[i].selected = v /\ graph'[i].key = graph[i].key /\ graph'[i].showing = graph[i].showing
        /\ graph'[i].on = graph[i].on /\ graph'[i].center = graph[i].center
        /\ graph'[i].scaleX = graph[i].scaleX /\ graph'[i].scaleY = graph[i].scaleY
    BY <2>3, <2>4 DEF GraphState
  <2>6. graph' \in States
    BY <2>1, <2>2, ShownType DEF v
  <2>7. Pictures(graph) = Pictures(graph')
    <3>1. \A j \in Slot : /\ graph'[j].key = graph[j].key /\ graph'[j].showing = graph[j].showing
                          /\ graph'[j].on = graph[j].on /\ graph'[j].center = graph[j].center
                          /\ graph'[j].scaleX = graph[j].scaleX /\ graph'[j].scaleY = graph[j].scaleY
      BY <2>3, <2>5
    <3> QED
      BY <2>1, <2>6, <3>1, SelectionUnseen
  <2>8. Sound'
    BY <2>2, <2>3, <2>5, <2>7, SlotFacts DEF Sound, ScalesInv, InScale
  <2>9. Marks => Marks'
    BY <2>2, <2>3, <2>5 DEF Marks, Types
  <2> QED
    BY <2>8, <2>9
<1> QED
  BY <1>1, <1>2

(* The potentiometers draw nothing that is too large in any slot but the first. *)
LEMMA DrawKeepsOne ==
  ASSUME NEW g \in States, NEW i \in Slot,
         Shown(g, i) => CutOff(g[i].scaleX) = g[i].scaleX,
         i = 0 => BaseScale(g, LastSlot + 1).y = g[i].scaleY
  PROVE  AfterDrawing(g)[i] = g[i]
<1>1. g[i] \in GraphState
  BY DEF States
<1> DEFINE x == IF Shown(g, i) THEN CutOff(g[i].scaleX) ELSE g[i].scaleX
           y == IF i = 0 THEN BaseScale(g, LastSlot + 1).y ELSE g[i].scaleY
<1>2. AfterDrawing(g)[i] = [g[i] EXCEPT !.scaleX = x, !.scaleY = y]
  BY <1>1 DEF AfterDrawing, GraphState
<1>3. x = g[i].scaleX /\ y = g[i].scaleY
  OBVIOUS
<1> HIDE DEF x, y
<1>4. [g[i] EXCEPT !.scaleX = x, !.scaleY = y] = [g[i] EXCEPT !.scaleX = g[i].scaleX, !.scaleY = g[i].scaleY]
  BY <1>3
<1>5. [g[i] EXCEPT !.scaleX = g[i].scaleX, !.scaleY = g[i].scaleY] = g[i]
  BY <1>1 DEF GraphState
<1> QED
  BY <1>2, <1>4, <1>5

(* A drawing that cuts off only the scale of the first graph leaves a picture in *)
(* which only the axes of that graph may still show the scale it had.            *)
LEMMA CutPicture ==
  ASSUME NEW g \in States, \A i \in Slot \ {0} : g[i].scaleY <= Big, InScale(AfterDrawing(g))
  PROVE  Picture(g) \in Pictures(AfterDrawing(g))
<1> DEFINE h == AfterDrawing(g)
<1>1. /\ h \in States
      /\ \A i \in Slot : /\ h[i].key = g[i].key /\ h[i].showing = g[i].showing /\ h[i].on = g[i].on
                         /\ h[i].center = g[i].center
                         /\ h[i].scaleX = IF Shown(g, i) THEN CutOff(g[i].scaleX) ELSE g[i].scaleX
                         /\ h[i].scaleY = IF i = 0 THEN BaseScale(g, LastSlot + 1).y ELSE g[i].scaleY
  BY DrawChangesScales
<1> HIDE DEF h
<1>2. /\ 0 \in Slot
      /\ \A i \in Slot : /\ g[i].scaleX \in Scale /\ g[i].scaleY \in Scale
                         /\ h[i].scaleX \in Scale /\ h[i].scaleY \in Scale
  BY <1>1, SlotFacts DEF States, GraphState
<1>3. \A i \in Slot : Shown(h, i) = Shown(g, i)
  BY <1>1 DEF Shown
<1>4. \A i \in Slot : ~(h[i].scaleY > Big)
  BY <1>2 DEF InScale, h, Scale, Big
<1>5. \A i \in Slot \ {0} : ~(g[i].scaleY > Big)
  BY <1>2 DEF Scale, Big
<1>6. h[0].scaleY = IF Shown(g, 0) THEN CutOff(g[0].scaleY) ELSE g[0].scaleY
  <2>1. (\E j \in Slot : j < LastSlot + 1 /\ Shown(g, j) /\ g[j].scaleY > Big)
          <=> Shown(g, 0) /\ g[0].scaleY > Big
    BY <1>2, <1>5, SlotFacts, View2DAssumption DEF Slot
  <2> QED
    BY <1>1, <1>2, <2>1, BaseScaleType, SlotFacts DEF CutOff
<1>7. \A n \in Scale : CutOff(n) \in Scale /\ CutOff(CutOff(n)) = CutOff(n) /\ n \in BeforeCut(CutOff(n))
                      /\ n \in BeforeCut(n)
  BY DEF Scale, Big, CutOff, BeforeCut
<1>8. ASSUME NEW n \in Nat, n > 0
      PROVE  BaseScale(h, n) = BaseScale(g, n)
  <2>1. ~\E j \in Slot : j < n /\ Shown(h, j) /\ h[j].scaleY > Big
    BY <1>4
  <2>2. (\E j \in Slot : j < n /\ Shown(g, j) /\ g[j].scaleY > Big) <=> Shown(g, 0) /\ g[0].scaleY > Big
    BY <1>2, <1>5, <1>8
  <2>3. BaseScale(h, n).y = h[0].scaleY
    BY <2>1 DEF BaseScale
  <2>4. BaseScale(g, n).y = IF Shown(g, 0) THEN CutOff(g[0].scaleY) ELSE g[0].scaleY
    BY <2>2 DEF BaseScale, CutOff
  <2>5. BaseScale(h, n).x = BaseScale(g, n).x
    BY <1>1, <1>2, <1>3, <1>7, <1>8 DEF BaseScale
  <2> QED
    BY <1>6, <2>3, <2>4, <2>5 DEF BaseScale
<1>9. ASSUME NEW i \in Slot, Shown(g, i)
      PROVE  OwnScale(h, i) = OwnScale(g, i)
  <2>1. CutOff(h[i].scaleX) = CutOff(g[i].scaleX)
    BY <1>1, <1>2, <1>7, <1>9
  <2>2. i = 0 => CutOff(h[0].scaleY) = CutOff(g[0].scaleY)
    BY <1>2, <1>6, <1>7, <1>9
  <2>3. i # 0 => h[i].scaleY = g[i].scaleY
    BY <1>1
  <2> QED
    BY <2>1, <2>2, <2>3 DEF OwnScale
<1>10. ASSUME NEW i \in Slot, Shown(g, i), i # 0
       PROVE  Look(h, i) = Look(g, i)
  <2>1. BaseScale(h, i) = BaseScale(g, i) /\ BaseScale(h, i + 1) = BaseScale(g, i + 1)
    BY <1>8, <1>10 DEF Slot
  <2>2. \A t : Has(h[i], t) = Has(g[i], t)
    BY <1>1 DEF Has
  <2> QED
    BY <1>1, <1>2, <1>9, <1>10, <2>1, <2>2 DEF Look, AxesAt
<1> DEFINE s == BaseScale(g, 0)
<1>11. Shown(g, 0) => s \in Drawable(h) /\ Look(g, 0) = [Look(h, 0) EXCEPT !.axes = AxesAt(h, 0, s)]
  <2>1. SUFFICES ASSUME Shown(g, 0)
                 PROVE  s \in Drawable(h) /\ Look(g, 0) = [Look(h, 0) EXCEPT !.axes = AxesAt(h, 0, s)]
    OBVIOUS
  <2>2. s = [x |-> g[0].scaleX, y |-> g[0].scaleY]
    BY SlotFacts DEF BaseScale, Slot
  <2>3. h[0].scaleX = CutOff(g[0].scaleX) /\ h[0].scaleY = CutOff(g[0].scaleY)
    BY <1>1, <1>2, <1>6, <2>1
  <2>4. s \in Drawable(h)
    BY <1>2, <1>7, <2>2, <2>3 DEF Drawable
  <2>5. \A t : Has(h[0], t) = Has(g[0], t)
    BY <1>1, <1>2 DEF Has
  <2>6. BaseScale(h, 0 + 1) = BaseScale(g, 0 + 1) /\ OwnScale(h, 0) = OwnScale(g, 0)
    BY <1>2, <1>8, <1>9, <2>1
  <2>7. AxesAt(h, 0, s) = AxesAt(g, 0, s)
    BY <1>1, <1>2, <2>5 DEF AxesAt
  <2> HIDE DEF s
  <2>8. Look(h, 0) = [Look(h, 0) EXCEPT !.axes = Look(h, 0).axes] /\ h[0].on = g[0].on /\ h[0].center = g[0].center
    BY <1>1, <1>2 DEF Look
  <2>9. Look(g, 0) = [Look(h, 0) EXCEPT !.axes = AxesAt(g, 0, BaseScale(g, 0))]
    BY <2>5, <2>6, <2>8 DEF Look
  <2> QED
    BY <2>4, <2>7, <2>9 DEF s
<1>12. CASE Shown(g, 0)
  <2>1. Drawn(s, h) = [Picture(h) EXCEPT ![0] = [Picture(h)[0] EXCEPT !.axes = AxesAt(h, 0, s)]]
    BY <1>2, <1>3, <1>12 DEF Drawn
  <2>2. Picture(h)[0] = Look(h, 0) /\ Picture(g)[0] = Look(g, 0)
    BY <1>1, <1>2, <1>3, <1>12, PictureType
  <2>3. Drawn(s, h) = [Picture(h) EXCEPT ![0] = Look(g, 0)]
    BY <1>11, <1>12, <2>1, <2>2
  <2>4. \A i \in Slot \ {0} : Picture(h)[i] = Picture(g)[i]
    BY <1>1, <1>3, <1>10, PictureType
  <2>5. Drawn(s, h) = Picture(g)
    BY <1>1, <2>2, <2>3, <2>4, PictureType
  <2> QED
    BY <1>11, <1>12, <2>5, PicturesAre DEF h
<1>13. CASE ~Shown(g, 0)
  <2>1. \A i \in Slot : Picture(h)[i] = Picture(g)[i]
    BY <1>1, <1>3, <1>10, <1>13, PictureType
  <2>2. Picture(h) = Picture(g)
    BY <1>1, <2>1, PictureType
  <2> QED
    BY <1>1, <2>2, PictureIsDrawn DEF h
<1> QED
  BY <1>12, <1>13

LEMMA TurnSound ==
  ASSUME Careful, Types, ScalesInv, NEW pot \in Pot, Turn(pot)
  PROVE  Sound' /\ (Marks => Marks') /\ KeepsOthers
<1>1. PICK d \in {-1, 1} : KeptInside(Turned(pot, d)) /\ Draw(Turned(pot, d))
  BY DEF Turn
<1>2. UNCHANGED <<backup, number, caret>>
  BY DEF Turn
<1> DEFINE g == Turned(pot, d)
<1>3. /\ g \in States
      /\ \A i \in Slot : g[i].key = graph[i].key /\ g[i].showing = graph[i].showing
                         /\ g[i].selected = graph[i].selected
                         /\ (~Chosen(graph, i) => g[i] = graph[i])
  BY TurnedType DEF Types
<1> HIDE DEF g
<1>4. \A i \in Slot : graph[i] \in GraphState /\ g[i] \in GraphState
  BY <1>3 DEF Types, States
<1>5. graph' = AfterDrawing(g) /\ \A i \in Slot \ {0} : g[i].scaleY <= Big
  BY <1>1 DEF Draw, KeptInside, g
<1>6. \A i \in Slot : ~Chosen(graph, i) => g[i].scaleY <= Big /\ (g[i].key => g[i].scaleX <= Big)
  BY <1>3 DEF ScalesInv, InScale
<1>7. \A i \in Slot : ~g[i].showing \/ (~Shown(g, i) /\ g[i].key) => ~Chosen(graph, i)
  BY <1>3 DEF Chosen, Shown
<1>8. Sound'
  <2>1. 0 \in Slot /\ graph[0].key
    BY SlotFacts DEF ScalesInv
  <2>2. \A i \in Slot : i # 0 \/ ~Shown(g, 0) => g[i].scaleY <= Big
    BY <1>3, <1>5, <1>6, <1>7, <2>1
  <2>3. \A i \in Slot : g[i].key /\ ~g[i].showing => g[i].scaleX <= Big
    BY <1>6, <1>7
  <2>4. InScale(graph')
    BY <1>3, <1>5, <2>2, <2>3, DrawScales
  <2>5. graph'[0].key
    BY <1>3, <1>5, <2>1, DrawChangesScales
  <2>6. image' \in Pictures(graph')
    BY <1>1, <1>3, <1>5, <2>4, CutPicture DEF Draw, g
  <2> QED
    BY <1>2, <2>4, <2>5, <2>6 DEF Sound, ScalesInv
<1>9. Marks => Marks'
  <2>1. \A i \in Slot : graph'[i].showing = graph[i].showing /\ graph'[i].selected = graph[i].selected
    BY <1>3, <1>5, DrawChangesScales
  <2> QED
    BY <1>2, <2>1 DEF Marks
<1>10. KeepsOthers
  <2>1. ASSUME NEW i \in Slot, ~Chosen(graph, i)
        PROVE  graph'[i] = graph[i]
    <3>1. g[i] = graph[i] /\ g[i].scaleY <= Big /\ (g[i].key => g[i].scaleX <= Big)
      BY <1>3, <1>6, <2>1
    <3>2. Shown(g, i) => CutOff(g[i].scaleX) = g[i].scaleX
      BY <1>4, <3>1 DEF Shown, CutOff, GraphState, Scale, Big
    <3>3. i = 0 => BaseScale(g, LastSlot + 1).y = g[i].scaleY
      <4>1. SUFFICES ASSUME i = 0 PROVE BaseScale(g, LastSlot + 1).y = g[0].scaleY
        OBVIOUS
      <4>2. \A j \in Slot : ~(g[j].scaleY > Big)
        BY <1>4, <1>5, <3>1, <4>1, ScaleFacts DEF GraphState, Scale, Big
      <4> QED
        BY <1>3, <4>2, BaseScaleType, SlotFacts
    <3> QED
      BY <1>3, <1>5, <3>1, <3>2, <3>3, DrawKeepsOne
  <2> QED
    BY <1>4, <2>1, UnselectedSame DEF KeepsOthers
<1> QED
  BY <1>8, <1>9, <1>10

-----------------------------------------------------------------------------
(* The commands of Lisp. *)

LEMMA FinishSound ==
  ASSUME Types, Sound, NEW g \in States, InScale(g), g[0].key, NEW wanted \in BOOLEAN, Finish(g, wanted),
         ~wanted => Pictures(g) = Pictures(graph), UNCHANGED backup
  PROVE  Sound' /\ graph' = g
<1>1. CASE spadDraw \/ wanted
  <2>1. Draw(g)
    BY <1>1 DEF Finish
  <2> QED
    BY <2>1, DrawSound DEF Sound, ScalesInv
<1>2. CASE ~(spadDraw \/ wanted)
  BY <1>2 DEF Finish, Sound, ScalesInv
<1> QED
  BY <1>1, <1>2

(* A change of one slot that leaves alone whether its graph is shown and selected. *)
ChangedIn(g, i) ==
  /\ \A j \in Slot \ {i} : g[j] = graph[j]
  /\ g[i].key = graph[i].key /\ g[i].showing = graph[i].showing /\ g[i].selected = graph[i].selected

LEMMA SlotChanged ==
  ASSUME Types, NEW i \in Slot
  PROVE  /\ \A t \in Toggles, v \in BOOLEAN :
              LET g == [graph EXCEPT ![i].on[t] = v]
              IN  /\ ChangedIn(g, i) /\ g[i].scaleX = graph[i].scaleX /\ g[i].scaleY = graph[i].scaleY
                  /\ g[i].center = graph[i].center
         /\ \A n \in Scale :
              LET g == [graph EXCEPT ![i].scaleX = n, ![i].scaleY = n]
              IN  ChangedIn(g, i) /\ g[i].scaleX = n /\ g[i].scaleY = n
         /\ \A c \in Int :
              LET g == [graph EXCEPT ![i].center = BoundedCenter(c)]
              IN  ChangedIn(g, i) /\ g[i].scaleX = graph[i].scaleX /\ g[i].scaleY = graph[i].scaleY
<1>1. graph[i] \in GraphState /\ graph \in States
  BY DEF Types, States
<1>2. ASSUME NEW t \in Toggles, NEW v \in BOOLEAN
      PROVE  LET g == [graph EXCEPT ![i].on[t] = v]
             IN  /\ ChangedIn(g, i) /\ g[i].scaleX = graph[i].scaleX /\ g[i].scaleY = graph[i].scaleY
                 /\ g[i].center = graph[i].center
  <2> DEFINE r == [graph[i] EXCEPT !.on[t] = v]
             g == [graph EXCEPT ![i].on[t] = v]
  <2>1. /\ r.key = graph[i].key /\ r.showing = graph[i].showing /\ r.selected = graph[i].selected
        /\ r.scaleX = graph[i].scaleX /\ r.scaleY = graph[i].scaleY /\ r.center = graph[i].center
    BY <1>1 DEF GraphState
  <2>2. g[i] = r /\ \A j \in Slot \ {i} : g[j] = graph[j]
    BY <1>1 DEF States
  <2> HIDE DEF r, g
  <2>3. ChangedIn(g, i) /\ g[i].scaleX = graph[i].scaleX /\ g[i].scaleY = graph[i].scaleY /\ g[i].center = graph[i].center
    BY <2>1, <2>2 DEF ChangedIn
  <2> QED
    BY <2>3 DEF g
<1>3. ASSUME NEW n \in Scale
      PROVE  LET g == [graph EXCEPT ![i].scaleX = n, ![i].scaleY = n]
             IN  ChangedIn(g, i) /\ g[i].scaleX = n /\ g[i].scaleY = n
  <2> DEFINE r == [[graph[i] EXCEPT !.scaleX = n] EXCEPT !.scaleY = n]
             g == [graph EXCEPT ![i].scaleX = n, ![i].scaleY = n]
  <2>1. /\ r.key = graph[i].key /\ r.showing = graph[i].showing /\ r.selected = graph[i].selected
        /\ r.scaleX = n /\ r.scaleY = n
    BY <1>1 DEF GraphState
  <2>2. g[i] = r /\ \A j \in Slot \ {i} : g[j] = graph[j]
    BY <1>1 DEF States
  <2> HIDE DEF r, g
  <2>3. ChangedIn(g, i) /\ g[i].scaleX = n /\ g[i].scaleY = n
    BY <2>1, <2>2 DEF ChangedIn
  <2> QED
    BY <2>3 DEF g
<1>4. ASSUME NEW c \in Int
      PROVE  LET g == [graph EXCEPT ![i].center = BoundedCenter(c)]
             IN  ChangedIn(g, i) /\ g[i].scaleX = graph[i].scaleX /\ g[i].scaleY = graph[i].scaleY
  <2> DEFINE r == [graph[i] EXCEPT !.center = BoundedCenter(c)]
             g == [graph EXCEPT ![i].center = BoundedCenter(c)]
  <2>1. /\ r.key = graph[i].key /\ r.showing = graph[i].showing /\ r.selected = graph[i].selected
        /\ r.scaleX = graph[i].scaleX /\ r.scaleY = graph[i].scaleY
    BY <1>1 DEF GraphState
  <2>2. g[i] = r /\ \A j \in Slot \ {i} : g[j] = graph[j]
    BY <1>1 DEF States
  <2> HIDE DEF r, g
  <2>3. ChangedIn(g, i) /\ g[i].scaleX = graph[i].scaleX /\ g[i].scaleY = graph[i].scaleY
    BY <2>1, <2>2 DEF ChangedIn
  <2> QED
    BY <2>3 DEF g
<1> QED
  BY <1>2, <1>3, <1>4

(* Such a change, drawn or not to be seen, keeps the window current. *)
LEMMA ChangedSound ==
  ASSUME Types, Sound, NEW i \in Slot, NEW g \in States, ChangedIn(g, i),
         g[i].scaleX <= Big, g[i].scaleY <= Big, Finish(g, graph[i].showing),
         ~graph[i].showing => Pictures(g) = Pictures(graph), UNCHANGED <<backup, number, caret>>
  PROVE  Sound' /\ (Marks => Marks') /\ \A j \in Slot \ {i} : graph'[j] = graph[j]
<1>1. InScale(g) /\ g[0].key
  BY SlotFacts DEF ChangedIn, Sound, ScalesInv, InScale
<1>2. graph[i].showing \in BOOLEAN
  BY DEF Types, States, GraphState
<1>3. Sound' /\ graph' = g
  BY <1>1, <1>2, FinishSound
<1> QED
  BY <1>3 DEF Marks, ChangedIn

LEMMA LispSlotSound ==
  ASSUME Careful, Types, Sound, NEW i \in Slot, OfSlot(i)
  PROVE  Sound' /\ (Marks => Marks') /\ \A j \in Slot \ {i} : graph'[j] = graph[j]
<1>1. /\ graph \in States /\ graph[i] \in GraphState /\ graph[i].showing \in BOOLEAN
      /\ graph[i].scaleY <= Big /\ (graph[i].key => graph[i].scaleX <= Big)
  BY DEF Types, States, GraphState, Sound, ScalesInv, InScale
<1>2. CASE SetAttribute(i)
  <2>1. PICK t \in Toggles, v \in BOOLEAN : Finish([graph EXCEPT ![i].on[t] = v], graph[i].showing)
    BY <1>2 DEF SetAttribute
  <2> DEFINE g == [graph EXCEPT ![i].on[t] = v]
  <2>2. /\ g \in States /\ ChangedIn(g, i) /\ g[i].center = graph[i].center
        /\ g[i].scaleX = graph[i].scaleX /\ g[i].scaleY = graph[i].scaleY
    BY <1>1, SlotStates, SlotChanged
  <2> HIDE DEF g
  <2>3. UNCHANGED <<backup, number, caret>>
    BY <1>2 DEF SetAttribute
  <2>4. ~graph[i].showing => Pictures(graph) = Pictures(g)
    <3>1. ~graph[i].showing => ~Shown(graph, i)
      BY DEF Shown
    <3>2. ~graph[i].showing =>
            \A j \in Slot : /\ graph[j].key = g[j].key /\ graph[j].showing = g[j].showing
                            /\ Shown(graph, j) => graph[j].on = g[j].on
                            /\ graph[j].scaleX = g[j].scaleX /\ graph[j].scaleY = g[j].scaleY
                            /\ graph[j].center = g[j].center
      BY <2>2, <3>1 DEF ChangedIn
    <3> QED
      BY <1>1, <2>2, <3>2, SelectionUnseen
  <2>5. InScale(g) /\ g[0].key
    BY <2>2, SlotFacts DEF ChangedIn, Sound, ScalesInv, InScale
  <2>6. Sound' /\ graph' = g
    BY <1>1, <2>1, <2>2, <2>3, <2>4, <2>5, FinishSound DEF g
  <2> QED
    BY <2>2, <2>3, <2>6 DEF Marks, ChangedIn
<1>3. ASSUME NEW g \in States, ChangedIn(g, i), SafeBase(i), ~graph[i].showing
      PROVE  Pictures(g) = Pictures(graph)
  <2>1. ~Shown(graph, i) /\ ~Shown(g, i)
    BY <1>3 DEF ChangedIn, Shown
  <2>2. i # 0 \/ \A j \in Slot : ~Shown(graph, j)
    BY <1>3, SlotFacts DEF SafeBase
  <2>3. \A j \in Slot \ {i} : graph[j] = g[j]
    BY <1>3 DEF ChangedIn
  <2> QED
    BY <1>1, <2>1, <2>2, <2>3, HiddenUnseen
<1>4. CASE SetScale(i)
  <2>1. PICK n \in Scale : n <= Big /\ Finish([graph EXCEPT ![i].scaleX = n, ![i].scaleY = n], graph[i].showing)
    BY <1>4 DEF SetScale
  <2> DEFINE g == [graph EXCEPT ![i].scaleX = n, ![i].scaleY = n]
  <2>2. g \in States /\ ChangedIn(g, i) /\ g[i].scaleX = n /\ g[i].scaleY = n
    BY <1>1, SlotStates, SlotChanged
  <2> HIDE DEF g
  <2>3. SafeBase(i) /\ UNCHANGED <<backup, number, caret>>
    BY <1>4 DEF SetScale
  <2>4. ~graph[i].showing => Pictures(g) = Pictures(graph)
    BY <1>3, <2>2, <2>3
  <2>5. Finish(g, graph[i].showing) /\ g[i].scaleX <= Big /\ g[i].scaleY <= Big
    BY <2>1, <2>2 DEF g
  <2> QED
    BY <2>2, <2>3, <2>4, <2>5, ChangedSound
<1>5. CASE SetCenter(i)
  <2>1. PICK c \in Int : Finish([graph EXCEPT ![i].center = BoundedCenter(c)], graph[i].showing)
    BY <1>5 DEF SetCenter
  <2> DEFINE g == [graph EXCEPT ![i].center = BoundedCenter(c)]
  <2>2. g \in States /\ ChangedIn(g, i) /\ g[i].scaleX = graph[i].scaleX /\ g[i].scaleY = graph[i].scaleY
    BY <1>1, SlotStates, SlotChanged
  <2> HIDE DEF g
  <2>3. SafeBase(i) /\ UNCHANGED <<backup, number, caret>>
    BY <1>5 DEF SetCenter
  <2>4. ~graph[i].showing => Pictures(g) = Pictures(graph)
    BY <1>3, <2>2, <2>3
  <2>5. Finish(g, graph[i].showing)
    BY <2>1 DEF g
  <2>6. InScale(g) /\ g[0].key
    BY <2>2, SlotFacts DEF ChangedIn, Sound, ScalesInv, InScale
  <2>7. Sound' /\ graph' = g
    BY <1>1, <2>2, <2>3, <2>4, <2>5, <2>6, FinishSound
  <2> QED
    BY <2>2, <2>3, <2>7 DEF Marks, ChangedIn
<1>6. CASE SetShowing(i)
  <2>1. PICK v \in BOOLEAN : /\ Draw([graph EXCEPT ![i].showing = v]) /\ number' = [number EXCEPT ![i] = v]
                             /\ UNCHANGED <<backup, caret>>
    BY <1>6 DEF SetShowing
  <2> QED
    BY <2>1, ShowSound
<1>7. CASE PutGraph(i)
  <2> DEFINE lines(a) == [t \in Toggles |-> t = "connectOnOff" \/ a.on[t]]
             g(a) == [Scaled(graph, i, Arrived(graph, i, a)) EXCEPT ![i].on = lines(a)]
  <2>1. PICK a \in Arriving : Installed(i, a, g(a)) /\ CaretOn(i)
    BY <1>7 DEF PutGraph
  <2>2. /\ g(a) \in States /\ \A j \in Slot \ {i} : g(a)[j] = graph[j]
        /\ g(a)[i].key /\ g(a)[i].selected
        /\ g(a)[i].scaleX = Scaled(graph, i, Arrived(graph, i, a))[i].scaleX
        /\ g(a)[i].scaleY = Scaled(graph, i, Arrived(graph, i, a))[i].scaleY
    BY <1>1, LinesType
  <2> HIDE DEF g
  <2>3. g(a)[i].scaleX <= Big /\ g(a)[i].scaleY <= Big
    <3>1. Received(i, a) = Scaled(graph, i, Arrived(graph, i, a))
      BY DEF Received
    <3>2. InScale(Received(i, a)) /\ Received(i, a)[i].key
      <4>1. Arrived(graph, i, a) \in GraphState /\ Arrived(graph, i, a).key
        BY <1>1, ArrivedType
      <4> QED
        BY <1>1, <3>1, <4>1, ReceivedSound, ScaledType
    <3> QED
      BY <2>2, <3>1, <3>2 DEF InScale
  <2>4. InScale(g(a)) /\ g(a)[0].key
    BY <2>2, <2>3, SlotFacts DEF InScale, Sound, ScalesInv
  <2>5. Sound' /\ graph' = g(a) /\ number' = [number EXCEPT ![i] = g(a)[i].showing]
    BY <2>1, <2>2, <2>4, InstalledSound
  <2>6. Marks => Marks'
    BY <2>1, <2>2, <2>5, ArrivedMarks
  <2> QED
    BY <2>2, <2>5, <2>6
<1> QED
  BY <1>2, <1>4, <1>5, <1>6, <1>7 DEF OfSlot

(* What a command for one slot does to the others does not depend on the window. *)
LEMMA LispSlotAlone ==
  ASSUME Careful, Types, ScalesInv, NEW i \in Slot, OfSlot(i)
  PROVE  \A j \in Slot \ {i} : graph'[j] = graph[j]
<1>1. graph \in States /\ InScale(graph) /\ 0 \in Slot
  BY SlotFacts DEF Types, ScalesInv
<1>2. ASSUME NEW g \in States, NEW w \in BOOLEAN, Finish(g, w) \/ Draw(g), \A j \in Slot \ {i} : g[j] = graph[j],
             g[i].scaleX <= Big, g[i].scaleY <= Big
      PROVE  \A j \in Slot \ {i} : graph'[j] = graph[j]
  <2>1. InScale(g)
    BY <1>1, <1>2 DEF InScale
  <2>2. graph' = g
    BY <1>2, <2>1, DrawKeeps DEF Finish, Draw
  <2> QED
    BY <1>2, <2>2
<1>3. ASSUME NEW g \in States, NEW w \in BOOLEAN, Finish(g, w) \/ Draw(g), ChangedIn(g, i),
             g[i].scaleX = graph[i].scaleX, g[i].scaleY = graph[i].scaleY
      PROVE  \A j \in Slot \ {i} : graph'[j] = graph[j]
  <2>1. InScale(g)
    BY <1>1, <1>3 DEF InScale, ChangedIn
  <2>2. graph' = g
    BY <1>3, <2>1, DrawKeeps DEF Finish, Draw
  <2> QED
    BY <1>3, <2>2 DEF ChangedIn
<1>4. graph[i].showing \in BOOLEAN
  BY <1>1 DEF States, GraphState
<1>5. CASE SetAttribute(i)
  <2>1. PICK t \in Toggles, v \in BOOLEAN : Finish([graph EXCEPT ![i].on[t] = v], graph[i].showing)
    BY <1>5 DEF SetAttribute
  <2> DEFINE g == [graph EXCEPT ![i].on[t] = v]
  <2>2. g \in States /\ ChangedIn(g, i) /\ g[i].scaleX = graph[i].scaleX /\ g[i].scaleY = graph[i].scaleY
    BY <1>1, SlotStates, SlotChanged
  <2>3. Finish(g, graph[i].showing)
    BY <2>1
  <2> HIDE DEF g
  <2> QED
    BY <1>3, <1>4, <2>2, <2>3
<1>6. CASE SetScale(i)
  <2>1. PICK n \in Scale : n <= Big /\ Finish([graph EXCEPT ![i].scaleX = n, ![i].scaleY = n], graph[i].showing)
    BY <1>6 DEF SetScale
  <2> DEFINE g == [graph EXCEPT ![i].scaleX = n, ![i].scaleY = n]
  <2>2. g \in States /\ ChangedIn(g, i) /\ g[i].scaleX = n /\ g[i].scaleY = n
    BY <1>1, SlotStates, SlotChanged
  <2>3. Finish(g, graph[i].showing)
    BY <2>1
  <2> HIDE DEF g
  <2> QED
    BY <1>2, <1>4, <2>1, <2>2, <2>3 DEF ChangedIn
<1>7. CASE SetCenter(i)
  <2>1. PICK c \in Int : Finish([graph EXCEPT ![i].center = BoundedCenter(c)], graph[i].showing)
    BY <1>7 DEF SetCenter
  <2> DEFINE g == [graph EXCEPT ![i].center = BoundedCenter(c)]
  <2>2. g \in States /\ ChangedIn(g, i) /\ g[i].scaleX = graph[i].scaleX /\ g[i].scaleY = graph[i].scaleY
    BY <1>1, SlotStates, SlotChanged
  <2>3. Finish(g, graph[i].showing)
    BY <2>1
  <2> HIDE DEF g
  <2> QED
    BY <1>3, <1>4, <2>2, <2>3
<1>8. CASE SetShowing(i)
  <2>1. PICK v \in BOOLEAN : Draw([graph EXCEPT ![i].showing = v])
    BY <1>8 DEF SetShowing
  <2> DEFINE r == [graph[i] EXCEPT !.showing = v]
             g == [graph EXCEPT ![i].showing = v]
  <2>2. r.key = graph[i].key /\ r.scaleX = graph[i].scaleX /\ r.scaleY = graph[i].scaleY
    BY <1>1 DEF States, GraphState
  <2>3. g[i] = r /\ \A j \in Slot \ {i} : g[j] = graph[j]
    BY <1>1 DEF States
  <2>4. g \in States /\ Draw(g)
    BY <1>1, <2>1, ShownType
  <2> HIDE DEF g, r
  <2>5. InScale(g)
    BY <1>1, <2>2, <2>3 DEF InScale
  <2> QED
    BY <2>3, <2>4, <2>5, DrawKeeps DEF Draw
<1>9. CASE PutGraph(i)
  <2> DEFINE lines(a) == [t \in Toggles |-> t = "connectOnOff" \/ a.on[t]]
             s(a) == Scaled(graph, i, Arrived(graph, i, a))
             g(a) == [s(a) EXCEPT ![i].on = lines(a)]
  <2>1. PICK a \in Arriving : Draw(g(a))
    BY <1>9 DEF PutGraph, Installed
  <2>2. /\ g(a) \in States /\ \A j \in Slot \ {i} : g(a)[j] = graph[j]
        /\ g(a)[i].scaleX = s(a)[i].scaleX /\ g(a)[i].scaleY = s(a)[i].scaleY
    BY <1>1, LinesType
  <2> HIDE DEF g
  <2>3. Arrived(graph, i, a) \in GraphState /\ Arrived(graph, i, a).scaleX = 1 /\ Arrived(graph, i, a).scaleY = 1
    BY <1>1, ArrivedType
  <2>4. graph[0].scaleX <= Big /\ graph[0].scaleY <= Big
    BY <1>1 DEF ScalesInv, InScale
  <2>5. s(a)[i].scaleX <= Big /\ s(a)[i].scaleY <= Big
    BY <1>1, <2>3, <2>4, ScaledType, ScaleFacts
  <2> QED
    BY <1>2, <2>1, <2>2, <2>5
<1> QED
  BY <1>5, <1>6, <1>7, <1>8, <1>9 DEF OfSlot

-----------------------------------------------------------------------------
(* The steps. *)

LEMMA PanelMarks ==
  ASSUME DrawControlPanel(graph), UNCHANGED graph
  PROVE  Marks'
BY DEF DrawControlPanel, Marks

LEMMA SingleSound ==
  ASSUME Careful, Types, Sound, PressSingle
  PROVE  Sound' /\ (Marks => Marks') /\ KeepsOthers /\ UNCHANGED held /\ (haveControl' => haveControl)
<1>1. ASSUME NEW t \in Toggles, Press(t), ToggleAttribute(t), UNCHANGED held
      PROVE  Sound' /\ (Marks => Marks') /\ KeepsOthers /\ UNCHANGED held /\ (haveControl' => haveControl)
  <2>1. UNCHANGED haveControl
    BY <1>1 DEF ToggleAttribute
  <2> QED
    BY <1>1, <2>1, ToggleSound
<1>2. CASE \E t \in AxisButton : Press(t) /\ ToggleAxis(t) /\ UNCHANGED held
  BY <1>2, SameGraphs, SameSound DEF ToggleAxis, graphs, Marks
<1>3. CASE \E m \in Mode : Press(m) /\ SetMode(m) /\ UNCHANGED held
  BY <1>3, SameGraphs, SameSound DEF SetMode, Marks
<1>4. CASE Press("clear2D") /\ Clear2D /\ UNCHANGED held
  <2>1. doit = ""
    BY <1>4 DEF Press, Allowed, Mode, GraphButton
  <2> QED
    BY <1>4, <2>1, ClearSound DEF Clear2D
<1>5. CASE Press("reset2D") /\ Reset2D /\ UNCHANGED held
  BY <1>5, ResetSound DEF Press, Allowed, Reset2D
<1>6. CASE Press("ps2D") /\ PS2D /\ UNCHANGED held
  <2>1. UNCHANGED graphs /\ UNCHANGED haveControl
    BY <1>6, PostScriptSound DEF PS2D
  <2> QED
    BY <1>6, <2>1, SameGraphs, SameSound DEF graphs, Marks
<1>7. CASE Press("hideControl2D") /\ HideControl2D /\ UNCHANGED held
  BY <1>7, SameGraphs, SameSound DEF HideControl2D, graphs, Marks
<1>8. CASE Press("closeAll2D") /\ UNCHANGED <<graphs, flag, haveControl, held>>
  BY <1>8, SameGraphs, SameSound DEF graphs, Marks
<1> QED
  BY <1>1, <1>2, <1>3, <1>4, <1>5, <1>6, <1>7, <1>8 DEF PressSingle

LEMMA ExposeSound ==
  ASSUME Types, Sound, ExposeView
  PROVE  Sound' /\ UNCHANGED graph
<1>1. graph \in States /\ InScale(graph) /\ graph[0].key /\ Draw(graph) /\ UNCHANGED backup
  BY DEF ExposeView, Types, Sound, ScalesInv
<1>2. graph' = graph /\ image' \in Pictures(graph')
  BY <1>1, DrawSound
<1> QED
  BY <1>1, <1>2 DEF Sound, ScalesInv

(* Marks that stay true, or are drawn anew when the panel comes up. *)
MarksKept == ((Marks => Marks') /\ (haveControl' => haveControl)) \/ Marks'

LEMMA LispSound ==
  ASSUME Careful, Types, Sound, FromLisp
  PROVE  Sound' /\ MarksKept /\ UNCHANGED held
<1>1. ASSUME NEW i \in Slot, OfSlot(i)
      PROVE  Sound' /\ MarksKept /\ UNCHANGED held
  <2>1. UNCHANGED panel
    BY <1>1, OfSlotTypes
  <2> QED
    BY <1>1, <2>1, LispSlotSound DEF MarksKept, panel
<1>2. CASE ShowControl
  <2>1. UNCHANGED <<graph, backup, image, held>> /\ DrawControlPanel(graph)
    BY <1>2 DEF ShowControl, ShowPanel
  <2> QED
    BY <2>1, SameSound, PanelMarks DEF MarksKept
<1>3. CASE DropControl
  BY <1>3, SameSound DEF DropControl, graphs, MarksKept, Marks
<1>4. CASE ChangeTitle
  BY <1>4, SameSound DEF ChangeTitle, graphs, panel, MarksKept, Marks
<1>5. CASE ResizeViewport
  <2>1. Sound' /\ graph' = graph
    <3>1. graph \in States /\ InScale(graph) /\ graph[0].key /\ Finish(graph, TRUE) /\ UNCHANGED backup
      BY <1>5 DEF ResizeViewport, Types, Sound, ScalesInv
    <3> QED
      BY <3>1, FinishSound
  <2> QED
    BY <1>5, <2>1 DEF ResizeViewport, panel, MarksKept, Marks
<1>6. CASE PressReset
  BY <1>6, ResetSound DEF PressReset, Reset2D, MarksKept
<1> QED
  BY <1>1, <1>2, <1>3, <1>4, <1>5, <1>6 DEF FromLisp

LEMMA ReleaseSound ==
  ASSUME Types, Sound, Release
  PROVE  Sound' /\ (Marks => Marks') /\ UNCHANGED haveControl
<1>1. graph \in States /\ InScale(graph) /\ graph[0].key /\ UNCHANGED <<backup, number, caret, haveControl>>
  BY DEF Release, Types, Sound, ScalesInv
<1>2. graph' = graph /\ image' \in Pictures(graph')
  BY <1>1, DrawSound DEF Release, Sound
<1> QED
  BY <1>1, <1>2 DEF Sound, ScalesInv, Marks

(* Every step keeps the scales, the window and the marks. *)
Steady == Types /\ Sound

LEMMA TurnSteady ==
  ASSUME Careful, Steady, NEW pot \in Pot, Turn(pot)
  PROVE  Sound' /\ MarksKept /\ KeepsOthers
BY TurnSound DEF Steady, Sound, Turn, MarksKept

LEMMA StepSound ==
  ASSUME Careful, Steady, Next
  PROVE  Sound' /\ (alive' => MarksKept)
<1>1. Types /\ Sound
  BY DEF Steady
<1>2. CASE Release
  BY <1>1, <1>2, ReleaseSound DEF MarksKept
<1>3. CASE PressSingle
  <2>1. ~held
    BY <1>3 DEF PressSingle, Press
  <2> QED
    BY <1>1, <1>3, <2>1, SingleSound DEF MarksKept
<1>4. ASSUME NEW i \in Slot, PressGraph(i)
      PROVE  Sound' /\ MarksKept
  <2>1. ~held
    BY <1>4 DEF PressGraph, Press
  <2>2. UNCHANGED haveControl
    BY <1>4 DEF PressGraph, ClickedOnGraph, ClickedOnGraphSelect, Consumed
  <2> QED
    BY <1>1, <1>4, <2>1, <2>2, ClickSound, SelectSound DEF PressGraph, MarksKept
<1>5. ASSUME NEW pot \in Pot, PressPot(pot)
      PROVE  Sound' /\ MarksKept
  BY <1>5, TurnSteady DEF PressPot
<1>6. CASE Repeat
  <2>1. last \in Pot /\ Turn(last)
    BY <1>1, <1>6 DEF Repeat, Types
  <2> QED
    BY <2>1, TurnSteady
<1>7. CASE ConfirmQuit \/ CloseFromLisp
  <2>1. ~alive' /\ ~held /\ UNCHANGED <<graph, backup, image, held>>
    BY <1>7 DEF ConfirmQuit, CloseFromLisp, Goodbye, graphs, panel
  <2> QED
    BY <1>1, <2>1, SameSound
<1>8. CASE PressView
  <2>1. ~held /\ UNCHANGED <<graph, backup, image>> /\ DrawControlPanel(graph)
    BY <1>8 DEF PressView, ShowPanel
  <2> QED
    BY <1>1, <2>1, SameSound, PanelMarks DEF MarksKept
<1>9. CASE Expose
  <2>1. CASE ExposeView
    <3>1. UNCHANGED <<number, caret, haveControl>>
      BY <2>1 DEF ExposeView
    <3> QED
      BY <1>1, <2>1, <3>1, ExposeSound DEF MarksKept, Marks
  <2>2. CASE ExposePanel
    <3>1. UNCHANGED <<graph, backup, image>> /\ DrawControlPanel(graph)
      BY <1>9, <2>2 DEF Expose, ExposePanel
    <3> QED
      BY <1>1, <3>1, SameSound, PanelMarks DEF MarksKept
  <2> QED
    BY <1>9, <2>1, <2>2 DEF Expose
<1>10. CASE FromLisp
  <2>1. ~held
    BY <1>10 DEF FromLisp
  <2> QED
    BY <1>1, <1>10, <2>1, LispSound
<1> QED
  BY <1>1, <1>2, <1>3, <1>4, <1>5, <1>6, <1>7, <1>8, <1>9, <1>10 DEF Next, Step

LEMMA MarksAreTrue == MarksTrue <=> (alive /\ haveControl => Marks)
BY DEF MarksTrue, Marks

LEMMA ViewSteady ==
  ASSUME ViewInv
  PROVE  Steady
BY DEF ViewInv, Steady, Sound

LEMMA ViewInvStep ==
  ASSUME Careful, ViewInv, [Next]_vars
  PROVE  ViewInv'
<1>1. Types'
  BY TypesStep DEF ViewInv
<1>2. CASE UNCHANGED vars
  BY <1>1, <1>2 DEF vars, graphs, panel, ViewInv, ScalesInv, MarksTrue
<1>3. CASE Next
  <2>1. Sound' /\ (alive' => MarksKept)
    BY <1>3, ViewSteady, StepSound
  <2>2. alive
    BY <1>3 DEF Next
  <2>3. alive' /\ haveControl' => Marks'
    BY <2>1, <2>2, MarksAreTrue DEF MarksKept, ViewInv
  <2>4. MarksTrue'
    BY <2>3 DEF MarksTrue, Marks
  <2> QED
    BY <1>1, <2>1, <2>4 DEF ViewInv, Sound
<1> QED
  BY <1>2, <1>3

LEMMA ViewInvInit == Init => ViewInv
<1> SUFFICES ASSUME Init PROVE ViewInv
  OBVIOUS
<1>1. Types
  BY InitTypes
<1>2. /\ EmptySlot.scaleX = 1 /\ EmptySlot.scaleY = 1
      /\ FirstGraph.scaleX = 1 /\ FirstGraph.scaleY = 1 /\ FirstGraph.key
  BY DEF EmptySlot, FirstGraph
<1>3. \A i \in Slot : graph[i] \in {EmptySlot, FirstGraph}
  BY DEF Init
<1>4. ScalesInv
  <2>1. \A i \in Slot : graph[i].scaleX <= Big /\ graph[i].scaleY <= Big
    BY <1>2, <1>3 DEF Big
  <2> QED
    BY <1>2, <2>1 DEF Init, ScalesInv, InScale
<1>5. MarksTrue
  BY DEF Init, MarksTrue
<1>6. image \in Pictures(graph)
  BY <1>1, PictureIsDrawn DEF Init, Types
<1> QED
  BY <1>1, <1>4, <1>5, <1>6 DEF ViewInv

-----------------------------------------------------------------------------
(* The viewport's variables keep their types, whatever the user and Lisp do. *)
THEOREM ViewTypes == Spec => []TypeOK
<1>1. Types => TypeOK
  BY DEF Types, TypeOK, States, GraphState
<1> QED
  BY <1>1, InitTypes, TypesStep, PTL DEF Spec

LEMMA ViewInvariant ==
  ASSUME Careful
  PROVE  Spec => []ViewInv
<1>1. ViewInv /\ [Next]_vars => ViewInv'
  BY ViewInvStep
<1> QED
  BY <1>1, ViewInvInit, PTL DEF Spec

(* For careful users the window shows the graphs as their states say, but for *)
(* the axes of a first graph that was just cut off: every handler that changes *)
(* what is seen draws, and drawing changes nothing else that would have to be  *)
(* drawn once more.                                                            *)
THEOREM ViewIsCurrent == Careful => (Spec => []WindowCurrent)
<1> SUFFICES ASSUME Careful PROVE Spec => []WindowCurrent
  OBVIOUS
<1>1. ViewInv => WindowCurrent
  BY DEF ViewInv, WindowCurrent
<1> QED
  BY <1>1, ViewInvariant, PTL

(* For careful users the numbers and carets on the panel are those of the graphs. *)
THEOREM PanelMarksTrue == Careful => (Spec => []MarksTrue)
<1> SUFFICES ASSUME Careful PROVE Spec => []MarksTrue
  OBVIOUS
<1>1. ViewInv => MarksTrue
  BY DEF ViewInv
<1> QED
  BY <1>1, ViewInvariant, PTL

(* For careful users a button of the panel, and a command of Lisp for one slot, *)
(* change no graph that they are not meant for: as long as no graph but the     *)
(* first is scaled above Big, what drawing cuts off is only what was zoomed.    *)
THEOREM ButtonsKeepOthers == Careful => (Spec => OthersKept)
<1> SUFFICES ASSUME Careful PROVE Spec => OthersKept
  OBVIOUS
<1> DEFINE Kept ==
      /\ PressSingle \/ Repeat \/ (\E pot \in Pot : PressPot(pot)) =>
             \A i \in Slot : Chosen(graph, i) \/ graph'[i] = [graph[i] EXCEPT !.selected = graph'[i].selected]
      /\ \A i \in Slot : OfSlot(i) => \A j \in Slot \ {i} : graph'[j] = graph[j]
<1>1. ViewInv /\ [Next]_vars => [Kept]_vars
  <2> SUFFICES ASSUME ViewInv PROVE Kept
    OBVIOUS
  <2>1. Steady
    BY ViewSteady
  <2>2. ASSUME PressSingle PROVE KeepsOthers
    <3>1. ~held
      BY <2>2 DEF PressSingle, Press
    <3> QED
      BY <2>1, <2>2, <3>1, SingleSound DEF Steady
  <2>3. ASSUME Repeat PROVE KeepsOthers
    BY <2>1, <2>3, TurnSteady DEF Steady, Types, Repeat
  <2>4. ASSUME NEW pot \in Pot, PressPot(pot) PROVE KeepsOthers
    BY <2>1, <2>4, TurnSteady DEF PressPot
  <2>5. \A i \in Slot : OfSlot(i) => \A j \in Slot \ {i} : graph'[j] = graph[j]
    BY <2>1, LispSlotAlone DEF Steady, Sound
  <2> QED
    BY <2>2, <2>3, <2>4, <2>5 DEF KeepsOthers
<1> QED
  BY <1>1, ViewInvariant, PTL DEF OthersKept, Spec
=============================================================================

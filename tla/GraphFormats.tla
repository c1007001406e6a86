---------------------------- MODULE GraphFormats ----------------------------
(***************************************************************************)
(* The data of the viewports of view2D on their way, see ViewFormats: the  *)
(* slots 0 to LastSlot (maxGraphs - 1), each with a graph, whose key is    *)
(* not zero, or without one, and a state.                                  *)
(***************************************************************************)
EXTENDS ViewFormats

CONSTANT LastSlot

ASSUME SlotAssumption == LastSlot \in Nat

Slot == 0..LastSlot
Slots == [i \in 1..(LastSlot + 1) |-> i - 1]

XYHS == <<"x", "y", "hue", "shade">>
Colours == <<"pointColor", "lineColor", "pointSize">>

PutPoints(l) == PutEach(l.points, XYHS)
PutLists(lists) ==
    <<Len(lists)>> \o FlattenSeq([i \in DOMAIN lists |->
        <<Len(lists[i].points)>> \o PutPoints(lists[i]) \o Put(lists[i], Colours)])

GetPointLists(in) ==
    FoldLeft(LAMBDA r, i :
                 LET n == Head(r.left)
                     after == Rest(r.left, 1 + 4 * n)
                 IN  [lists |-> Append(r.lists, [points |-> GetEach(Tail(r.left), n, XYHS)] @@ Get(after, Colours)),
                      left |-> Rest(after, 3)],
             [lists |-> << >>, left |-> Tail(in)], UpTo(Head(in)))

-----------------------------------------------------------------------------
(* makeGraph of view2D.spad and makeGraph.c: the points are brought to the square around the origin. *)
SentGraph == <<"xmin", "xmax", "ymin", "ymax", "spadUnitX", "spadUnitY">>
TakenGraph == <<"xmin", "xmax", "ymin", "ymax", "spadUnitX", "spadUnitY">>

makeGraphFromSpadData(in) ==
    LET g == Get(in, TakenGraph)
        ls == GetPointLists(Rest(in, Len(TakenGraph)))
        of(v, range) == (v * One) \div range
        X == g.xmax - g.xmin    Y == g.ymax - g.ymin
        point(p) == [x |-> of(p.x - g.xmin, X) - One \div 2, y |-> of(p.y - g.ymin, Y) - One \div 2,
                     hue |-> p.hue - 1, shade |-> p.shade - 1]
    IN  g @@ [xNorm |-> of(One, X), yNorm |-> of(One, Y),
              unitX |-> of(g.spadUnitX, X), unitY |-> of(g.spadUnitY, Y),
              originX |-> of(-g.xmin, X) - One \div 2, originY |-> of(-g.ymin, Y) - One \div 2,
              lists |-> [i \in DOMAIN ls.lists |->
                            [ls.lists[i] EXCEPT !.points = [k \in DOMAIN @ |-> point(@[k])]]]]

(* makeViewport2D of view2D.spad and make2D.c: a state only where there is a graph. *)
SentState == <<"scaleX", "scaleY", "deltaX", "deltaY", "pointsOn", "connectOn", "splineOn",
               "axesOn", "axesColor", "unitsOn", "unitsColor", "showing">>
TakenState == <<"scaleX", "scaleY", "deltaX", "deltaY", "pointsOn", "connectOn", "splineOn",
                "axesOn", "axesColor", "unitsOn", "unitsColor", "showing">>
SentFrame == <<"title", "vX", "vY", "vW", "vH", "showCP">>

makeView2DFromSpadData(in) ==
    FoldLeft(LAMBDA r, i :
                 LET key == Head(r.left)
                 IN  IF key = 0 THEN [r EXCEPT !.keys = @ @@ (i :> 0), !.left = Tail(@)]
                     ELSE [r EXCEPT !.keys = @ @@ (i :> key),
                                    !.states = @ @@ (i :> Get(Tail(r.left), TakenState)),
                                    !.left = Rest(@, 1 + Len(TakenState))],
             [frame |-> Get(in, SentFrame), keys |-> << >>, states |-> << >>, left |-> Rest(in, Len(SentFrame))],
             Slots)

-----------------------------------------------------------------------------
(* The manager to the program, and what viewAlone sends in its place. *)
PipeGraph == <<"xmin", "xmax", "ymin", "ymax", "xNorm", "yNorm", "spadUnitX", "spadUnitY",
               "unitX", "unitY", "originX", "originY">>

sendGraphToView2D(key, graph, state) ==
    IF key = 0 THEN << >>
    ELSE Put(graph, PipeGraph) \o PutLists(graph.lists) \o Put(state, SentState)

forkView2D(frame, keys, graphs, states) ==
    <<FALSE, frame, frame.title>> \o
        FlattenSeq([i \in 1..(LastSlot + 1) |->
            <<keys[i - 1]>> \o (IF keys[i - 1] = 0 THEN << >>
                                ELSE sendGraphToView2D(keys[i - 1], graphs[keys[i - 1]], states[i - 1]))])

spoonGraph_Fault(key, graph, state) ==
    IF key = 0 THEN << >>
    ELSE Put(graph, <<"xmin", "xmax", "ymin", "ymax", "xNorm", "yNorm", "originX", "originY",
                      "spadUnitX", "spadUnitY", "unitX", "unitY">>)
             \o PutLists(graph.lists) \o Put(state, SentState)

spoonGraph(key, graph, state) ==
    IF key = 0 THEN << >>
    ELSE Put(graph, <<"xmin", "xmax", "ymin", "ymax", "xNorm", "yNorm", "spadUnitX", "spadUnitY",
                      "unitX", "unitY", "originX", "originY">>)
             \o PutLists(graph.lists) \o Put(state, SentState)

spoonView2D(d) ==
    <<TRUE, d.frame, d.frame.title>> \o
        FlattenSeq([i \in 1..(LastSlot + 1) |->
            <<d.keys[i - 1]>> \o spoonGraph(d.keys[i - 1], d.graphs[i - 1], d.states[i - 1])])

(* view2D as it starts: a slot without a graph has the default state. *)
DefaultState == [scaleX |-> 9, scaleY |-> 9, deltaX |-> 0, deltaY |-> 0, centerX |-> 0, centerY |-> 0,
                 pointsOn |-> TRUE, connectOn |-> TRUE, splineOn |-> FALSE, axesOn |-> TRUE, axesColor |-> 0,
                 unitsOn |-> FALSE, unitsColor |-> 0, showing |-> FALSE, selected |-> FALSE]

NoGraph == [lists |-> << >>]
ReceivedGraph == <<"xmin", "xmax", "ymin", "ymax", "xNorm", "yNorm", "spadUnitX", "spadUnitY",
                   "unitX", "unitY", "originX", "originY">>
ReceivedState == <<"scaleX", "scaleY", "deltaX", "deltaY", "pointsOn", "connectOn", "splineOn",
                   "axesOn", "axesColor", "unitsOn", "unitsColor", "showing">>

(* Every graph is moved and scaled as that of slot 0. *)
getGraphFromViewman(r, i) ==
    LET ls == GetPointLists(Rest(r.left, 1 + Len(ReceivedGraph)))
        state == [Get(ls.left, ReceivedState) @@ DefaultState EXCEPT !.selected = TRUE]
        states == [r.states EXCEPT ![i] = state]
    IN  [left |-> Rest(ls.left, Len(ReceivedState)),
         keys |-> [r.keys EXCEPT ![i] = Head(r.left)],
         graphs |-> [r.graphs EXCEPT ![i] = Get(Tail(r.left), ReceivedGraph) @@ [lists |-> ls.lists]],
         states |-> [states EXCEPT ![i].deltaX = states[0].deltaX, ![i].deltaY = states[0].deltaY,
                                   ![i].scaleX = states[0].scaleX, ![i].scaleY = states[0].scaleY]]

StartView2D(in) ==
    LET all == FoldLeft(LAMBDA r, i : IF Head(r.left) = 0 THEN [r EXCEPT !.left = Tail(@)]
                                      ELSE getGraphFromViewman(r, i),
                        [keys |-> [i \in Slot |-> 0], graphs |-> [i \in Slot |-> NoGraph],
                         states |-> [i \in Slot |-> DefaultState], left |-> Rest(in, 3)],
                        Slots)
    IN  [window |-> [frame |-> [in[2] EXCEPT !.title = in[3]],
                     keys |-> all.keys, graphs |-> all.graphs, states |-> all.states],
         left |-> all.left]

-----------------------------------------------------------------------------
(* The files of view2D: data and, for each graph, graph0, graph1, ... *)
WrittenState == <<"scaleX", "scaleY", "deltaX", "deltaY", "centerX", "centerY", "pointsOn", "connectOn", "splineOn",
                  "axesOn", "axesColor", "unitsOn", "unitsColor", "showing", "selected">>
WrittenFrame == <<"title", "vX", "vY", "vW", "vH">>
WrittenGraph == <<"xmin", "ymin", "xmax", "ymax", "xNorm", "yNorm", "originX", "originY",
                  "spadUnitX", "spadUnitY", "unitX", "unitY">>

Data2D(w) ==
    <<"view2D">> \o Put(w.frame, WrittenFrame)
        \o FlattenSeq([i \in 1..(LastSlot + 1) |-> <<w.keys[i - 1]>> \o Put(w.states[i - 1], WrittenState)])

GraphFile(graph) ==
    Put(graph, WrittenGraph) \o <<Len(graph.lists)>>
        \o FlattenSeq([i \in DOMAIN graph.lists |->
              <<Len(graph.lists[i].points)>> \o Put(graph.lists[i], Colours) \o PutPoints(graph.lists[i])])

ReadState == <<"scaleX", "scaleY", "deltaX", "deltaY", "centerX", "centerY", "pointsOn", "connectOn", "splineOn",
               "axesOn", "axesColor", "unitsOn", "unitsColor", "showing", "selected">>
ReadGraph == <<"xmin", "ymin", "xmax", "ymax", "xNorm", "yNorm", "originX", "originY",
               "spadUnitX", "spadUnitY", "unitX", "unitY">>

ReadGraphFile(file) ==
    LET after == Rest(file, Len(ReadGraph))
    IN  Get(file, ReadGraph) @@
        [lists |-> FoldLeft(LAMBDA r, i :
                       LET n == Head(r.left)
                       IN  [lists |-> Append(r.lists, Get(Tail(r.left), Colours)
                                                          @@ [points |-> GetEach(Rest(r.left, 4), n, XYHS)]),
                            left |-> Rest(r.left, 4 + 4 * n)],
                       [lists |-> << >>, left |-> Tail(after)], UpTo(Head(after))).lists]

(* A graph file that is not there ends the reading; the structures that were not read are zero. *)
ZeroGraph == [p \in ToSet(PipeGraph) |-> 0] @@ [lists |-> << >>]

makeView2DFromFileData(data, graphFiles) ==
    LET width == 1 + Len(ReadState)
        slots == Rest(data, 1 + Len(WrittenFrame))
        keys == [i \in Slot |-> slots[i * width + 1]]
        absent == {i \in Slot : keys[i] # 0 /\ i \notin DOMAIN graphFiles}
    IN  [frame |-> Get(Tail(data), WrittenFrame),
         keys |-> keys,
         states |-> [i \in Slot |-> Get(Rest(slots, i * width + 1), ReadState)],
         graphs |-> [i \in Slot |-> IF keys[i] # 0 /\ \A j \in absent : i < j THEN ReadGraphFile(graphFiles[i])
                                    ELSE ZeroGraph]]
=============================================================================

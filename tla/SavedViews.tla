----------------------------- MODULE SavedViews -----------------------------
(***************************************************************************)
(* Saving a viewport with write and opening it again with viewAlone        *)
(* (write3d.c, write2d.c, cfuns-c.c, viewAlone.c, spoonComp.c, spoon2D.c), *)
(* beside the changes and the printing of the viewport, see Printing: its  *)
(* data comes from FriCAS through the viewport manager, is written to the  *)
(* directory x.VIEW together with the pictures that are asked for, and is  *)
(* read and sent to a new program that runs on its own.                    *)
(***************************************************************************)
EXTENDS Printing, GraphFormats

CONSTANTS
    Points, Components,     \* of the scene of view3D, as FriCAS sends them
    Graphs,                 \* of view2D: the graphs that FriCAS sends, by key
    Keys,                   \* and the key of the graph in each slot
    Options,                \* the sets of pictures that are asked for
    Losses                  \* what of a write may be lost without a word, see Without

ASSUME OptionsAssumption == /\ Options \subseteq SUBSET {"pixmap", "bitmap", "postscript", "image"}
                            /\ Losses \subseteq SUBSET {"data", "image.xpm", "image.bm", "image.ps"}

VARIABLES
    start,      \* the program as it started: its window and what it left unread in the pipe
    moved,      \* what differs from the beginning: "view" (potentiometers), "hues" and "size" (the image)
    dir,        \* x.VIEW: there, data, the graph files by slot, whether one of these ends
                \* too early, the pictures, image.ps
    toDir,      \* PSfilename is x.VIEW/image.ps
    wrote,      \* the answer of writeViewport, what was asked and what was lost without
                \* a word, until the next change
    shown       \* the window of the program that viewAlone started, until the next change

saved == <<start, moved, dir, toDir, wrote, shown>>

NoDir == [there |-> FALSE, data |-> << >>, graphs |-> << >>, cut |-> FALSE,
          pictures |-> << >>, ps |-> "none"]
EmptyDir == [NoDir EXCEPT !.there = TRUE]
NoAnswer == [answer |-> 1, opts |-> {}, lost |-> {}]
NoView == [open |-> FALSE, window |-> << >>, left |-> << >>]

-----------------------------------------------------------------------------
(* What FriCAS sends, and the windows that start with it. *)
Named(places) == [p \in ToSet(places) |-> <<p>>]

Spad3D == Put(Named(Sent3D), Sent3D) \o PutScene(Points, Components)
Started3D == StartView3D(forkView3D(makeView3DFromSpadData(Spad3D)))

StateOf(key) == [p \in ToSet(SentState) |->
    CASE p \in {"pointsOn", "connectOn", "axesOn"} -> TRUE
      [] p \in {"splineOn", "unitsOn"} -> FALSE
      [] p = "showing" -> key = Keys[0]
      [] OTHER -> <<p>>]
SpadFrame == Put(Named(SentFrame), SentFrame)
                 \o FlattenSeq([i \in 1..(LastSlot + 1) |->
                       <<Keys[i - 1]>> \o (IF Keys[i - 1] = 0 THEN << >> ELSE Put(StateOf(Keys[i - 1]), SentState))])
SpadGraph(g) == Put(g, SentGraph) \o PutLists(g.lists)
Sent2D == makeView2DFromSpadData(SpadFrame)
Started2D == StartView2D(forkView2D(Sent2D.frame, Sent2D.keys,
                                    [k \in DOMAIN Graphs |-> makeGraphFromSpadData(SpadGraph(Graphs[k]))],
                                    Sent2D.states))

-----------------------------------------------------------------------------
(* The window as it is now. *)
Turned == {"deltaX", "deltaY", "scale", "scaleX", "scaleY", "scaleZ", "theta", "phi"}
Moved(d, places) == [p \in DOMAIN d |-> IF p \in places THEN <<p, "moved">> ELSE d[p]]
Places == (IF "view" \in moved THEN Turned ELSE {}) \cup (IF "size" \in moved THEN {"vW", "vH"} ELSE {})
              \cup (IF "hues" \in moved THEN {"hueOffset", "numberOfHues"} ELSE {})

Window3D == [Moved(start.window, Places)
                EXCEPT !.style = modes.style, !.outlineRenderOn = modes.outline, !.axesOn = modes.axesOn]

(* The potentiometers move the graphs that are picked, and all are. *)
Window2D ==
    LET w == start.window
        ofMoved(i) == IF w.keys[i] # 0 /\ "view" \in moved
                      THEN Moved(w.states[i], {"scaleX", "scaleY", "deltaX", "deltaY", "centerX", "centerY"})
                      ELSE w.states[i]
    IN  [w EXCEPT !.frame = Moved(@, Places \cap {"vW", "vH"}),
                  !.states = [i \in Slot |->
                      IF i = 0 THEN [p \in DOMAIN w.states[0] |->
                                        IF p \in DOMAIN graph THEN graph[p] ELSE ofMoved(0)[p]]
                      ELSE ofMoved(i)]]

-----------------------------------------------------------------------------
SavedInit ==
    /\ Init
    /\ start = IF program = "view3D" THEN Started3D ELSE Started2D
    /\ moved = {} /\ dir = NoDir /\ toDir = FALSE /\ wrote = NoAnswer /\ shown = NoView

Forget == wrote' = NoAnswer /\ shown' = NoView

Change ==
    /\ \/ StyleButton \/ RegionButton \/ BWButton \/ AxesButton \/ ClipRegionButton \/ OutlineButton
       \/ Change2D \/ PrintAborted \/ Install \/ CleanTmp
    /\ Forget
    /\ UNCHANGED <<start, moved, dir, toDir>>

Turn3D == Move3D /\ moved' = moved \cup {"view"} /\ Forget /\ UNCHANGED <<start, dir, toDir>>

Turn2D ==
    /\ program = "view2D" /\ Step
    /\ moved' = moved \cup {"view"} /\ last' = NoPrint
    /\ Forget
    /\ UNCHANGED <<program, modes, graph, flags, canvas, missing, swept, start, dir, toDir>>

PSOf(p) == IF p.done THEN "whole" ELSE "cut"

(* The PS button, after a write with a PostScript file into x.VIEW. *)
PrintButton ==
    /\ toDir => dir.there
    /\ PrintViewport
    /\ dir' = IF toDir THEN [dir EXCEPT !.ps = PSOf(last')] ELSE dir
    /\ Forget
    /\ UNCHANGED <<start, moved, toDir>>

-----------------------------------------------------------------------------
GraphSlots == IF program = "view2D" THEN {i \in Slot : start.window.keys[i] # 0} ELSE {}

WithData(slots) ==
    [EmptyDir EXCEPT !.data = IF program = "view3D" THEN Data3D(Window3D) ELSE Data2D(Window2D),
                     !.graphs = [i \in slots |-> GraphFile(Window2D.graphs[i])]]

(* Removing the directory or one of its files, making it or opening a file fails: what is left. *)
LeftBehind ==
    (IF dir.there THEN {dir, EmptyDir} ELSE {}) \cup {NoDir, EmptyDir}
        \cup {[WithData({i \in GraphSlots : i < failed}) EXCEPT !.cut = c] : failed \in GraphSlots, c \in BOOLEAN}

WriteFails ==
    /\ Step
    /\ dir' \in LeftBehind
    /\ wrote' = [NoAnswer EXCEPT !.answer = -1]
    /\ last' = NoPrint /\ shown' = NoView
    /\ UNCHANGED <<program, modes, graph, flags, canvas, missing, swept, start, moved, toDir>>

(* The old directory goes with all of its files. *)
RemoveDirectory_Fault == dir
RemoveDirectory == NoDir

MakeDirectory ==
    LET old == RemoveDirectory
        new == WithData(GraphSlots)
    IN  [new EXCEPT !.pictures = old.pictures, !.ps = old.ps]

(* The pictures in the order of their numbers; a picture is what the window shows. *)
Pixmaps(d, opts) ==
    [d EXCEPT !.pictures = (IF "pixmap" \in opts THEN "image.xpm" :> Seen(canvas.window) ELSE << >>)
                               @@ (IF "bitmap" \in opts THEN "image.bm" :> Seen(canvas.window) ELSE << >>) @@ @]

(***************************************************************************)
(* Nobody looks at the results of XWriteBitmapFile, of the functions below *)
(* write_pixmap_file, of fprintf and of fclose: a picture may be missing,  *)
(* and the data, a graph or the PostScript file may end too early, while   *)
(* the rest of writeViewport goes on.                                      *)
(***************************************************************************)
Asked(opts) == (IF opts \cap {"pixmap", "image"} # {} THEN {"image.xpm"} ELSE {})
                   \cup (IF opts \cap {"bitmap", "image"} # {} THEN {"image.bm"} ELSE {})

Files(opts) == {"data"} \cup Asked(opts) \cup (IF "postscript" \in opts THEN {"image.ps"} ELSE {})

Without(lost, d) ==
    [d EXCEPT !.cut = "data" \in lost,
              !.pictures = [f \in DOMAIN @ \ lost |-> @[f]],
              !.ps = IF "image.ps" \in lost /\ @ = "whole" THEN "cut" ELSE @]

(* The image: the window is resized and drawn twice, in colours and in black and white. *)
Image(d, c, lost) ==
    LET coloured == IF program = "view2D" THEN modes
                    ELSE [modes EXCEPT !.style = IF @ = "transparent" THEN "render" ELSE @,
                                       !.outline = @ \/ modes.style \in {"transparent", "render"}]
        first == DrawX(c, coloured, graph, AtFirst)
        grey == IF program = "view2D" THEN modes ELSE [coloured EXCEPT !.mono = TRUE]
        second == DrawX(first, grey, graph, AtFirst)
    IN  /\ modes' = grey
        /\ canvas' = second
        /\ flags' = IF program = "view2D" THEN flags ELSE AfterDrawing(grey.style, AtFirst)
        /\ moved' = moved \cup {"size"} \cup (IF program = "view3D" THEN {"hues"} ELSE {})
        /\ dir' = Without(lost, [d EXCEPT !.pictures = ("image.xpm" :> Seen(first.window))
                                                           @@ ("image.bm" :> Seen(second.window)) @@ @])

(* The end of writeViewport: the image, if it is asked for, and 0. *)
Finish(opts, lost, d, c, f) ==
    /\ wrote' = [answer |-> 0, opts |-> opts, lost |-> lost]
    /\ IF "image" \in opts THEN Image(d, c, lost)
       ELSE modes' = modes /\ canvas' = c /\ flags' = f /\ moved' = moved /\ dir' = Without(lost, d)

Unfinished(opts, lost, d) ==
    /\ wrote' = [answer |-> -1, opts |-> opts, lost |-> lost]
    /\ dir' = Without(lost, d)
    /\ UNCHANGED <<modes, moved>>

WriteView ==
    /\ Step
    /\ \E opts \in Options, n \in 0..Len(Scene) : \E lost \in {l \cap Files(opts) : l \in Losses} :
           LET files == Pixmaps(MakeDirectory, opts)
               p == PSFile(n)
           IN  IF "postscript" \notin opts
               THEN n = 0 /\ Finish(opts, lost, files, canvas, flags) /\ last' = NoPrint /\ UNCHANGED toDir
               ELSE IF ~canvas.ps.psInit
               THEN /\ n = 0 /\ Unfinished(opts, lost, files) /\ last' = NoPrint
                    /\ toDir' = TRUE
                    /\ UNCHANGED <<canvas, flags>>
               ELSE /\ Reached(n)
                    /\ toDir' = TRUE /\ last' = p.last
                    /\ IF p.last.done THEN Finish(opts, lost, [files EXCEPT !.ps = "whole"], p.canvas, p.flags)
                       ELSE /\ Unfinished(opts, lost, [files EXCEPT !.ps = "cut"])
                            /\ canvas' = p.canvas /\ flags' = p.flags
    /\ shown' = NoView
    /\ UNCHANGED <<program, graph, missing, swept, start>>

(* viewAlone and the program that it starts; later the same files show the same. *)
(* What it makes of a file that ends too early, which it does not notice, is not *)
(* followed.                                                                     *)
ViewAlone ==
    /\ dir.data # << >> /\ ~dir.cut /\ ~shown.open /\ wrote # NoAnswer
    /\ LET started == IF Head(dir.data) = "view3D" THEN StartView3D(spoonView3D(makeView3DFromFileData(dir.data)))
                      ELSE StartView2D(spoonView2D(makeView2DFromFileData(dir.data, dir.graphs)))
       IN  shown' = [open |-> TRUE, window |-> started.window, left |-> started.left]
    /\ UNCHANGED <<vars, start, moved, dir, toDir, wrote>>

SavedNext == Change \/ Turn3D \/ Turn2D \/ PrintButton \/ WriteFails \/ WriteView \/ ViewAlone

SavedSpec == SavedInit /\ [][SavedNext]_<<vars, saved>>

-----------------------------------------------------------------------------
SavedTypeOK ==
    /\ TypeOK
    /\ moved \subseteq {"view", "hues", "size"} /\ toDir \in BOOLEAN /\ shown.open \in BOOLEAN
    /\ dir.there \in BOOLEAN /\ dir.cut \in BOOLEAN /\ dir.ps \in {"none", "cut", "whole"}
    /\ DOMAIN dir.graphs \subseteq Slot /\ DOMAIN dir.pictures \subseteq {"image.xpm", "image.bm"}
    /\ wrote.answer \in {-1, 0, 1} /\ wrote.opts \subseteq {"pixmap", "bitmap", "postscript", "image"}

(***************************************************************************)
(* What is in the directory after a write that answers 0 is of this write, *)
(* nothing of an earlier one into the same directory: the data, a file for *)
(* each graph, pictures of the window as it is and PostScript, if asked    *)
(* for.  It is all there and whole, too, unless the disk or the X server   *)
(* lost something, to which the code pays no attention.                    *)
(***************************************************************************)
SavedIsThisWrite ==
    wrote.answer = 0 =>
        /\ dir.data # << >> /\ DOMAIN dir.graphs = GraphSlots
        /\ DOMAIN dir.pictures \subseteq Asked(wrote.opts)
        /\ dir.ps # "none" <=> "postscript" \in wrote.opts
        /\ \A f \in DOMAIN dir.pictures :
               f = "image.bm" \/ "image" \notin wrote.opts => dir.pictures[f] = Seen(canvas.window)
        /\ wrote.lost = {} => /\ ~dir.cut
                              /\ DOMAIN dir.pictures = Asked(wrote.opts)
                              /\ dir.ps # "cut"

(***************************************************************************)
(* What viewAlone shows after a write is the viewport that was written:    *)
(* the scene, its polygons and every mode and place that is in the file,   *)
(* although five programs bring them there, each in its own order; nothing *)
(* is left in the pipe, also when a write stopped halfway.  Not kept are   *)
(* the axes and the light of view3D, and the centre and the choice of the  *)
(* graphs of view2D.                                                       *)
(***************************************************************************)
SameScene(w, v) ==
    /\ \A p \in ToSet(Written3D) \ {"axesOn", "lightX", "lightY", "lightZ"} : w[p] = v[p]
    /\ w.points = v.points /\ w.components = v.components /\ w.polygons = v.polygons

SameGraphs(w, v) ==
    /\ \A p \in ToSet(WrittenFrame) : w.frame[p] = v.frame[p]
    /\ w.keys = v.keys /\ w.graphs = v.graphs
    /\ \A i \in Slot : \A p \in ToSet(WrittenState) \ {"centerX", "centerY", "selected"} :
           w.states[i][p] = v.states[i][p]

Reopened ==
    shown.open =>
        /\ shown.left = << >>
        /\ wrote.answer = 0 /\ "image" \notin wrote.opts =>
               IF program = "view3D" THEN SameScene(shown.window, Window3D)
               ELSE SameGraphs(shown.window, Window2D)

(***************************************************************************)
(* What FriCAS sends arrives under its name, and the polygons cover it:    *)
(* the triangles between two lists of points have every segment of the     *)
(* lists as a side of one of them, and a curve has all of its segments.    *)
(***************************************************************************)
Covered(list, polygons) ==
    \A k \in 1..(Len(list.indices) - 1) :
        \/ samePoint(start.window.points, list.indices[k], list.indices[k + 1])
        \/ \E q \in DOMAIN polygons : {list.indices[k], list.indices[k + 1]} \subseteq ToSet(polygons[q].at)

Arrived3D ==
    LET w == start.window
    IN  /\ start.left = << >>
        /\ \A p \in ToSet(Sent3D) \ {"lightX", "lightY", "lightZ", "box", "clipStuff"} : w[p] = <<p>>
        /\ \A i \in DOMAIN Components : \A j \in DOMAIN Components[i].lists :
               Covered(w.components[i].lists[j], w.polygons)

Arrived2D ==
    LET w == start.window
    IN  /\ start.left = << >>
        /\ \A p \in ToSet(SentFrame) : w.frame[p] = <<p>>
        /\ \A i \in Slot : Keys[i] # 0 =>
               /\ \A p \in ToSet(SentState) : w.states[i][p] = StateOf(Keys[i])[p]
               /\ \A p \in ToSet(SentGraph) : w.graphs[i][p] = Graphs[Keys[i]][p]

ArrivesAsSent == IF program = "view3D" THEN Arrived3D ELSE Arrived2D
=============================================================================

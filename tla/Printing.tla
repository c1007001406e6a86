------------------------------ MODULE Printing ------------------------------
(***************************************************************************)
(* Printing from a viewport program: the PS button and the PostScript file *)
(* of write (process3d.c, process2d.c, write3d.c).  The viewport is drawn  *)
(* once more with PSoption into a script and the file is put together from *)
(* the script, the dictionary and the procedures that it uses.             *)
(*                                                                         *)
(* The window is that of a drawing that went through: View3D and Viewports *)
(* are about drawings that are interrupted.  A change of a mode and the    *)
(* drawing that follows are one step.                                      *)
(***************************************************************************)
EXTENDS Drawing

CONSTANTS
    Scene,      \* the components in the order in which they are drawn
    Missing,    \* what may be missing from lib/graph: a set of sets of procedures
    MaxSteps,   \* bound on the changes of modes, the prints and the sweeps
    Careful     \* leaves out what is known to print something else (README)

ASSUME SceneAssumption == Scene \in Seq({"point", "line", "polygon", "surface"})
ASSUME MissingAssumption == Missing \subseteq SUBSET Procedure

VARIABLES
    program,    \* "view3D" or "view2D"
    modes,      \* of view3D, see Drawing
    graph,      \* of view2D: the modes of the graph in slot 1
    flags,      \* of view3D: recalc (the list of polygons is computed by the next drawing of a style
                \* of polygons), redoSmooth or redoColor (the next smooth drawing fills the pixmap),
                \* listed (the last drawing computed the list)
    canvas,     \* the window, the pixmap and the state of Gdraws
    missing,    \* the procedures that cannot be read now
    swept,      \* the dictionary was removed from the directory of temporary files
    last,       \* the last file, until the next change
    steps

vars == <<program, modes, graph, flags, canvas, missing, swept, last, steps>>

Style == {"transparent", "opaqueMesh", "render", "smooth"}
Modes == [style : Style, mono : BOOLEAN, axesOn : BOOLEAN, clipbox : BOOLEAN, box : BOOLEAN,
          outline : BOOLEAN, inverse : BOOLEAN]
GraphModes == [showing : BOOLEAN, axesOn : BOOLEAN, pointsOn : BOOLEAN, connectOn : BOOLEAN,
               splineOn : BOOLEAN, unitsOn : BOOLEAN]

NoPrint == [tried |-> FALSE, done |-> FALSE, file |-> NoFile]

Polygons(style) == style \in {"opaqueMesh", "render"}

DrawX(c, m, g, f) ==
    IF program = "view3D"
    THEN drawViewport3D(c, m, "Xoption", Scene, f.recalc, f.redo \/ f.recalc)
    ELSE drawViewport2D(c, g, "Xoption")

(* drawPolygons sets redoSmooth, drawPhong takes all of the flags back. *)
AfterDrawing(style, f) ==
    CASE style = "transparent" -> [f EXCEPT !.listed = FALSE]
      [] style = "smooth" -> [recalc |-> FALSE, redo |-> FALSE, listed |-> f.recalc]
      [] OTHER -> [recalc |-> FALSE, redo |-> f.redo \/ f.recalc, listed |-> f.recalc]

AtFirst == [recalc |-> TRUE, redo |-> FALSE, listed |-> FALSE]

-----------------------------------------------------------------------------
(* makeViewport and the first drawing, which computes the list of polygons; the style, the outlines *)
(* and inverse video are given.                                                                     *)
Init ==
    /\ program \in {"view2D", "view3D"}
    /\ modes \in {m \in Modes : m.axesOn /\ ~m.mono /\ ~m.clipbox /\ ~m.box}
    /\ graph = [showing |-> TRUE, axesOn |-> TRUE, pointsOn |-> TRUE, connectOn |-> TRUE,
                splineOn |-> FALSE, unitsOn |-> FALSE]
    /\ program = "view2D" =>
           modes = [style |-> "transparent", mono |-> FALSE, axesOn |-> TRUE, clipbox |-> FALSE,
                    box |-> FALSE, outline |-> FALSE, inverse |-> FALSE]
    /\ Careful => ~modes.inverse
    /\ flags = AfterDrawing(modes.style, AtFirst)
    /\ \E env \in BOOLEAN :
           canvas = DrawX([window |-> {}, viewmap |-> {}, ink |-> [gc \in AllContexts |-> "fg"],
                          ps |-> PSStart(program, env)], modes, graph, AtFirst)
    /\ missing \in Missing
    /\ swept = FALSE
    /\ last = NoPrint
    /\ steps = 0

Step == steps < MaxSteps /\ steps' = steps + 1

(* A button of view3D with the drawing that follows; f are the flags as the button sets them. *)
Change3D(m, f) ==
    /\ program = "view3D" /\ Step
    /\ modes' = m
    /\ canvas' = DrawX(canvas, m, graph, f)
    /\ flags' = AfterDrawing(m.style, f)
    /\ last' = NoPrint
    /\ UNCHANGED <<program, graph, missing, swept>>

Redo == [flags EXCEPT !.redo = TRUE]

StyleButton == \E s \in Style : Change3D([modes EXCEPT !.style = s], flags)
RegionButton == Change3D([modes EXCEPT !.box = ~@], Redo)
BWButton == Change3D([modes EXCEPT !.mono = ~@], Redo)
AxesButton == Change3D([modes EXCEPT !.axesOn = ~@], IF modes.style = "smooth" THEN Redo ELSE flags)

(* The drawing that comes with the return from the volume panel. *)
ClipRegionButton == Change3D([modes EXCEPT !.clipbox = ~@], Redo)

(* Outside of the render style nothing is drawn. *)
OutlineButton ==
    IF modes.style = "render" THEN Change3D([modes EXCEPT !.outline = ~@], flags)
    ELSE /\ program = "view3D" /\ Step
         /\ modes' = [modes EXCEPT !.outline = ~@]
         /\ last' = NoPrint
         /\ UNCHANGED <<program, graph, flags, canvas, missing, swept>>

(* A potentiometer. *)
Move3D == Change3D(modes, [flags EXCEPT !.recalc = TRUE])

Change2D ==
    /\ program = "view2D" /\ Step
    /\ \E field \in DOMAIN graph : graph' = [graph EXCEPT ![field] = ~@]
    /\ canvas' = DrawX(canvas, modes, graph', flags)
    /\ last' = NoPrint
    /\ UNCHANGED <<program, modes, flags, missing, swept>>

-----------------------------------------------------------------------------
(***************************************************************************)
(* The drawing of a print.  redoSmooth is set before it; an event that     *)
(* waits stops it after some components as it stops one of the window.     *)
(***************************************************************************)
Printed(c, reached) ==
    IF program = "view3D"
    THEN drawViewport3D(c, modes, "PSoption", SubSeq(Scene, 1, reached), FALSE, TRUE)
    ELSE drawViewport2D(c, graph, "PSoption")

(* What prints as it is shown: see the README for each of the others. *)
PrintsAsShown ==
    \/ program = "view2D"
    \/ /\ modes.style = "opaqueMesh" => ~modes.mono
       /\ modes.style = "smooth" => ~modes.box /\ ~modes.clipbox
       /\ modes.style = "smooth" => (modes.axesOn <=> \E k \in canvas.viewmap : k.what = <<"axes">>)
       /\ Polygons(modes.style) /\ flags.listed => "point" \notin ToSet(Scene)

(* The program was started without the environment variable FRICAS. *)
PrintAborted ==
    /\ ~canvas.ps.psInit /\ Step
    /\ last' = [NoPrint EXCEPT !.tried = TRUE]
    /\ UNCHANGED <<program, modes, graph, flags, canvas, missing, swept>>

PSFile(reached) ==
    LET drawn == Printed([canvas EXCEPT !.ps = PSInit(@)], reached)
        created == PSCreateFile(drawn.ps, missing)
    IN  [canvas |-> [drawn EXCEPT !.ps = created.ps],
         flags |-> IF program = "view3D" THEN AfterDrawing(modes.style, Redo) ELSE flags,
         last |-> [tried |-> TRUE, done |-> created.done, file |-> created.file]]

Reached(n) == Careful => n = Len(Scene) /\ PrintsAsShown /\ ~swept

PrintViewport ==
    /\ canvas.ps.psInit /\ Step
    /\ \E n \in 0..Len(Scene) :
           /\ Reached(n)
           /\ LET p == PSFile(n)
              IN  canvas' = p.canvas /\ flags' = p.flags /\ last' = p.last
    /\ UNCHANGED <<program, modes, graph, missing, swept>>

(* Somebody installs what was missing. *)
Install ==
    /\ missing # {}
    /\ missing' = {}
    /\ UNCHANGED <<program, modes, graph, flags, canvas, swept, last, steps>>

(* Temporary files are removed while the viewport lives. *)
CleanTmp ==
    /\ ~swept /\ Step
    /\ swept' = TRUE
    /\ canvas' = [canvas EXCEPT !.ps = PSClose(@)]
    /\ UNCHANGED <<program, modes, graph, flags, missing, last>>

Next == \/ StyleButton \/ RegionButton \/ BWButton \/ AxesButton \/ ClipRegionButton \/ OutlineButton
        \/ Move3D \/ Change2D \/ PrintAborted \/ PrintViewport \/ Install \/ CleanTmp

Spec == Init /\ [][Next]_vars

-----------------------------------------------------------------------------
TypeOK ==
    /\ program \in {"view2D", "view3D"} /\ modes \in Modes /\ graph \in GraphModes
    /\ flags \in [recalc : BOOLEAN, redo : BOOLEAN, listed : BOOLEAN] /\ missing \in Missing \cup {{}} /\ swept \in BOOLEAN
    /\ canvas.ps.flag \subseteq Part /\ canvas.ps.GCdict \subseteq STRING
    /\ last.tried \in BOOLEAN /\ last.done \in BOOLEAN
    /\ steps \in 0..MaxSteps

IsCover(what) == Len(what) = 2 /\ what[2] = "cover"

(* A cover is seen by what it hides, also in the colour of the page. *)
Seen(window) == {k.what : k \in {x \in window : x.ink # "bg" \/ IsCover(x.what)}}
SeenOnPaper(page) == {k.what : k \in {x \in page.marks : x.ink # page.page \/ IsCover(x.what)}}

(***************************************************************************)
(* A file that is reported as written can be printed, and shows what the   *)
(* window shows and the title: every procedure that the script calls was   *)
(* copied into it, every context it names is in the dictionary, nothing is *)
(* lost because its colour is that of the page, and nothing of an earlier  *)
(* print, whole or failed, is in it.                                       *)
(***************************************************************************)
PaperShowsWindow ==
    last.done => LET page == Interpret(last.file, modes.inverse)
                  IN  ~page.error /\ SeenOnPaper(page) = Seen(canvas.window) \cup {<<"title">>}

(***************************************************************************)
(* To print leaves the window as it is, although the same routines draw    *)
(* and those of the smooth style end with a copy of their pixmap.          *)
(***************************************************************************)
WindowUntouched == [][last'.tried => canvas'.window = canvas.window]_vars
=============================================================================

------------------------------ MODULE Drawing ------------------------------
(***************************************************************************)
(* What the viewport programs draw: view3D (drawPreViewport, the           *)
(* components in each style, drawTheViewport) and view2D                   *)
(* (drawTheViewport), as calls of Gdraws, for the window and for           *)
(* PostScript.  Projection, clipping and the order of depth are left out:  *)
(* a component is drawn by one call of each kind that it uses.  What is    *)
(* drawn is a tuple of names: <<"surface">> are its lines and Cover of it  *)
(* an area that hides what lies behind.                                    *)
(*                                                                         *)
(* A definition D_Fault that stands before a definition D is a faulty      *)
(* variant of D: it is used only to show that a property would notice.     *)
(***************************************************************************)
EXTENDS Gdraws

Cover(what) == <<what, "cover">>

(* main3d.c and main2d.c: the contexts, each with the name it has on paper. *)
Contexts(program) ==
    IF program = "view3D"
    THEN << <<"globalGC1", "globalGC1">>, <<"globalGC2", "globalGC2">>, <<"trashGC", "trashGC">>,
            <<"componentGC", "componentGC">>, <<"opaqueGC", "opaqueGC">>,
            <<"renderGC", "renderGC">>, <<"globGC", "globGC">>, <<"anotherGC", "anotherGC">>,
            <<"GC9991", "renderGC">> >>
    ELSE << <<"globalGC1", "globalGC1">>, <<"globalGC2", "globalGC2">>, <<"trashGC", "trashGC">>,
            <<"globGC", "globGC">>, <<"anotherGC", "anotherGC">>, <<"graphGC", "graphGC">>,
            <<"unitGC", "unitGC">> >>

AllContexts == {Contexts(p)[i][1] : p \in {"view3D"}, i \in DOMAIN Contexts("view3D")}
                  \cup {Contexts("view2D")[i][1] : i \in DOMAIN Contexts("view2D")}

PSStart(program, env) ==
    FoldLeft(LAMBDA ps, gc : PSCreateContext(ps, gc[1], gc[2]), PSGlobalInit(env), Contexts(program))

-----------------------------------------------------------------------------
(***************************************************************************)
(* view3D.  m.mono is mono || viewport->monoOn.  The axes, the region box  *)
(* and the box of the volume: the sides that face away are drawn before    *)
(* the components, the others after them.                                  *)
(***************************************************************************)
Side(m, dFlag, what, rgb) ==
    IF m.mono THEN <<GSetForeground("trashGC", "fg"), GDrawLines("trashGC", what)>>
    ELSE IF dFlag = "PSoption"
    THEN <<GSetForeground("trashGC", "pixel"), PSDrawColor(rgb, what)>>
    ELSE <<GSetForeground("trashGC", rgb), GDrawLines("trashGC", what)>>

Boxes(m, dFlag, side) ==
    (IF m.clipbox THEN <<GSetLineAttributes("trashGC")>> \o Side(m, dFlag, <<"region", side>>, "clip")
     ELSE << >>)
    \o (IF m.box THEN <<GSetLineAttributes("trashGC")>> \o Side(m, dFlag, <<"box", side>>, "box")
        ELSE << >>)

(* Inverse video: the page becomes black. *)
Background(m, dFlag) ==
    IF dFlag = "PSoption" /\ m.inverse
    THEN <<GSetForeground("globGC", "bg"),
           IF m.mono THEN PSFillPolygon("globGC", <<"wash">>) ELSE PSColorPolygon("black", <<"wash">>)>>
    ELSE << >>

Axes(m, dFlag) ==
    IF ~m.axesOn THEN << >>
    ELSE (IF m.mono
          THEN <<GSetForeground("globalGC1", "fg"), GSetForeground("globGC", "fg"),
                 GDrawLine("globalGC1", <<"axes">>)>>
          ELSE IF dFlag = "PSoption"
          THEN <<GSetForeground("globGC", "fg"), PSDrawColor("axes", <<"axes">>)>>
          ELSE <<GSetForeground("globalGC1", "axes"), GSetForeground("globGC", "label"),
                 GDrawLine("globalGC1", <<"axes">>)>>)
         \o <<GDrawString("globGC", <<"labels">>), GSetForeground("globalGC1", "button"),
              GSetForeground("globGC", "button")>>

(* drawPreViewport clears the window for a drawing in the window only. *)
drawPreViewport_Fault(c, m, dFlag) ==
    Perform([c EXCEPT !.window = {}], dFlag,
            Background(m, dFlag) \o Axes(m, dFlag) \o Boxes(m, dFlag, "back"))

drawPreViewport(c, m, dFlag) ==
    Perform(IF dFlag = "Xoption" THEN [c EXCEPT !.window = {}] ELSE c, dFlag,
            Background(m, dFlag) \o Axes(m, dFlag) \o Boxes(m, dFlag, "back"))

-----------------------------------------------------------------------------
(* The transparent style: drawn from the points. *)
TransparentPoint(m, dFlag) ==
    <<GSetForeground("componentGC", IF dFlag = "PSoption" THEN "black" ELSE IF m.mono THEN "fg" ELSE "hue"),
      GFillArc("componentGC", <<"point">>)>>

(* Lines and polygons: both are drawn segment by segment. *)
TransparentLines(m, dFlag, what) ==
    IF dFlag = "Xoption"
    THEN <<GSetForeground("componentGC", IF m.mono THEN "fg" ELSE "hue"), GDrawLine("componentGC", <<what>>)>>
    ELSE IF m.mono
    THEN <<GSetForeground("componentGC", "black"), GDrawLine("componentGC", <<what>>)>>
    ELSE <<PSDrawColor("hue", <<what>>)>>

TransparentSurface(m, dFlag) ==
    <<GSetForeground("componentGC", IF dFlag = "PSoption" THEN "black" ELSE IF m.mono THEN "fg" ELSE "mesh"),
      GDrawLines("componentGC", <<"surface">>)>>

Transparent(m, dFlag, what) ==
    CASE what = "point"   -> TransparentPoint(m, dFlag)
      [] what = "surface" -> TransparentSurface(m, dFlag)
      [] OTHER            -> TransparentLines(m, dFlag, what)

-----------------------------------------------------------------------------
(***************************************************************************)
(* The styles of polygons (drawPolygons).  In the window a point is not    *)
(* drawn while the list is computed again.                                 *)
(***************************************************************************)
PolygonPoint(m, dFlag, recalc) ==
    <<GSetForeground("componentGC", IF dFlag = "PSoption" THEN "black" ELSE IF m.mono THEN "fg" ELSE "mesh")>>
    \o (IF recalc /\ dFlag = "Xoption" THEN << >> ELSE <<GFillArc("componentGC", <<"point">>)>>)

drawLineComponent(m, dFlag) ==
    IF dFlag = "PSoption"
    THEN <<GSetForeground("opaqueGC", "black")>>
         \o (IF m.mono THEN <<GDrawLines("opaqueGC", <<"line">>)>> ELSE <<PSDrawColor("hue", <<"line">>)>>)
    ELSE <<GSetForeground("opaqueGC", IF m.mono THEN "fg" ELSE "hue"), GDrawLines("opaqueGC", <<"line">>)>>

(* The area is filled with XFillPolygon unless colours are printed: see FillsWindow. *)
drawOpaquePolygon(m, dFlag, what) ==
    <<GSetForeground("globGC", "bg"), GSetForeground("opaqueGC", IF m.mono THEN "fg" ELSE "pixel")>>
    \o (IF dFlag = "PSoption" /\ ~m.mono
        THEN <<GSetForeground("GC9991", "bg"), PSFillPolygon("GC9991", Cover(what)),
               PSDrawColor("hue", <<what>>)>>
        ELSE (IF dFlag = "Xoption" THEN <<InContext("", "XFillPolygon", "globGC", Cover(what))>>
              ELSE << >>)
             \o <<GDrawLines("opaqueGC", <<what>>)>>)

(* On paper GC9991 and renderGC have the same name. *)
Outline(m, dFlag, what) ==
    IF ~m.outline THEN << >>
    ELSE (IF dFlag = "PSoption" THEN <<GSetForeground("renderGC", "black")>> ELSE << >>)
         \o <<GDrawLines("renderGC", <<what>>)>>

drawRenderedPolygon(m, dFlag, what) ==
    (IF dFlag = "Xoption" THEN <<InColor("", "XShadePolygon", "componentGC", "shade", Cover(what))>>
     ELSE IF m.mono
     THEN <<GSetForeground("GC9991", "shade"), PSFillPolygon("GC9991", Cover(what))>>
     ELSE <<PSColorPolygon("shade", Cover(what))>>)
    \o Outline(m, dFlag, what)

Polygon(m, dFlag, recalc, what) ==
    CASE what = "point" -> PolygonPoint(m, dFlag, recalc)
      [] what = "line"  -> drawLineComponent(m, dFlag)
      [] OTHER -> IF m.style = "opaqueMesh" THEN drawOpaquePolygon(m, dFlag, what)
                  ELSE drawRenderedPolygon(m, dFlag, what)

-----------------------------------------------------------------------------
(***************************************************************************)
(* The smooth style.  scanLines paints all of the window and of the        *)
(* pixmap; a pixel of a box, of the axes or of a surface is a point on     *)
(* paper.  A point has no area and is not seen.                            *)
(***************************************************************************)
Wash(m, dFlag) ==
    IF dFlag = "Xoption" THEN <<GSetForeground("trashGC", "bg")>>
    ELSE <<GSetForeground("GC9991", IF m.mono THEN "shade" ELSE "white"), PSFillPolygon("GC9991", <<"wash">>)>>

Pixels(m, dFlag, what, ink) ==
    IF dFlag = "Xoption" THEN <<InColor("", "XPutPixel", "trashGC", IF m.mono THEN "fg" ELSE ink, what)>>
    ELSE <<GDrawPoint("GC9991", "black", what)>>

boxTObuffer(m, dFlag) == IF m.box THEN Pixels(m, dFlag, <<"box", "back">>, "box") ELSE << >>
clipboxTObuffer(m, dFlag) == IF m.clipbox THEN Pixels(m, dFlag, <<"region", "back">>, "clip") ELSE << >>
axesTObuffer(m, dFlag) == IF m.axesOn THEN Pixels(m, dFlag, <<"axes">>, "axes") ELSE << >>

scanPhong(dFlag, what) ==
    IF what = "point" THEN << >>
    ELSE IF dFlag = "Xoption" THEN <<InColor("", "XPutPixel", "trashGC", "hue", Cover(what))>>
    ELSE <<GDrawPoint("GC9991", "hue", Cover(what))>>

showAxesLabels(m, dFlag) ==
    IF ~m.axesOn THEN << >>
    ELSE IF dFlag = "Xoption"
    THEN <<GSetForeground("globGC", IF m.mono THEN "fg" ELSE "label"), GDrawString("globGC", <<"labels">>)>>
    ELSE <<GSetForeground("GC9991", "black"), GDrawString("GC9991", <<"labels">>)>>

(* The pixmap is copied to the window at the end, in PostScript too. *)
Scanned(c, m, dFlag, scene) ==
    LET polygons == FoldLeft(LAMBDA s, what : s \o scanPhong(dFlag, what), << >>, scene)
        calls == Wash(m, dFlag) \o boxTObuffer(m, dFlag) \o clipboxTObuffer(m, dFlag)
                 \o axesTObuffer(m, dFlag) \o polygons \o showAxesLabels(m, dFlag)
        d == Perform(IF dFlag = "Xoption" THEN [c EXCEPT !.window = {}] ELSE c, dFlag, calls)
    IN  IF dFlag = "Xoption" THEN [d EXCEPT !.viewmap = d.window] ELSE [d EXCEPT !.window = c.viewmap]

-----------------------------------------------------------------------------
(***************************************************************************)
(* draw3DComponents: scene is the sequence of the components that are      *)
(* drawn before an event stops the drawing.                                *)
(***************************************************************************)
Begin(m, dFlag) ==
    LET black == IF dFlag = "PSoption" THEN "black" ELSE "mesh"
    IN  CASE m.style = "transparent" ->
               <<GSetLineAttributes("componentGC"), GSetForeground("componentGC", black)>>
          [] m.style = "opaqueMesh" ->
               <<GSetForeground("globGC", IF dFlag = "PSoption" THEN "black" ELSE "bg"),
                 GSetForeground("opaqueGC", black), GSetLineAttributes("opaqueGC")>>
          [] m.style = "render" /\ m.outline ->
               <<GSetLineAttributes("renderGC"), GSetForeground("renderGC", "black")>>
          [] OTHER -> << >>

(* XFillPolygon of an opaque polygon reaches the window also when it is printed in black. *)
FillsWindow(m, dFlag) == dFlag = "PSoption" /\ m.style = "opaqueMesh" /\ m.mono

draw3DComponents(c, m, dFlag, scene, recalc, scan) ==
    IF m.style = "smooth"
    THEN IF scan THEN Scanned(c, m, dFlag, scene) ELSE [c EXCEPT !.window = c.viewmap]
    ELSE LET Calls(what) == IF m.style = "transparent" THEN Transparent(m, dFlag, what)
                            ELSE Polygon(m, dFlag, recalc, what)
             d == Perform(c, dFlag, FoldLeft(LAMBDA s, what : s \o Calls(what), Begin(m, dFlag), scene))
         IN  IF FillsWindow(m, dFlag) /\ {"polygon", "surface"} \cap ToSet(scene) # {}
             THEN [d EXCEPT !.window = @ \cup {Mark(Cover("hole"), "bg")}] ELSE d

(* drawTheViewport: the front sides come last. *)
FrontSides(m, dFlag) == Boxes(m, dFlag, "front")

drawViewport3D(c, m, dFlag, scene, recalc, scan) ==
    Perform(draw3DComponents(drawPreViewport(c, m, dFlag), m, dFlag, scene, recalc, scan), dFlag,
            FrontSides(m, dFlag))

-----------------------------------------------------------------------------
(***************************************************************************)
(* view2D: the contexts have their default on paper, except where a colour *)
(* is given.                                                               *)
(***************************************************************************)
do_tick(axis) == <<GDrawLine("unitGC", <<axis, "ticks">>), GDrawImageString("unitGC", <<axis, "units">>)>>

XOnly(dFlag, calls) == IF dFlag = "Xoption" THEN calls ELSE << >>

Graph(g, dFlag) ==
    (IF g.axesOn THEN XOnly(dFlag, <<GSetForeground("globalGC1", "axes")>>) \o <<GDrawLine("globalGC1", <<"axes">>)>>
     ELSE << >>)
    \o (IF g.pointsOn THEN <<GColorFillArc("globalGC1", "hue", <<"points">>)>> ELSE << >>)
    \o (IF g.connectOn THEN <<GColorLine("globalGC1", "hue", <<"lines">>)>> ELSE << >>)
    \o (IF g.splineOn THEN XOnly(dFlag, <<GSetForeground("globalGC1", "box")>>)
                           \o <<GDrawRectangle("globalGC1", <<"box">>)>> ELSE << >>)
    \o (IF g.unitsOn THEN XOnly(dFlag, <<GSetForeground("unitGC", "label")>>)
                          \o do_tick("x") \o do_tick("y") ELSE << >>)

drawViewport2D(c, g, dFlag) ==
    Perform(IF dFlag = "Xoption" THEN [c EXCEPT !.window = {}] ELSE c, dFlag,
            IF g.showing THEN Graph(g, dFlag) ELSE << >>)
=============================================================================

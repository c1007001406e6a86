------------------------------- MODULE View3D -------------------------------
(***************************************************************************)
(* One three-dimensional viewport (src/graph/view3D): the view, the        *)
(* control panel with its light, volume, save and quit windows, and the    *)
(* image, which is computed only when a flag says that it must be and      *)
(* whose computation any event of the user interrupts.  Input comes from   *)
(* the mouse and, through the viewport manager, from Lisp.                 *)
(*                                                                         *)
(* The numbers of a view (angles, scales, colours, points) are left out;   *)
(* image.stale says instead in what respect the stored image of the smooth *)
(* style is older than the view.  An interrupted drawing stops at one of   *)
(* Interrupts.  The screen has colours (mono is off).                      *)
(*                                                                         *)
(* Careful: PostScript is written only when the image is up to date; Lisp  *)
(* neither changes which axes are scaled nor writes an image while the     *)
(* control panel is shown; and what changes the image but sets no flag is  *)
(* left to moments at which a flag is set: Lisp's requests for a point,    *)
(* the clipping, the light or the translucence, an abort of the volume     *)
(* window after a change there, and a light accepted after an image was    *)
(* computed while it was chosen.                                           *)
(*                                                                         *)
(* A definition D_Fault that stands before a definition D is a faulty      *)
(* variant of D: it is used only to show that a property would notice.     *)
(***************************************************************************)
EXTENDS Naturals

CONSTANTS
    Axis,           \* the scale buttons followed, of "zoomx", "zoomy", "zoomz"
    FirstStyle,     \* styles that Lisp asks for at first
    Interrupts,     \* where an event may interrupt a drawing, subset of Stage
    Careful,        \* Lisp and the user leave out what is known to go wrong (see below)
    MaxSteps        \* bound: operations of the user and of Lisp

Style == {"transparent", "opaqueMesh", "render", "smooth"}
Stage == {"start", "freed", "copied", "drawing"}

ASSUME View3DAssumption == /\ Axis \subseteq {"zoomx", "zoomy", "zoomz"}
                           /\ FirstStyle \subseteq Style
                           /\ Interrupts \subseteq Stage
                           /\ Careful \in BOOLEAN
                           /\ MaxSteps \in Nat

Toggle == {"region3D", "axesOnOff", "outlineOnOff", "bwColor", "originr", "objectr"} \cup Axis
Panel == {"CONTROL", "LIGHT", "VOLUME", "SAVE", "QUIT"}
SubWindow == {"lighting", "volume", "save", "quit"}

(* What the volume window changes is the clipping, the hither plane and the perspective. *)
Aspect == {"view", "light", "volume", "axes"}

VARIABLES
    alive,          \* the program runs
    style,          \* viewData.style
    on,             \* regionOn, axesOn, outlineRenderOn, monoOn, originrOn, ...
    lit,            \* the button of the mode has textColor onColor
    haveControl,    \* viewport->haveControl
    panel,          \* doingPanel
    mapped,         \* the windows on the control panel that are mapped
    saveFlag, closing, redrawView, spadDraw,
    perspective,    \* viewData.perspective
    singleHue,      \* hueTop = hueOffset
    intensity,      \* changedIntensity
    image,          \* the flags of recalculation and what they guard
    steps           \* bound

buttons == <<on, lit>>
windows == <<haveControl, panel, mapped, saveFlag, closing>>
scene == <<perspective, singleHue, intensity>>
vars == <<alive, style, buttons, windows, redrawView, spadDraw, scene, image, steps>>

-----------------------------------------------------------------------------
(***************************************************************************)
(* recalc of draw.h.  moved stands for rotated, zoomed, translated,        *)
(* switchedPerspective and changedEyeDistance, which are read only here    *)
(* and always cleared together.                                            *)
(***************************************************************************)
Recalc(im) == im.moved \/ ~im.finishedList \/ im.firstTime

(* redo of drawPhong: the smooth image is computed, not taken from the pixmap. *)
Redo(im) == Recalc(im) \/ im.redoSmooth

(* freeListOfPolygons(quickList): freed twice, or used when freed, it is corrupt. *)
FreeList(im) == IF im.quickList = "owned" THEN [im EXCEPT !.quickList = "freed"]
                ELSE IF im.quickList = "freed" THEN [im EXCEPT !.quickList = "corrupt"]
                ELSE im

UseList(im) == IF im.quickList = "freed" THEN [im EXCEPT !.quickList = "corrupt"] ELSE im

(* Polygons are copied only if there is no list yet. *)
CopyList_Fault(im) == IF im.quickList = "none" THEN [im EXCEPT !.quickList = "owned"] ELSE im

CopyList(im) == IF im.quickList = "corrupt" THEN im ELSE [im EXCEPT !.quickList = "owned"]

(* drawPolygons, stopped at stage st, "end" if not at all. *)
DrawPolygons(im, st) ==
    LET begun == [im EXCEPT !.moved = FALSE, !.redoSmooth = TRUE, !.firstTime = FALSE]
        copied == [CopyList(IF im.firstTime THEN im ELSE FreeList(im))
                      EXCEPT !.moved = FALSE, !.redoSmooth = TRUE, !.firstTime = FALSE]
    IN  IF ~Recalc(im) THEN IF st = "start" THEN im ELSE UseList(im)
        ELSE CASE st = "start" -> begun
               [] st \in {"freed", "copied"} -> copied
               [] OTHER -> [copied EXCEPT !.finishedList = st = "end"]

(* changeColorMap: glossy shading if there is a single hue, else dithering. *)
ChangeColorMap(im, glossy) ==
    IF glossy THEN IF im.redoColor THEN [im EXCEPT !.redoColor = FALSE, !.pixelSet = TRUE] ELSE im
    ELSE LET plain == [im EXCEPT !.redoDither = FALSE]
         IN  IF im.pixelSet
             THEN [plain EXCEPT !.pixelSet = FALSE, !.redoColor = FALSE, !.multiColor = TRUE]
             ELSE plain

(***************************************************************************)
(* scanLines: the lines go to the window and to the pixmap, unless they    *)
(* are drawn in PostScript; then the pixmap stays as it is.                *)
(***************************************************************************)
ScanLines(im, st) == [im EXCEPT !.scanLeft = st # "end"]

(* A drawing that stopped at the scan lines counts as finished. *)
DrawPhong_Fault(im, st, glossy, ps) ==
    LET drawn == [CopyList(im) EXCEPT !.moved = FALSE, !.redoSmooth = FALSE, !.firstTime = FALSE,
                                      !.finishedList = TRUE, !.scanLeft = st # "end"]
    IN  IF ~Redo(im) THEN im ELSE IF st = "end" /\ ~ps THEN [drawn EXCEPT !.stale = {}] ELSE drawn

(***************************************************************************)
(* drawPhong: a mere change of colours does not compute the polygons       *)
(* again; a list that is still in use by an unfinished image is not freed. *)
(***************************************************************************)
DrawPhong(im, st, glossy, ps) ==
    LET Clear(i) == [i EXCEPT !.moved = FALSE, !.redoSmooth = FALSE, !.movingLight = FALSE]
        Done(i) == [i EXCEPT !.finishedList = ~i.scanLeft, !.firstTime = FALSE]
        freed == IF ~im.firstTime /\ ~im.scanLeft THEN FreeList(im) ELSE im
        drawn == Done(ScanLines(ChangeColorMap(Clear(CopyList(freed)), glossy), st))
    IN  IF ~Redo(im)
        THEN IF im.redoColor \/ im.redoDither
             THEN ScanLines(ChangeColorMap(Clear(UseList(im)), glossy), st) ELSE im
        ELSE CASE st = "start" -> Done(Clear(im))
               [] st = "freed" -> Done(Clear(freed))
               [] st = "copied" -> Done(Clear(CopyList(freed)))
               [] st = "drawing" -> drawn
               [] OTHER -> IF ps THEN drawn ELSE [drawn EXCEPT !.stale = {}]

(* draw3DComponents: the transparent style is drawn from the points. *)
DrawComponents(im, sty, st, glossy, ps) ==
    CASE sty = "transparent" -> im
      [] sty = "smooth" -> DrawPhong(im, st, glossy, ps)
      [] OTHER -> DrawPolygons(im, st)

(* drawViewport: there is no mesh while the volume is chosen. *)
Draw(im, sty, pan, glossy, ps, stages) ==
    IF pan = "VOLUME" THEN {im}
    ELSE {DrawComponents(im, sty, st, glossy, ps) : st \in stages \cup {"end"}}

Redraw(im) == image' \in Draw(im, style', panel', singleHue' /\ ~on'["bwColor"], FALSE, Interrupts)

(* The view of the image changes in the respects a. *)
Older(im, a) == [im EXCEPT !.stale = @ \cup a]
Moved(im) == [Older(im, {"view"}) EXCEPT !.moved = TRUE]

(* bwColor, axesOnOff and the colour map ask for other colours. *)
RedoColors(im, hue) == IF hue THEN [im EXCEPT !.redoColor = TRUE] ELSE [im EXCEPT !.redoDither = TRUE]

(* axesOnOff: the flags are set in the smooth style only. *)
RedoAxes(im) == Older(IF style # "smooth" THEN im ELSE RedoColors(im, ~im.multiColor), {"axes"})

-----------------------------------------------------------------------------
(***************************************************************************)
(* makeViewport, make3DComponents and the initial values of main3d.c; the  *)
(* modes are those that viewport3D of view3D.spad sends if no option says  *)
(* otherwise.                                                              *)
(***************************************************************************)
Init ==
    /\ alive = TRUE
    /\ style \in FirstStyle
    /\ on = [t \in Toggle |-> t \in {"axesOnOff", "outlineOnOff", "originr"} \cup Axis]
    /\ haveControl \in BOOLEAN
    /\ lit = [t \in Toggle |-> IF haveControl THEN on[t] ELSE t \in {"originr"} \cup Axis]
    /\ panel = "CONTROL" /\ mapped = {}
    /\ saveFlag = FALSE /\ closing = FALSE /\ redrawView = FALSE /\ spadDraw = FALSE
    /\ perspective = TRUE /\ singleHue \in BOOLEAN /\ intensity = FALSE
    /\ image = [moved |-> TRUE, finishedList |-> FALSE, firstTime |-> TRUE,
                redoSmooth |-> FALSE, redoColor |-> singleHue, redoDither |-> FALSE,
                multiColor |-> ~singleHue, pixelSet |-> FALSE, movingLight |-> FALSE,
                otherLight |-> FALSE, scanLeft |-> FALSE, quickList |-> "none", stale |-> {"view"}]
    /\ steps = 0

(* What an action on a button, or a command of Lisp, leaves alone that only draws. *)
ImageOnly == UNCHANGED <<alive, style, buttons, haveControl, panel, mapped, saveFlag, redrawView, spadDraw, scene>>
LispImageOnly == UNCHANGED <<alive, style, buttons, windows, redrawView, scene>>

(* One more operation within the bound. *)
Step == alive /\ steps < MaxSteps /\ steps' = steps + 1

(* drawControlPanel colours every button by its mode. *)
DrawControlPanel == lit' = on'

-----------------------------------------------------------------------------
(***************************************************************************)
(* processEvents: a button that is pressed answers the question of the     *)
(* quit window with no, unless it is quitReturn.  The light and the volume *)
(* window cover the control panel, the save and the quit window its lower  *)
(* right corner.                                                           *)
(***************************************************************************)
Corner == {"hideControl", "resetView", "closeAll"}

Press(button) ==
    /\ Step
    /\ haveControl /\ mapped \cap {"lighting", "volume"} = {}
    /\ button \in Corner => mapped = {}
    /\ closing' = FALSE

(* The buttons of the sub-windows do not withdraw the question. *)
PressIn(window) ==
    /\ Step
    /\ haveControl /\ window \in mapped
    /\ closing' = FALSE

(* The save window lies under the quit window. *)
PressInSave == PressIn("save") /\ "quit" \notin mapped

Flip(t) ==
    /\ on' = [on EXCEPT ![t] = ~@]
    /\ lit' = [lit EXCEPT ![t] = on'[t]]

HideControl ==
    /\ Press("hideControl")
    /\ haveControl' = FALSE
    /\ UNCHANGED <<alive, style, buttons, panel, mapped, saveFlag, redrawView, spadDraw, scene, image>>

RegionButton ==
    /\ Press("region3D")
    /\ Flip("region3D")
    /\ UNCHANGED <<alive, style, haveControl, panel, mapped, saveFlag, redrawView, spadDraw, scene>>
    /\ Redraw([Older(image, {"view"}) EXCEPT !.redoSmooth = TRUE])

BWButton ==
    /\ Press("bwColor")
    /\ Flip("bwColor")
    /\ UNCHANGED <<alive, style, haveControl, panel, mapped, saveFlag, redrawView, spadDraw, scene>>
    /\ Redraw([RedoColors(Older(image, {"view"}), singleHue) EXCEPT !.redoSmooth = TRUE])

OutlineButton ==
    /\ Press("outlineOnOff")
    /\ Flip("outlineOnOff")
    /\ UNCHANGED <<alive, style, haveControl, panel, mapped, saveFlag, redrawView, spadDraw, scene>>
    /\ IF style = "render" THEN Redraw(image) ELSE image' = image

AxesButton ==
    /\ Press("axesOnOff")
    /\ Flip("axesOnOff")
    /\ UNCHANGED <<alive, style, haveControl, panel, mapped, saveFlag, redrawView, spadDraw, scene>>
    /\ Redraw(RedoAxes(image))

ZoomAxisButton(a) ==
    /\ Press(a)
    /\ Flip(a)
    /\ UNCHANGED <<alive, style, haveControl, panel, mapped, saveFlag, redrawView, spadDraw, scene, image>>

(* originr and objectr exclude each other. *)
RotateAboutButton(b) ==
    /\ Press(b)
    /\ on' = [on EXCEPT !["originr"] = b = "originr", !["objectr"] = b = "objectr"]
    /\ lit' = [lit EXCEPT !["originr"] = on'["originr"], !["objectr"] = on'["objectr"]]
    /\ UNCHANGED <<alive, style, haveControl, panel, mapped, saveFlag, redrawView, spadDraw, scene, image>>

(* The save window closes, but saveFlag stays. *)
OpenPanel(button, p, window) ==
    /\ Press(button)
    /\ panel' = p
    /\ mapped' = (mapped \ (IF saveFlag THEN {"save"} ELSE {})) \cup {window}

(* The light window starts from the light of the view; image.otherLight: it has left it. *)
LightButton ==
    /\ OpenPanel("lighting", "LIGHT", "lighting")
    /\ image' = [image EXCEPT !.otherLight = FALSE]
    /\ UNCHANGED <<alive, style, buttons, haveControl, saveFlag, redrawView, spadDraw, scene>>

VolumeButton ==
    /\ OpenPanel("viewVolume", "VOLUME", "volume")
    /\ redrawView' = TRUE
    /\ UNCHANGED <<alive, style, buttons, haveControl, saveFlag, spadDraw, scene>>
    /\ Redraw(image)

ClosePanel(window) ==
    /\ PressIn(window)
    /\ panel' = "CONTROL"
    /\ mapped' = mapped \ {window}
    /\ UNCHANGED <<alive, style, buttons, haveControl, saveFlag, spadDraw, perspective, singleHue>>

VolumeReturn ==
    /\ ClosePanel("volume")
    /\ redrawView' = TRUE
    /\ image' = [image EXCEPT !.redoSmooth = TRUE]
    /\ UNCHANGED intensity

VolumeAbort ==
    /\ ClosePanel("volume")
    /\ redrawView' = TRUE
    /\ Careful => Redo(image) \/ "volume" \notin image.stale
    /\ UNCHANGED <<intensity, image>>

(* Only now do the light and the intensity chosen count; a drawing has cleared movingLight. *)
LightReturn ==
    /\ ClosePanel("lighting")
    /\ redrawView' = (style \in {"render", "smooth"})
    /\ Careful /\ image.otherLight => image.movingLight \/ intensity
    /\ image' = [Older(image, IF image.otherLight THEN {"light"} ELSE {})
                    EXCEPT !.otherLight = FALSE, !.redoSmooth = @ \/ image.movingLight \/ intensity]
    /\ UNCHANGED intensity

LightAbort ==
    /\ ClosePanel("lighting")
    /\ image' = [image EXCEPT !.movingLight = FALSE]
    /\ intensity' = FALSE
    /\ UNCHANGED redrawView

(***************************************************************************)
(* resetView, from the control panel and, as spadPressedAButton, from      *)
(* Lisp: only the angles are compared with their former values.            *)
(***************************************************************************)
Reset ==
    /\ on' = [t \in Toggle |-> t \in {"axesOnOff", "outlineOnOff", "originr"} \cup Axis]
    /\ UNCHANGED <<alive, style, haveControl, panel, mapped, saveFlag, redrawView, scene>>
    /\ \E turned \in BOOLEAN :
          Redraw([Older(image, {"view", "light"}) EXCEPT !.moved = @ \/ turned, !.redoSmooth = TRUE,
                                                         !.otherLight = TRUE])
    /\ IF haveControl THEN DrawControlPanel ELSE lit' = lit

ResetButton == Press("resetView") /\ Reset /\ UNCHANGED spadDraw

StyleButton(s) ==
    /\ Press(s)
    /\ style' = s
    /\ UNCHANGED <<alive, buttons, haveControl, panel, mapped, saveFlag, redrawView, spadDraw, scene>>
    /\ Redraw(image)

CloseAll ==
    /\ Step
    /\ haveControl /\ mapped = {}
    /\ closing' = TRUE
    /\ panel' = "QUIT"
    /\ mapped' = {"quit"}
    /\ UNCHANGED <<alive, style, buttons, haveControl, saveFlag, redrawView, spadDraw, scene, image>>

(* quitReturn when the question has been withdrawn: the window only closes. *)
QuitReturn ==
    /\ PressIn("quit") /\ ~closing
    /\ mapped' = mapped \ {"quit"}
    /\ UNCHANGED <<alive, style, buttons, haveControl, panel, saveFlag, redrawView, spadDraw, scene, image>>

QuitAbort ==
    /\ PressIn("quit")
    /\ panel' = "CONTROL"
    /\ mapped' = mapped \ {"quit"}
    /\ UNCHANGED <<alive, style, buttons, haveControl, saveFlag, redrawView, spadDraw, scene, image>>

(* goodbye: quitReturn while closing, the window manager, or Lisp. *)
Goodbye ==
    /\ alive' = FALSE
    /\ UNCHANGED <<style, buttons, windows, redrawView, spadDraw, scene, image>>

QuitConfirmed == Step /\ haveControl /\ "quit" \in mapped /\ closing /\ Goodbye
WindowDeleted == Step /\ Goodbye
LispClose == Step /\ Goodbye

SaveButton ==
    /\ Press("saveit")
    /\ saveFlag' = TRUE
    /\ panel' = "SAVE"
    /\ mapped' = mapped \cup {"save"}
    /\ UNCHANGED <<alive, style, buttons, haveControl, redrawView, spadDraw, scene, image>>

SaveExit ==
    /\ PressInSave
    /\ saveFlag' = FALSE
    /\ panel' = "CONTROL"
    /\ mapped' = mapped \ {"save"}
    /\ UNCHANGED <<alive, style, buttons, haveControl, redrawView, spadDraw, scene, image>>

(***************************************************************************)
(* Pictures.  drawViewport in PostScript clears the flags although it      *)
(* leaves the pixmap alone: careful users write only an image that is up   *)
(* to date.                                                                *)
(***************************************************************************)
UpToDate == image.stale \subseteq {"axes"}

PostScript ==
    {image} \cup Draw([image EXCEPT !.redoSmooth = TRUE], style, panel,
                      singleHue /\ ~on["bwColor"], TRUE, Interrupts)

PSButton ==
    /\ PressInSave
    /\ Careful => UpToDate
    /\ image' \in PostScript
    /\ ImageOnly

-----------------------------------------------------------------------------
(* The potentiometers, and the buttons xy, xz and yz. *)
Turn ==
    /\ ImageOnly
    /\ Redraw(Moved(image))

RotatePot == Press("rotate") /\ ~(on["originr"] /\ on["objectr"]) /\ Turn
TranslatePot == Press("translate") /\ Turn
PlaneButton == Press("xy") /\ Turn

(* With every axis off, zoomed is set and nothing is drawn. *)
ZoomPot ==
    /\ Press("zoom")
    /\ IF \E a \in Axis : on[a] THEN Turn
       ELSE /\ image' = [image EXCEPT !.moved = TRUE]
            /\ ImageOnly

LightMovePot ==
    /\ PressIn("lighting")
    /\ image' = [image EXCEPT !.movingLight = TRUE, !.otherLight = TRUE]
    /\ ImageOnly

IntensityPot ==
    /\ PressIn("lighting")
    /\ intensity' = TRUE
    /\ image' = [image EXCEPT !.otherLight = TRUE]
    /\ UNCHANGED <<alive, style, buttons, haveControl, panel, mapped, saveFlag, redrawView, spadDraw,
                   perspective, singleHue>>

(* frustrumBut: the eye, the hither plane (no flag), or neither. *)
FrustrumPot ==
    /\ PressIn("volume")
    /\ UNCHANGED <<alive, style, buttons, haveControl, mapped, saveFlag, redrawView, spadDraw, scene>>
    /\ \/ panel' = panel /\ Redraw(Moved(image))
       \/ panel' = panel /\ Redraw(Older(image, {"volume"}))
       \/ panel' = "VOLUME" /\ image' = image

(* clipXBut, clipYBut, clipZBut, clipRegionBut and clipSurfaceBut: no flag either. *)
ClipButton ==
    /\ PressIn("volume")
    /\ ImageOnly
    /\ \/ Redraw(Older(image, {"volume"}))
       \/ image' = Older(image, {"volume"})

(* perspectiveBut: switchedPerspective is set when the perspective is switched on. *)
PerspectiveButton ==
    /\ PressIn("volume")
    /\ perspective' = ~perspective
    /\ UNCHANGED <<alive, style, buttons, haveControl, panel, mapped, saveFlag, redrawView, spadDraw,
                   singleHue, intensity>>
    /\ Redraw(IF perspective' THEN Moved(image) ELSE Older(image, {"volume"}))

(* The hues, from the colour map and from Lisp; the former forgets a redoDither. *)
NewHues(im, hue, dither) ==
    IF hue /\ ~on["bwColor"] THEN [im EXCEPT !.redoColor = TRUE, !.redoDither = dither]
    ELSE [im EXCEPT !.redoColor = FALSE, !.redoDither = TRUE]

(* No drawing follows. *)
ColorMap(hue) ==
    /\ Press("colormap")
    /\ singleHue' = hue
    /\ image' = NewHues(image, hue, FALSE)
    /\ UNCHANGED <<alive, style, buttons, haveControl, panel, mapped, saveFlag, redrawView, spadDraw,
                   perspective, intensity>>

-----------------------------------------------------------------------------
(* The other events: a click on the view shows the control panel there. *)
ViewClick ==
    /\ Step
    /\ haveControl' = TRUE
    /\ UNCHANGED <<alive, style, on, panel, mapped, saveFlag, closing, redrawView, spadDraw, scene, image>>
    /\ DrawControlPanel

ExposeView(resized) ==
    /\ Step
    /\ UNCHANGED <<alive, style, buttons, windows, redrawView, spadDraw, scene>>
    /\ Redraw(IF resized THEN [Older(image, {"view"}) EXCEPT !.redoSmooth = TRUE] ELSE image)

(* The control panel appears; after an exposure of the view it is drawn again. *)
ExposeControl ==
    /\ Step
    /\ UNCHANGED <<alive, style, on, windows, spadDraw, scene>>
    /\ IF haveControl THEN DrawControlPanel ELSE lit' = lit
    /\ redrawView' = FALSE
    /\ \/ redrawView /\ Redraw(image)
       \/ ~redrawView /\ image' = image
       \/ ~redrawView /\ Redraw(image)

ExposeVolume ==
    /\ Step
    /\ "volume" \in mapped
    /\ redrawView' = FALSE
    /\ UNCHANGED <<alive, style, buttons, windows, spadDraw, scene>>
    /\ IF redrawView THEN Redraw(image) ELSE image' = image

-----------------------------------------------------------------------------
(***************************************************************************)
(* spadAction: a command of Lisp is served when no X event waits.  Once a  *)
(* command has set spadDraw the viewport is drawn after every command.     *)
(***************************************************************************)
Then(im, draw) ==
    /\ spadDraw' = (spadDraw \/ draw)
    /\ IF spadDraw' THEN Redraw(im) ELSE image' = im

LispMove ==
    /\ Step
    /\ LispImageOnly
    /\ Then(Moved(image), TRUE)

(***************************************************************************)
(* zoom with a factor for each axis, and viewpoint: the modes of the axes  *)
(* change, and the control panel is not drawn.                             *)
(***************************************************************************)
LispZoomAxes(unit) ==
    /\ Step
    /\ on' = [t \in Toggle |-> IF unit = Axis THEN t \in Axis \/ on[t] ELSE t \notin unit /\ on[t]]
    /\ Careful => on' = on
    /\ UNCHANGED <<alive, style, lit, windows, redrawView, scene>>
    /\ Then(Moved(image), TRUE)

(* modifyPOINT changes the view, clipRegionOnOff and clipSurfaceOnOff the clipping: no flag. *)
LispUnflagged ==
    /\ Step
    /\ Careful => Redo(image)
    /\ LispImageOnly
    /\ \E aspect \in {"view", "volume"} : Then(Older(image, {aspect}), TRUE)

LispControl(show) ==
    /\ Step
    /\ haveControl' = show
    /\ UNCHANGED <<alive, style, on, panel, mapped, saveFlag, closing, redrawView, scene>>
    /\ IF show THEN DrawControlPanel ELSE lit' = lit
    /\ Then(image, FALSE)

(* The control panel is not drawn again. *)
LispToggle_Fault(t, value) ==
    /\ Step
    /\ on' = [on EXCEPT ![t] = value]
    /\ UNCHANGED <<alive, style, lit, windows, redrawView, scene>>

LispToggle(t, value) ==
    /\ Step
    /\ on' = [on EXCEPT ![t] = value]
    /\ UNCHANGED <<alive, style, windows, redrawView, scene>>
    /\ IF haveControl THEN DrawControlPanel ELSE lit' = lit

LispAxes(value) == LispToggle("axesOnOff", value) /\ Then(RedoAxes(image), TRUE)

LispRegion(value) ==
    /\ LispToggle("region3D", value)
    /\ Then([Older(image, {"view"}) EXCEPT !.redoSmooth = TRUE], TRUE)

(* outlineRender, only in the render style; diagonals, only with outlines. *)
LispOutline(value) == style = "render" /\ LispToggle("outlineOnOff", value) /\ Then(image, TRUE)

LispDiagonals ==
    /\ Step
    /\ LispImageOnly
    /\ Then(image, on["outlineOnOff"])

LispPerspective(value) ==
    /\ Step
    /\ perspective' = value
    /\ UNCHANGED <<alive, style, buttons, windows, redrawView, singleHue, intensity>>
    /\ Then(Moved(image), TRUE)

LispColors(hue) ==
    /\ Step
    /\ singleHue' = hue
    /\ UNCHANGED <<alive, style, buttons, windows, redrawView, perspective, intensity>>
    /\ Then(NewHues(image, hue, image.redoDither), FALSE)

LispResize ==
    /\ Step
    /\ LispImageOnly
    /\ Then([Older(image, {"view"}) EXCEPT !.redoSmooth = TRUE], TRUE)

LispStyle(s) ==
    /\ Step
    /\ style' = s
    /\ UNCHANGED <<alive, buttons, windows, redrawView, scene>>
    /\ Then([image EXCEPT !.redoSmooth = TRUE], TRUE)

(***************************************************************************)
(* lightDef and translucenceDef take effect in the next image; movingLight *)
(* and changedIntensity are read only when the light window is closed.     *)
(***************************************************************************)
LispLight ==
    /\ Step
    /\ Careful => Redo(image)
    /\ LispImageOnly
    /\ Then([Older(image, {"light"}) EXCEPT !.movingLight = TRUE, !.otherLight = TRUE], FALSE)

LispTranslucence ==
    /\ Step
    /\ Careful => Redo(image)
    /\ intensity' = TRUE
    /\ UNCHANGED <<alive, style, buttons, windows, redrawView, perspective, singleHue>>
    /\ Then(Older(image, {"light"}), FALSE)

LispReset == Step /\ Reset /\ UNCHANGED <<spadDraw, closing>>

(***************************************************************************)
(* writeView: an image is drawn in all hues and then in black and white,   *)
(* both times from the beginning and without interruption; the control     *)
(* panel is not drawn.  A PostScript picture is drawn as from the save     *)
(* window.                                                                 *)
(***************************************************************************)
LispWriteImage ==
    /\ Step
    /\ Careful => ~haveControl
    /\ style' = IF style = "transparent" THEN "render" ELSE style
    /\ on' = [on EXCEPT !["bwColor"] = TRUE,
                        !["outlineOnOff"] = style' = "render" \/ @]
    /\ singleHue' = FALSE
    /\ spadDraw' = spadDraw
    /\ \E first \in Draw([Older(image, {"view"}) EXCEPT !.firstTime = TRUE],
                         style', panel, FALSE, FALSE, {}) :
       \E second \in Draw([first EXCEPT !.firstTime = TRUE], style', panel, FALSE, FALSE, {}) :
          image' \in IF spadDraw THEN Draw(second, style', panel, FALSE, FALSE, Interrupts)
                     ELSE {second}
    /\ UNCHANGED <<alive, lit, windows, redrawView, perspective, intensity>>

LispWritePS ==
    /\ Step
    /\ Careful => UpToDate
    /\ LispImageOnly
    /\ \E im \in PostScript : Then(im, FALSE)

-----------------------------------------------------------------------------
Button ==
    \/ HideControl \/ RegionButton \/ BWButton \/ OutlineButton \/ AxesButton
    \/ \E a \in Axis : ZoomAxisButton(a)
    \/ \E b \in {"originr", "objectr"} : RotateAboutButton(b)
    \/ LightButton \/ VolumeButton \/ VolumeReturn \/ VolumeAbort \/ LightReturn \/ LightAbort
    \/ ResetButton
    \/ \E s \in Style : StyleButton(s)
    \/ CloseAll \/ QuitReturn \/ QuitAbort \/ QuitConfirmed \/ SaveButton \/ SaveExit \/ PSButton
    \/ RotatePot \/ TranslatePot \/ PlaneButton \/ ZoomPot
    \/ LightMovePot \/ IntensityPot \/ FrustrumPot \/ ClipButton \/ PerspectiveButton
    \/ \E hue \in BOOLEAN : ColorMap(hue)

Event ==
    \/ ViewClick \/ ExposeControl \/ ExposeVolume \/ WindowDeleted
    \/ \E resized \in BOOLEAN : ExposeView(resized)

Lisp ==
    \/ LispMove \/ LispUnflagged \/ LispDiagonals \/ LispResize \/ LispLight \/ LispTranslucence
    \/ LispReset \/ LispWriteImage \/ LispWritePS \/ LispClose
    \/ \E unit \in SUBSET Axis : LispZoomAxes(unit)
    \/ \E show \in BOOLEAN : LispControl(show) \/ LispAxes(show) \/ LispRegion(show)
                             \/ LispOutline(show) \/ LispPerspective(show) \/ LispColors(show)
    \/ \E s \in Style : LispStyle(s)

Next == Button \/ Event \/ Lisp

Spec == Init /\ [][Next]_vars

-----------------------------------------------------------------------------
TypeOK ==
    /\ alive \in BOOLEAN /\ style \in Style
    /\ on \in [Toggle -> BOOLEAN] /\ lit \in [Toggle -> BOOLEAN]
    /\ haveControl \in BOOLEAN /\ panel \in Panel /\ mapped \subseteq SubWindow
    /\ saveFlag \in BOOLEAN /\ closing \in BOOLEAN /\ redrawView \in BOOLEAN /\ spadDraw \in BOOLEAN
    /\ perspective \in BOOLEAN /\ singleHue \in BOOLEAN /\ intensity \in BOOLEAN
    /\ image \in [moved : BOOLEAN, finishedList : BOOLEAN, firstTime : BOOLEAN,
                  redoSmooth : BOOLEAN, redoColor : BOOLEAN, redoDither : BOOLEAN,
                  multiColor : BOOLEAN, pixelSet : BOOLEAN, movingLight : BOOLEAN,
                  otherLight : BOOLEAN, scanLeft : BOOLEAN, quickList : {"none", "owned", "freed", "corrupt"},
                  stale : SUBSET Aspect]
    /\ steps \in 0..MaxSteps

(***************************************************************************)
(* On a control panel that is shown, the buttons that are on are green and *)
(* the others red, whoever changed the mode: a button, reset or Lisp.      *)
(***************************************************************************)
ButtonsShowMode == haveControl => lit = on

(***************************************************************************)
(* Whenever the stored image of the smooth style is older than the points, *)
(* the geometry, the size, the box, the colours or the light of the view,  *)
(* a flag makes the next drawing in that style compute it again, whatever  *)
(* styles were used, windows opened and drawings interrupted in between;   *)
(* clipping, hither plane and perspective may wait for the volume window   *)
(* to be closed.  The axes, toggled in another style, have no flag.        *)
(***************************************************************************)
StaleIsFlagged ==
    image.stale \subseteq {"axes"} \cup (mapped \cap {"volume"}) \/ Redo(image)

(***************************************************************************)
(* The list of polygons is never freed twice nor used when it is freed.    *)
(***************************************************************************)
ListSound == image.quickList # "corrupt"

(***************************************************************************)
(* A viewport that one more click closes shows the question, and no other  *)
(* answer to it was given since.                                           *)
(***************************************************************************)
ClosingMeansAsked == closing => "quit" \in mapped
=============================================================================

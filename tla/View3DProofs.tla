----------------------------- MODULE View3DProofs -----------------------------
(***************************************************************************)
(* Proofs about View3D, for any scale buttons, first styles and bounds.    *)
(*                                                                         *)
(* The invariant ViewInv has two halves that hardly meet.  The modes, the  *)
(* windows and the colours of the buttons (ModeInv) change in the handlers *)
(* of the buttons, of the events and of Lisp.  The image (Good) changes    *)
(* when one of these asks for a recalculation, and in a drawing; so it is  *)
(* shown once that every such request leaves a good image (MovesAreGood,   *)
(* ChangesAreGood), once that every drawing does, wherever it stops        *)
(* (DrawIsGood), and then that each action is made of these.               *)
(***************************************************************************)
EXTENDS View3D, TLAPS

ImageType == [moved : BOOLEAN, finishedList : BOOLEAN, firstTime : BOOLEAN,
              redoSmooth : BOOLEAN, redoColor : BOOLEAN, redoDither : BOOLEAN,
              multiColor : BOOLEAN, pixelSet : BOOLEAN, movingLight : BOOLEAN,
              otherLight : BOOLEAN, scanLeft : BOOLEAN, quickList : {"none", "owned", "freed", "corrupt"},
              stale : SUBSET Aspect]

(* The list of polygons is there or was never made. *)
ListThere(im) == im.quickList \in {"none", "owned"}

(* The image im is old although the windows m are shown. *)
Aged(im, m) == ~(im.stale \subseteq {"axes"} \cup (m \cap {"volume"}))

(* StaleIsFlagged, of the image im and the windows m. *)
Flagged(im, m) == Aged(im, m) => Redo(im)

-----------------------------------------------------------------------------
LEMMA ListOperations ==
  ASSUME NEW im \in ImageType
  PROVE  /\ CopyList(im) \in ImageType /\ FreeList(im) \in ImageType /\ UseList(im) \in ImageType
         /\ \A d \in {CopyList(im), FreeList(im), UseList(im)} :
               /\ d.stale = im.stale /\ d.moved = im.moved /\ d.firstTime = im.firstTime
               /\ d.finishedList = im.finishedList /\ d.redoSmooth = im.redoSmooth
               /\ d.scanLeft = im.scanLeft
         /\ ListThere(im) => ListThere(CopyList(im)) /\ UseList(im) = im
         /\ ListThere(im) => ListThere(CopyList(FreeList(im)))
BY DEF ImageType, CopyList, FreeList, UseList, ListThere

LEMMA ChangeColorMapKeeps ==
  ASSUME NEW im \in ImageType, NEW glossy \in BOOLEAN
  PROVE  LET d == ChangeColorMap(im, glossy)
         IN  /\ d \in ImageType
             /\ d.stale = im.stale /\ d.moved = im.moved /\ d.firstTime = im.firstTime
             /\ d.finishedList = im.finishedList /\ d.redoSmooth = im.redoSmooth
             /\ d.scanLeft = im.scanLeft /\ d.quickList = im.quickList
<1> DEFINE glossed == [im EXCEPT !.redoColor = FALSE, !.pixelSet = TRUE]
           plain == [im EXCEPT !.redoDither = FALSE]
           dithered == [plain EXCEPT !.pixelSet = FALSE, !.redoColor = FALSE, !.multiColor = TRUE]
           Same(d) == /\ d \in ImageType
                      /\ d.stale = im.stale /\ d.moved = im.moved /\ d.firstTime = im.firstTime
                      /\ d.finishedList = im.finishedList /\ d.redoSmooth = im.redoSmooth
                      /\ d.scanLeft = im.scanLeft /\ d.quickList = im.quickList
<1>1. Same(im) /\ Same(glossed) /\ Same(plain)
  BY DEF ImageType
<1> HIDE DEF plain
<1>2. Same(dithered)
  BY <1>1 DEF ImageType
<1> HIDE DEF glossed, dithered, Same
<1>3. ChangeColorMap(im, glossy) \in {im, glossed, plain, dithered}
  BY DEF ChangeColorMap, glossed, plain, dithered
<1>4. Same(ChangeColorMap(im, glossy))
  BY <1>1, <1>2, <1>3
<1> QED
  BY <1>4 DEF Same

(* A drawing of polygons never loses what it says of the stored image. *)
LEMMA DrawPolygonsKeeps ==
  ASSUME NEW im \in ImageType, NEW m, NEW st \in Stage \cup {"end"}
  PROVE  LET d == DrawPolygons(im, st)
         IN  /\ d \in ImageType
             /\ ListThere(im) => ListThere(d)
             /\ d.stale = im.stale
             /\ Flagged(im, m) => Flagged(d, m)
<1> DEFINE begun == [im EXCEPT !.moved = FALSE, !.redoSmooth = TRUE, !.firstTime = FALSE]
           list == CopyList(IF im.firstTime THEN im ELSE FreeList(im))
           copied == [list EXCEPT !.moved = FALSE, !.redoSmooth = TRUE, !.firstTime = FALSE]
           finished == [copied EXCEPT !.finishedList = st = "end"]
<1>1. /\ list \in ImageType /\ list.stale = im.stale
      /\ ListThere(im) => ListThere(list)
  BY ListOperations
<1>2. begun \in ImageType /\ begun.stale = im.stale /\ begun.redoSmooth = TRUE /\ begun.quickList = im.quickList
  BY DEF ImageType
<1> HIDE DEF list
<1>3. copied \in ImageType /\ copied.stale = im.stale /\ copied.redoSmooth = TRUE /\ copied.quickList = list.quickList
  BY <1>1 DEF ImageType
<1> HIDE DEF copied, begun
<1>4. finished \in ImageType /\ finished.stale = im.stale /\ finished.redoSmooth = TRUE /\ finished.quickList = list.quickList
  BY <1>3 DEF ImageType
<1> HIDE DEF finished
<1>5. DrawPolygons(im, st) \in {im, UseList(im), begun, copied, finished}
  BY DEF DrawPolygons, begun, copied, finished, list
<1>6. CASE DrawPolygons(im, st) \in {im, UseList(im)}
  BY <1>6, ListOperations DEF Flagged, Redo, Recalc, Aged
<1>7. CASE DrawPolygons(im, st) \in {begun, copied, finished}
  BY <1>7, <1>1, <1>2, <1>3, <1>4 DEF Flagged, Redo, ListThere
<1> QED
  BY <1>5, <1>6, <1>7

(***************************************************************************)
(* A drawing in the smooth style stopped at the scan lines, or finished in *)
(* the window, leaves an old image flagged; one in PostScript leaves the   *)
(* image as old as it was.                                                 *)
(***************************************************************************)
LEMMA DrawPhongKeeps ==
  ASSUME NEW im \in ImageType, NEW m, NEW st \in Stage \cup {"end"}, NEW glossy \in BOOLEAN, NEW ps \in BOOLEAN
  PROVE  LET d == DrawPhong(im, st, glossy, ps)
         IN  /\ d \in ImageType
             /\ st # "freed" /\ ListThere(im) => ListThere(d)
             /\ ~Aged(im, m) => ~Aged(d, m)
             /\ st \in {"drawing", "end"} /\ ~ps /\ Flagged(im, m) => Flagged(d, m)
<1> DEFINE Clear(i) == [i EXCEPT !.moved = FALSE, !.redoSmooth = FALSE, !.movingLight = FALSE]
           Done(i) == [i EXCEPT !.finishedList = ~i.scanLeft, !.firstTime = FALSE]
           freed == IF ~im.firstTime /\ ~im.scanLeft THEN FreeList(im) ELSE im
           list == CopyList(freed)
           colored(i) == ChangeColorMap(Clear(i), glossy)
           drawn == Done(ScanLines(colored(list), st))
           recolored == ScanLines(colored(UseList(im)), st)
           fresh == [drawn EXCEPT !.stale = {}]
<1>1. ASSUME NEW i \in ImageType
      PROVE  /\ Clear(i) \in ImageType /\ Clear(i).stale = i.stale /\ Clear(i).quickList = i.quickList
             /\ Clear(i).finishedList = i.finishedList /\ Clear(i).firstTime = i.firstTime
             /\ Clear(i).scanLeft = i.scanLeft
  BY <1>1 DEF ImageType
<1>2. ASSUME NEW i \in ImageType
      PROVE  /\ Done(i) \in ImageType /\ Done(i).stale = i.stale /\ Done(i).quickList = i.quickList
             /\ i.scanLeft => Done(i).finishedList = FALSE
  BY <1>2 DEF ImageType
<1>3. ASSUME NEW i \in ImageType
      PROVE  /\ ScanLines(i, st) \in ImageType /\ ScanLines(i, st).stale = i.stale
             /\ ScanLines(i, st).quickList = i.quickList
             /\ ScanLines(i, st).scanLeft = (st # "end")
             /\ ScanLines(i, st).finishedList = i.finishedList
  BY <1>3 DEF ImageType, ScanLines
<1> HIDE DEF Clear, Done
<1>4. ASSUME NEW i \in ImageType
      PROVE  /\ colored(i) \in ImageType /\ colored(i).stale = i.stale
             /\ colored(i).quickList = i.quickList /\ colored(i).finishedList = i.finishedList
  BY <1>1, <1>4, ChangeColorMapKeeps
<1> HIDE DEF colored
<1>5. /\ freed \in ImageType /\ list \in ImageType /\ UseList(im) \in ImageType
      /\ freed.stale = im.stale /\ list.stale = im.stale /\ UseList(im).stale = im.stale
      /\ ListThere(im) => ListThere(list) /\ ListThere(UseList(im))
  BY ListOperations
<1> HIDE DEF freed, list
<1>6. /\ drawn \in ImageType /\ drawn.stale = im.stale /\ drawn.quickList = list.quickList
      /\ st # "end" => drawn.finishedList = FALSE
  <2>1. /\ colored(list) \in ImageType /\ colored(list).stale = im.stale
        /\ colored(list).quickList = list.quickList
    BY <1>4, <1>5
  <2> DEFINE lined == ScanLines(colored(list), st)
  <2>2. /\ lined \in ImageType /\ lined.stale = im.stale /\ lined.quickList = list.quickList
        /\ lined.scanLeft = (st # "end")
    BY <1>3, <2>1
  <2> HIDE DEF lined
  <2>3. /\ Done(lined) \in ImageType /\ Done(lined).stale = im.stale
        /\ Done(lined).quickList = list.quickList
        /\ st # "end" => Done(lined).finishedList = FALSE
    BY <1>2, <2>2
  <2> QED
    BY <2>3 DEF lined
<1>7. /\ recolored \in ImageType /\ recolored.stale = im.stale /\ recolored.quickList = UseList(im).quickList
  BY <1>3, <1>4, <1>5
<1> HIDE DEF drawn, recolored
<1>8. fresh \in ImageType /\ fresh.stale = {} /\ fresh.quickList = drawn.quickList
  BY <1>6 DEF ImageType
<1> HIDE DEF fresh
<1>9. ASSUME NEW i \in ImageType
      PROVE  /\ Done(Clear(i)) \in ImageType /\ Done(Clear(i)).stale = i.stale
             /\ Done(Clear(i)).quickList = i.quickList
  <2>1. Clear(i) \in ImageType /\ Clear(i).stale = i.stale /\ Clear(i).quickList = i.quickList
    BY <1>1
  <2> QED
    BY <2>1, <1>2
<1>10. CASE ~Redo(im)
  <2>1. DrawPhong(im, st, glossy, ps) = IF im.redoColor \/ im.redoDither THEN recolored ELSE im
    BY <1>10 DEF DrawPhong, recolored, colored, Clear
  <2> QED
    BY <2>1, <1>5, <1>7, <1>10 DEF Flagged, Redo, Aged, ListThere
<1>11. CASE Redo(im)
  <2>1. CASE st = "start"
    <3>1. DrawPhong(im, st, glossy, ps) = Done(Clear(im))
      BY <1>11, <2>1 DEF DrawPhong, Done, Clear
    <3>2. Done(Clear(im)) \in ImageType /\ Done(Clear(im)).stale = im.stale /\ Done(Clear(im)).quickList = im.quickList
      BY <1>9, <1>5
    <3> QED
      BY <3>1, <3>2, <2>1 DEF Aged, ListThere
  <2>2. CASE st = "freed"
    <3>1. DrawPhong(im, st, glossy, ps) = Done(Clear(freed))
      BY <1>11, <2>2 DEF DrawPhong, Done, Clear, freed
    <3>2. Done(Clear(freed)) \in ImageType /\ Done(Clear(freed)).stale = im.stale
      BY <1>9, <1>5
    <3> QED
      BY <3>1, <3>2, <2>2 DEF Aged
  <2>3. CASE st = "copied"
    <3>1. DrawPhong(im, st, glossy, ps) = Done(Clear(list))
      BY <1>11, <2>3 DEF DrawPhong, Done, Clear, freed, list
    <3>2. /\ Done(Clear(list)) \in ImageType /\ Done(Clear(list)).stale = im.stale
          /\ Done(Clear(list)).quickList = list.quickList
      BY <1>9, <1>5
    <3> QED
      BY <3>1, <3>2, <2>3, <1>5 DEF Aged, ListThere
  <2>4. CASE st = "drawing"
    <3>1. DrawPhong(im, st, glossy, ps) = drawn
      BY <1>11, <2>4 DEF DrawPhong, drawn, colored, Done, Clear, freed, list
    <3> QED
      BY <3>1, <2>4, <1>5, <1>6 DEF Aged, ListThere, Flagged, Redo, Recalc
  <2>5. CASE st = "end"
    <3>1. DrawPhong(im, st, glossy, ps) = IF ps THEN drawn ELSE fresh
      BY <1>11, <2>5 DEF DrawPhong, fresh, drawn, colored, Done, Clear, freed, list
    <3> QED
      BY <3>1, <2>5, <1>5, <1>6, <1>8 DEF Aged, ListThere, Flagged, Redo
  <2> QED
    BY <2>1, <2>2, <2>3, <2>4, <2>5 DEF Stage
<1> QED
  BY <1>10, <1>11

-----------------------------------------------------------------------------
(***************************************************************************)
(* What holds of the image: its type; the list of polygons is there unless *)
(* a drawing may be interrupted just after freeing it; and an old image is *)
(* flagged if drawings are interrupted at the scan lines only.             *)
(***************************************************************************)
Good(im, m) ==
    /\ im \in ImageType
    /\ "freed" \notin Interrupts => ListThere(im)
    /\ Careful /\ Interrupts \subseteq {"drawing"} => Flagged(im, m)

(* Every change of the view that makes the image older sets a flag. *)
LEMMA MovesAreGood ==
  ASSUME NEW im, NEW m, Good(im, m), NEW b \in BOOLEAN
  PROVE  /\ Good(Moved(im), m)
         /\ Good([im EXCEPT !.moved = TRUE], m)
         /\ Good([Older(im, {"view"}) EXCEPT !.redoSmooth = TRUE], m)
         /\ Good([Older(im, {"view"}) EXCEPT !.firstTime = TRUE], m)
         /\ Good([im EXCEPT !.firstTime = TRUE], m)
         /\ Good([Older(im, {"view", "light"}) EXCEPT !.moved = @ \/ b, !.redoSmooth = TRUE,
                                                      !.otherLight = TRUE], m)
<1>1. im \in ImageType
  BY DEF Good
<1> DEFINE Same(d) == d \in ImageType /\ d.quickList = im.quickList
           old == Older(im, {"view"})
           dark == Older(im, {"view", "light"})
           moved == Moved(im)
<1>2. Same(old) /\ Same(dark) /\ dark.moved = im.moved
  BY <1>1 DEF ImageType, Older, Aspect
<1> HIDE DEF old, dark
<1>3. Same(moved) /\ moved.moved
  BY <1>1, <1>2 DEF Moved, ImageType, old
<1> HIDE DEF moved
<1>5. Same([im EXCEPT !.moved = TRUE]) /\ [im EXCEPT !.moved = TRUE].moved
  BY <1>1 DEF ImageType
<1>6. Same([old EXCEPT !.redoSmooth = TRUE]) /\ [old EXCEPT !.redoSmooth = TRUE].redoSmooth
  BY <1>2 DEF ImageType
<1>7. Same([old EXCEPT !.firstTime = TRUE]) /\ [old EXCEPT !.firstTime = TRUE].firstTime
  BY <1>2 DEF ImageType
<1>8. Same([im EXCEPT !.firstTime = TRUE]) /\ [im EXCEPT !.firstTime = TRUE].firstTime
  BY <1>1 DEF ImageType
<1>9. /\ Same([dark EXCEPT !.moved = @ \/ b, !.redoSmooth = TRUE, !.otherLight = TRUE])
      /\ [dark EXCEPT !.moved = @ \/ b, !.redoSmooth = TRUE, !.otherLight = TRUE].redoSmooth
  BY <1>2 DEF ImageType
<1>10. ASSUME NEW d, Same(d), d.moved \/ d.firstTime \/ d.redoSmooth
       PROVE  Good(d, m)
  BY <1>10 DEF Good, ListThere, Flagged, Redo, Recalc
<1> HIDE DEF Same
<1> QED
  BY <1>3, <1>5, <1>6, <1>7, <1>8, <1>9, <1>10 DEF old, dark, moved

(* The other changes make the image older only where StaleIsFlagged lets it be. *)
LEMMA ChangesAreGood ==
  ASSUME NEW im, NEW m, Good(im, m), NEW b \in BOOLEAN, NEW hue \in BOOLEAN, NEW dither \in BOOLEAN
  PROVE  /\ "volume" \in m => Good(Older(im, {"volume"}), m)
         /\ Good(Older(im, {"axes"}), m)
         /\ Good([im EXCEPT !.redoSmooth = TRUE], m)
         /\ Good([im EXCEPT !.otherLight = b], m)
         /\ Good([im EXCEPT !.movingLight = b], m)
         /\ Good([im EXCEPT !.movingLight = b, !.otherLight = TRUE], m)
         /\ Good(RedoColors(im, hue), m) /\ Good(NewHues(im, hue, dither), m)
<1>1. im \in ImageType
  BY DEF Good
<1> DEFINE Same(d) == /\ d \in ImageType /\ d.quickList = im.quickList
                      /\ d.moved = im.moved /\ d.firstTime = im.firstTime /\ d.finishedList = im.finishedList
                      /\ Aged(d, m) => Aged(im, m)
                      /\ im.redoSmooth => d.redoSmooth
<1>2. Same(Older(im, {"axes"})) /\ ("volume" \in m => Same(Older(im, {"volume"})))
  BY <1>1 DEF ImageType, Older, Aspect, Aged
<1>3. Same([im EXCEPT !.redoSmooth = TRUE]) /\ Same([im EXCEPT !.otherLight = b])
  BY <1>1 DEF ImageType, Aged
<1>4. Same([im EXCEPT !.movingLight = b]) /\ Same([im EXCEPT !.movingLight = b, !.otherLight = TRUE])
  BY <1>1 DEF ImageType, Aged
<1>5. Same(RedoColors(im, hue))
  BY <1>1 DEF RedoColors, ImageType, Aged
<1>6. Same(NewHues(im, hue, dither))
  <2>1. /\ Same([im EXCEPT !.redoColor = TRUE, !.redoDither = dither])
        /\ Same([im EXCEPT !.redoColor = FALSE, !.redoDither = TRUE])
    BY <1>1 DEF ImageType, Aged
  <2> HIDE DEF Same
  <2> QED
    BY <2>1 DEF NewHues
<1>7. ASSUME NEW d, Same(d)
      PROVE  Good(d, m)
  BY <1>7 DEF Good, ListThere, Flagged, Redo, Recalc
<1> HIDE DEF Same
<1> QED
  BY <1>2, <1>3, <1>4, <1>5, <1>6, <1>7

(* While a flag stands, the image may grow older in any respect. *)
LEMMA OlderIsGood ==
  ASSUME NEW im, NEW m, Good(im, m), NEW a \in SUBSET Aspect, Careful => Redo(im)
  PROVE  /\ Good(Older(im, a), m)
         /\ Good([Older(im, a) EXCEPT !.movingLight = TRUE, !.otherLight = TRUE], m)
<1> DEFINE old == Older(im, a)
           Same(d) == /\ d \in ImageType /\ d.quickList = im.quickList
                      /\ d.moved = im.moved /\ d.firstTime = im.firstTime /\ d.finishedList = im.finishedList
                      /\ d.redoSmooth = im.redoSmooth
<1>1. Same(old)
  BY DEF Good, ImageType, Older
<1> HIDE DEF old
<1>2. Same([old EXCEPT !.movingLight = TRUE, !.otherLight = TRUE])
  BY <1>1 DEF ImageType
<1>3. ASSUME NEW d, Same(d)
      PROVE  Good(d, m)
  BY <1>3 DEF Good, ListThere, Flagged, Redo, Recalc
<1> HIDE DEF Same
<1> QED
  BY <1>1, <1>2, <1>3 DEF old

(* A light is accepted with the flag that stands for it. *)
LEMMA LightIsGood ==
  ASSUME NEW im, NEW m, Good(im, m), NEW a \in SUBSET Aspect, NEW f \in BOOLEAN, NEW g \in BOOLEAN,
         Careful => a = {} \/ f \/ g
  PROVE  Good([Older(im, a) EXCEPT !.otherLight = FALSE, !.redoSmooth = @ \/ f \/ g], m)
<1> DEFINE old == Older(im, a)
           new == [old EXCEPT !.otherLight = FALSE, !.redoSmooth = @ \/ f \/ g]
<1>1. /\ old \in ImageType /\ old.quickList = im.quickList
      /\ old.moved = im.moved /\ old.firstTime = im.firstTime /\ old.finishedList = im.finishedList
      /\ old.redoSmooth = im.redoSmooth
      /\ old.stale = im.stale \cup a
  BY DEF Good, ImageType, Older
<1> HIDE DEF old
<1>2. /\ new \in ImageType /\ new.quickList = im.quickList
      /\ new.moved = im.moved /\ new.firstTime = im.firstTime /\ new.finishedList = im.finishedList
      /\ new.redoSmooth = (im.redoSmooth \/ f \/ g)
      /\ new.stale = im.stale \cup a
  BY <1>1 DEF ImageType
<1> HIDE DEF new
<1>3. Good(new, m)
  BY <1>2 DEF Good, ListThere, Flagged, Redo, Recalc, Aged
<1> QED
  BY <1>3 DEF new, old

(* What is good under the windows m is good when these change, unless volume closes. *)
LEMMA GoodLater ==
  ASSUME NEW im, NEW m, NEW n, Good(im, m),
         \/ "volume" \in m => "volume" \in n
         \/ Careful => Redo(im) \/ "volume" \notin im.stale
  PROVE  Good(im, n)
BY DEF Good, Flagged, Redo, Aged

LEMMA AxesAreGood ==
  ASSUME NEW im, NEW m, Good(im, m)
  PROVE  Good(RedoAxes(im), m)
<1>1. im.multiColor \in BOOLEAN
  BY DEF Good, ImageType
<1>2. Good(RedoColors(im, ~im.multiColor), m)
  BY <1>1, ChangesAreGood
<1> QED
  BY <1>2, ChangesAreGood DEF RedoAxes

LEMMA BWIsGood ==
  ASSUME NEW im, NEW m, Good(im, m), NEW hue \in BOOLEAN
  PROVE  Good([RedoColors(Older(im, {"view"}), hue) EXCEPT !.redoSmooth = TRUE], m)
<1> DEFINE old == Older(im, {"view"})
           redo == RedoColors(old, hue)
<1>1. old \in ImageType /\ old.quickList = im.quickList
  BY DEF Good, ImageType, Older, Aspect
<1> HIDE DEF old
<1>2. redo \in ImageType /\ redo.quickList = im.quickList
  BY <1>1 DEF RedoColors, ImageType
<1> HIDE DEF redo
<1>3. LET d == [redo EXCEPT !.redoSmooth = TRUE]
      IN  d \in ImageType /\ d.quickList = im.quickList /\ d.redoSmooth
  BY <1>2 DEF ImageType
<1>4. Good([redo EXCEPT !.redoSmooth = TRUE], m)
  BY <1>3 DEF Good, ListThere, Flagged, Redo
<1> QED
  BY <1>4 DEF redo, old

LEMMA DrawIsGood ==
  ASSUME NEW im, NEW m, Good(im, m), NEW sty \in Style, NEW pan, NEW glossy \in BOOLEAN,
         NEW stages \in SUBSET Interrupts, NEW d \in Draw(im, sty, pan, glossy, FALSE, stages)
  PROVE  Good(d, m)
<1>1. CASE d = im
  BY <1>1
<1>2. CASE d # im
  <2>1. PICK st \in stages \cup {"end"} : d = DrawComponents(im, sty, st, glossy, FALSE)
    BY <1>2 DEF Draw
  <2>2. /\ st \in Stage \cup {"end"}
        /\ "freed" \notin Interrupts => st # "freed"
        /\ Interrupts \subseteq {"drawing"} => st \in {"drawing", "end"}
    BY View3DAssumption
  <2>3. d \in {im, DrawPhong(im, st, glossy, FALSE), DrawPolygons(im, st)}
    BY <2>1 DEF DrawComponents
  <2>4. im \in ImageType
    BY DEF Good
  <2>5. Good(DrawPolygons(im, st), m)
    BY <2>2, <2>4, DrawPolygonsKeeps DEF Good
  <2>6. Good(DrawPhong(im, st, glossy, FALSE), m)
    BY <2>2, <2>4, DrawPhongKeeps DEF Good
  <2> QED
    BY <2>3, <2>5, <2>6
<1> QED
  BY <1>1, <1>2

(* PostScript, of an image that is up to date, keeps it so. *)
LEMMA PostScriptIsGood ==
  ASSUME Good(image, mapped), Careful => UpToDate, style \in Style, singleHue \in BOOLEAN, on["bwColor"] \in BOOLEAN,
         NEW d \in PostScript
  PROVE  Good(d, mapped)
<1>1. CASE d = image
  BY <1>1
<1>2. CASE d # image
  <2> DEFINE im == [image EXCEPT !.redoSmooth = TRUE]
             glossy == singleHue /\ ~on["bwColor"]
  <2>1. im \in ImageType /\ im.stale = image.stale /\ Good(im, mapped)
    <3>1. im \in ImageType /\ im.stale = image.stale
      BY DEF Good, ImageType
    <3>2. TRUE \in BOOLEAN
      OBVIOUS
    <3>3. Good(im, mapped)
      BY <3>2, ChangesAreGood
    <3> QED
      BY <3>1, <3>3
  <2> HIDE DEF im, glossy
  <2>2. d \in Draw(im, style, panel, glossy, TRUE, Interrupts)
    BY <1>2 DEF PostScript, im, glossy
  <2>3. CASE d = im
    BY <2>1, <2>3
  <2>4. CASE d # im
    <3>1. PICK st \in Interrupts \cup {"end"} : d = DrawComponents(im, style, st, glossy, TRUE)
      BY <2>2, <2>4 DEF Draw
    <3>2. st \in Stage \cup {"end"} /\ glossy \in BOOLEAN
      BY View3DAssumption DEF glossy
    <3>3. d \in {im, DrawPhong(im, st, glossy, TRUE), DrawPolygons(im, st)}
      BY <3>1 DEF DrawComponents
    <3>4. Good(DrawPolygons(im, st), mapped)
      BY <3>2, <2>1, DrawPolygonsKeeps DEF Good
    <3>5. Good(DrawPhong(im, st, glossy, TRUE), mapped)
      <4>1. Careful => ~Aged(im, mapped)
        BY <2>1 DEF UpToDate, Aged
      <4>2. "freed" \notin Interrupts => st # "freed"
        OBVIOUS
      <4> QED
        BY <4>1, <4>2, <3>2, <2>1, DrawPhongKeeps DEF Good, Flagged, Redo
    <3> QED
      BY <3>3, <3>4, <3>5, <2>1
  <2> QED
    BY <2>3, <2>4
<1> QED
  BY <1>1, <1>2

-----------------------------------------------------------------------------
(* The modes, the windows and the bounds. *)
ModeType ==
    /\ alive \in BOOLEAN /\ style \in Style
    /\ on \in [Toggle -> BOOLEAN] /\ lit \in [Toggle -> BOOLEAN]
    /\ haveControl \in BOOLEAN /\ panel \in Panel /\ mapped \subseteq SubWindow
    /\ saveFlag \in BOOLEAN /\ closing \in BOOLEAN /\ redrawView \in BOOLEAN /\ spadDraw \in BOOLEAN
    /\ perspective \in BOOLEAN /\ singleHue \in BOOLEAN /\ intensity \in BOOLEAN
    /\ steps \in 0..MaxSteps

ModeInv == ModeType /\ (Careful => ButtonsShowMode)

ViewInv == ModeInv /\ Good(image, mapped)

LEMMA ModeInit == Init => ModeInv
<1> SUFFICES ASSUME Init
             PROVE  ModeInv
  OBVIOUS
<1> USE View3DAssumption
<1>1. on = [t \in Toggle |-> t \in {"axesOnOff", "outlineOnOff", "originr"} \cup Axis]
  BY DEF Init
<1>2. lit = [t \in Toggle |-> IF haveControl THEN on[t] ELSE t \in {"originr"} \cup Axis]
  BY DEF Init
<1>3. on \in [Toggle -> BOOLEAN]
  BY <1>1
<1>4. haveControl => lit = on
  BY <1>2, <1>3
<1>5. lit \in [Toggle -> BOOLEAN]
  <2>1. CASE haveControl
    BY <2>1, <1>3, <1>4
  <2>2. CASE ~haveControl
    <3>1. lit = [t \in Toggle |-> t \in {"originr"} \cup Axis]
      BY <2>2, <1>2
    <3> QED
      BY <3>1
  <2> QED
    BY <2>1, <2>2
<1>6. style \in Style /\ steps \in 0 .. MaxSteps
  BY DEF Init
<1> HIDE View3DAssumption
<1>7. /\ alive \in BOOLEAN /\ haveControl \in BOOLEAN /\ panel \in Panel /\ mapped \subseteq SubWindow
      /\ saveFlag \in BOOLEAN /\ closing \in BOOLEAN /\ redrawView \in BOOLEAN /\ spadDraw \in BOOLEAN
      /\ perspective \in BOOLEAN /\ singleHue \in BOOLEAN /\ intensity \in BOOLEAN
  BY DEF Init, Panel
<1> QED
  BY <1>3, <1>4, <1>5, <1>6, <1>7 DEF ModeInv, ModeType, ButtonsShowMode

(* A button that turns a mode around is coloured like the mode. *)
LEMMA FlipKeeps ==
  ASSUME ModeInv, haveControl, NEW t \in Toggle, Flip(t)
  PROVE  /\ on' \in [Toggle -> BOOLEAN] /\ lit' \in [Toggle -> BOOLEAN]
         /\ Careful => lit' = on'
BY DEF ModeInv, ModeType, ButtonsShowMode, Flip

(* All buttons are drawn when the control panel is. *)
LEMMA DrawnKeeps ==
  ASSUME ModeInv, on' \in [Toggle -> BOOLEAN],
         IF haveControl THEN DrawControlPanel ELSE lit' = lit
  PROVE  lit' \in [Toggle -> BOOLEAN] /\ (haveControl => lit' = on')
BY DEF ModeInv, ModeType, DrawControlPanel

LEMMA StepCounts == ASSUME ModeInv, Step PROVE alive /\ steps' \in 0 .. MaxSteps
BY View3DAssumption DEF ModeInv, ModeType, Step

LEMMA ButtonModes ==
  ASSUME ModeInv, Button
  PROVE  ModeInv'
<1> USE DEF buttons, windows, scene
<1> DEFINE Bounded == steps' \in 0 .. MaxSteps
<1>0. Step => Bounded
  BY StepCounts
<1> HIDE DEF Bounded
<1>1. CASE HideControl
  BY <1>0, <1>1 DEF ModeInv, ModeType, ButtonsShowMode, HideControl, Press, Bounded
<1>2. CASE RegionButton
  <2>1. "region3D" \in Toggle
    BY DEF Toggle
  <2>2. on' \in [Toggle -> BOOLEAN] /\ lit' \in [Toggle -> BOOLEAN] /\ (Careful => lit' = on')
    BY <1>2, <2>1, FlipKeeps DEF RegionButton, Press
  <2> QED
    BY <1>0, <1>2, <2>2 DEF ModeInv, ModeType, ButtonsShowMode, RegionButton, Press, Bounded
<1>3. CASE BWButton
  <2>1. "bwColor" \in Toggle
    BY DEF Toggle
  <2>2. on' \in [Toggle -> BOOLEAN] /\ lit' \in [Toggle -> BOOLEAN] /\ (Careful => lit' = on')
    BY <1>3, <2>1, FlipKeeps DEF BWButton, Press
  <2> QED
    BY <1>0, <1>3, <2>2 DEF ModeInv, ModeType, ButtonsShowMode, BWButton, Press, Bounded
<1>4. CASE OutlineButton
  <2>1. "outlineOnOff" \in Toggle
    BY DEF Toggle
  <2>2. on' \in [Toggle -> BOOLEAN] /\ lit' \in [Toggle -> BOOLEAN] /\ (Careful => lit' = on')
    BY <1>4, <2>1, FlipKeeps DEF OutlineButton, Press
  <2> QED
    BY <1>0, <1>4, <2>2 DEF ModeInv, ModeType, ButtonsShowMode, OutlineButton, Press, Bounded
<1>5. CASE AxesButton
  <2>1. "axesOnOff" \in Toggle
    BY DEF Toggle
  <2>2. on' \in [Toggle -> BOOLEAN] /\ lit' \in [Toggle -> BOOLEAN] /\ (Careful => lit' = on')
    BY <1>5, <2>1, FlipKeeps DEF AxesButton, Press
  <2> QED
    BY <1>0, <1>5, <2>2 DEF ModeInv, ModeType, ButtonsShowMode, AxesButton, Press, Bounded
<1>6. ASSUME NEW a \in Axis, ZoomAxisButton(a)
      PROVE  ModeInv'
  <2>1. a \in Toggle
    BY DEF Toggle
  <2>2. on' \in [Toggle -> BOOLEAN] /\ lit' \in [Toggle -> BOOLEAN] /\ (Careful => lit' = on')
    BY <1>6, <2>1, FlipKeeps DEF ZoomAxisButton, Press
  <2> QED
    BY <1>0, <1>6, <2>2 DEF ModeInv, ModeType, ButtonsShowMode, ZoomAxisButton, Press, Bounded
<1>7. ASSUME NEW b \in {"originr", "objectr"}, RotateAboutButton(b)
      PROVE  ModeInv'
  <2>1. on' \in [Toggle -> BOOLEAN] /\ lit' \in [Toggle -> BOOLEAN] /\ (Careful => lit' = on')
    BY <1>7 DEF RotateAboutButton, Press, ModeInv, ModeType, ButtonsShowMode, Toggle
  <2> QED
    BY <1>0, <1>7, <2>1 DEF ModeInv, ModeType, ButtonsShowMode, RotateAboutButton, Press, Bounded
<1>8. CASE LightButton \/ VolumeButton
  <2>1. CASE LightButton
    BY <1>0, <2>1 DEF ModeInv, ModeType, ButtonsShowMode, LightButton, OpenPanel, Press, Panel, SubWindow, Bounded
  <2>2. CASE VolumeButton
    BY <1>0, <2>2 DEF ModeInv, ModeType, ButtonsShowMode, VolumeButton, OpenPanel, Press, Panel, SubWindow, Bounded
  <2> QED
    BY <1>8, <2>1, <2>2
<1>9. CASE VolumeReturn \/ VolumeAbort \/ LightReturn \/ LightAbort
  <2>1. CASE VolumeReturn
    BY <1>0, <2>1 DEF ModeInv, ModeType, ButtonsShowMode, VolumeReturn, ClosePanel, PressIn, Panel, Bounded
  <2>2. CASE VolumeAbort
    BY <1>0, <2>2 DEF ModeInv, ModeType, ButtonsShowMode, VolumeAbort, ClosePanel, PressIn, Panel, Bounded
  <2>3. CASE LightReturn
    <3>1. redrawView' \in BOOLEAN
      BY <2>3 DEF LightReturn
    <3> QED
      BY <1>0, <2>3, <3>1 DEF ModeInv, ModeType, ButtonsShowMode, LightReturn, ClosePanel, PressIn, Panel, Bounded
  <2>4. CASE LightAbort
    BY <1>0, <2>4 DEF ModeInv, ModeType, ButtonsShowMode, LightAbort, ClosePanel, PressIn, Panel, Bounded
  <2> QED
    BY <1>9, <2>1, <2>2, <2>3, <2>4
<1>10. CASE ResetButton
  <2>1. on' \in [Toggle -> BOOLEAN] /\ (IF haveControl THEN DrawControlPanel ELSE lit' = lit)
    BY <1>10 DEF ResetButton, Reset
  <2>2. lit' \in [Toggle -> BOOLEAN] /\ (haveControl => lit' = on')
    BY <2>1, DrawnKeeps
  <2> QED
    BY <1>0, <1>10, <2>1, <2>2 DEF ModeInv, ModeType, ButtonsShowMode, ResetButton, Reset, Press, Bounded
<1>11. ASSUME NEW s \in Style, StyleButton(s)
       PROVE  ModeInv'
  BY <1>0, <1>11 DEF ModeInv, ModeType, ButtonsShowMode, StyleButton, Press, Bounded
<1>12. CASE CloseAll \/ QuitReturn \/ QuitAbort \/ QuitConfirmed
  <2>1. CASE CloseAll
    BY <1>0, <2>1 DEF ModeInv, ModeType, ButtonsShowMode, CloseAll, Panel, SubWindow, Bounded
  <2>2. CASE QuitReturn
    BY <1>0, <2>2 DEF ModeInv, ModeType, ButtonsShowMode, QuitReturn, PressIn, Bounded
  <2>3. CASE QuitAbort
    BY <1>0, <2>3 DEF ModeInv, ModeType, ButtonsShowMode, QuitAbort, PressIn, Panel, Bounded
  <2>4. CASE QuitConfirmed
    BY <1>0, <2>4 DEF ModeInv, ModeType, ButtonsShowMode, QuitConfirmed, Goodbye, Bounded
  <2> QED
    BY <1>12, <2>1, <2>2, <2>3, <2>4
<1>13. CASE SaveButton \/ SaveExit \/ PSButton
  <2>1. CASE SaveButton
    BY <1>0, <2>1 DEF ModeInv, ModeType, ButtonsShowMode, SaveButton, Press, Panel, SubWindow, Bounded
  <2>2. CASE SaveExit
    BY <1>0, <2>2 DEF ModeInv, ModeType, ButtonsShowMode, SaveExit, PressInSave, PressIn, Panel, Bounded
  <2>3. CASE PSButton
    BY <1>0, <2>3 DEF ModeInv, ModeType, ButtonsShowMode, PSButton, PressInSave, PressIn, ImageOnly, Bounded
  <2> QED
    BY <1>13, <2>1, <2>2, <2>3
<1>14. CASE RotatePot \/ TranslatePot \/ PlaneButton
  <2>1. CASE RotatePot
    BY <1>0, <2>1 DEF ModeInv, ModeType, ButtonsShowMode, RotatePot, Turn, ImageOnly, Press, Bounded
  <2>2. CASE TranslatePot
    BY <1>0, <2>2 DEF ModeInv, ModeType, ButtonsShowMode, TranslatePot, Turn, ImageOnly, Press, Bounded
  <2>3. CASE PlaneButton
    BY <1>0, <2>3 DEF ModeInv, ModeType, ButtonsShowMode, PlaneButton, Turn, ImageOnly, Press, Bounded
  <2> QED
    BY <1>14, <2>1, <2>2, <2>3
<1>15. CASE ZoomPot
  BY <1>0, <1>15 DEF ModeInv, ModeType, ButtonsShowMode, ZoomPot, Turn, ImageOnly, Press, Bounded
<1>16. CASE LightMovePot \/ IntensityPot \/ ClipButton \/ PerspectiveButton
  <2>1. CASE LightMovePot
    BY <1>0, <2>1 DEF ModeInv, ModeType, ButtonsShowMode, LightMovePot, ImageOnly, PressIn, Bounded
  <2>2. CASE IntensityPot
    BY <1>0, <2>2 DEF ModeInv, ModeType, ButtonsShowMode, IntensityPot, PressIn, Bounded
  <2>3. CASE ClipButton
    BY <1>0, <2>3 DEF ModeInv, ModeType, ButtonsShowMode, ClipButton, ImageOnly, PressIn, Bounded
  <2>4. CASE PerspectiveButton
    BY <1>0, <2>4 DEF ModeInv, ModeType, ButtonsShowMode, PerspectiveButton, PressIn, Bounded
  <2> QED
    BY <1>16, <2>1, <2>2, <2>3, <2>4
<1>17. CASE FrustrumPot
  BY <1>0, <1>17 DEF ModeInv, ModeType, ButtonsShowMode, FrustrumPot, PressIn, Panel, Bounded
<1>18. ASSUME NEW hue \in BOOLEAN, ColorMap(hue)
       PROVE  ModeInv'
  BY <1>0, <1>18 DEF ModeInv, ModeType, ButtonsShowMode, ColorMap, Press, Bounded
<1> QED
  BY <1>1, <1>2, <1>3, <1>4, <1>5, <1>6, <1>7, <1>8, <1>9, <1>10, <1>11, <1>12, <1>13, <1>14, <1>15, <1>16,
     <1>17, <1>18 DEF Button

LEMMA EventModes ==
  ASSUME ModeInv, Event
  PROVE  ModeInv'
<1> USE DEF buttons, windows, scene
<1> DEFINE Bounded == steps' \in 0 .. MaxSteps
<1>0. Step => Bounded
  BY StepCounts
<1> HIDE DEF Bounded
<1>1. CASE ViewClick
  BY <1>0, <1>1 DEF ModeInv, ModeType, ButtonsShowMode, ViewClick, DrawControlPanel, Bounded
<1>2. CASE ExposeControl
  <2>1. lit' \in [Toggle -> BOOLEAN] /\ (haveControl => lit' = on')
    BY <1>2, DrawnKeeps DEF ExposeControl, ModeInv, ModeType
  <2> QED
    BY <1>0, <1>2, <2>1 DEF ModeInv, ModeType, ButtonsShowMode, ExposeControl, Bounded
<1>3. CASE ExposeVolume \/ WindowDeleted
  <2>1. CASE ExposeVolume
    BY <1>0, <2>1 DEF ModeInv, ModeType, ButtonsShowMode, ExposeVolume, Bounded
  <2>2. CASE WindowDeleted
    BY <1>0, <2>2 DEF ModeInv, ModeType, ButtonsShowMode, WindowDeleted, Goodbye, Bounded
  <2> QED
    BY <1>3, <2>1, <2>2
<1>4. ASSUME NEW resized \in BOOLEAN, ExposeView(resized)
      PROVE  ModeInv'
  BY <1>0, <1>4 DEF ModeInv, ModeType, ButtonsShowMode, ExposeView, Bounded
<1> QED
  BY <1>1, <1>2, <1>3, <1>4 DEF Event

LEMMA LispModes ==
  ASSUME ModeInv, Lisp
  PROVE  ModeInv'
<1> USE DEF buttons, windows, scene
<1> DEFINE Bounded == steps' \in 0 .. MaxSteps
<1>0. Step => Bounded
  BY StepCounts
<1> HIDE DEF Bounded
<1>1. ASSUME NEW im, NEW draw \in BOOLEAN, Then(im, draw)
      PROVE  spadDraw' \in BOOLEAN
  BY <1>1 DEF Then, ModeInv, ModeType
<1>2. CASE LispMove \/ LispUnflagged \/ LispResize \/ LispLight
  <2>1. spadDraw' \in BOOLEAN
    BY <1>1, <1>2 DEF LispMove, LispUnflagged, LispResize, LispLight
  <2>2. Step /\ LispImageOnly
    BY <1>2 DEF LispMove, LispUnflagged, LispResize, LispLight
  <2> QED
    BY <1>0, <2>1, <2>2 DEF ModeInv, ModeType, ButtonsShowMode, LispImageOnly, Bounded
<1>3. CASE LispDiagonals
  <2>1. on["outlineOnOff"] \in BOOLEAN
    BY DEF ModeInv, ModeType, Toggle
  <2>2. spadDraw' \in BOOLEAN
    BY <1>1, <1>3, <2>1 DEF LispDiagonals
  <2> QED
    BY <1>0, <1>3, <2>2 DEF ModeInv, ModeType, ButtonsShowMode, LispDiagonals, LispImageOnly, Bounded
<1>4. CASE LispTranslucence
  <2>1. spadDraw' \in BOOLEAN
    BY <1>1, <1>4 DEF LispTranslucence
  <2> QED
    BY <1>0, <1>4, <2>1 DEF ModeInv, ModeType, ButtonsShowMode, LispTranslucence, Bounded
<1>5. CASE LispReset
  <2>1. on' \in [Toggle -> BOOLEAN] /\ (IF haveControl THEN DrawControlPanel ELSE lit' = lit)
    BY <1>5 DEF LispReset, Reset
  <2>2. lit' \in [Toggle -> BOOLEAN] /\ (haveControl => lit' = on')
    BY <2>1, DrawnKeeps
  <2> QED
    BY <1>0, <1>5, <2>1, <2>2 DEF ModeInv, ModeType, ButtonsShowMode, LispReset, Reset, Bounded
<1>6. CASE LispWriteImage
  <2>1. on' \in [Toggle -> BOOLEAN]
    BY <1>6 DEF LispWriteImage, ModeInv, ModeType
  <2>2. style' \in Style
    BY <1>6 DEF LispWriteImage, ModeInv, ModeType, Style
  <2>3. Careful => ~haveControl'
    BY <1>6 DEF LispWriteImage
  <2> QED
    BY <1>0, <1>6, <2>1, <2>2, <2>3 DEF ModeInv, ModeType, ButtonsShowMode, LispWriteImage, Bounded
<1>7. CASE LispWritePS
  <2>1. spadDraw' \in BOOLEAN
    BY <1>1, <1>7 DEF LispWritePS
  <2> QED
    BY <1>0, <1>7, <2>1 DEF ModeInv, ModeType, ButtonsShowMode, LispWritePS, LispImageOnly, Bounded
<1>8. CASE LispClose
  BY <1>0, <1>8 DEF ModeInv, ModeType, ButtonsShowMode, LispClose, Goodbye, Bounded
<1>9. ASSUME NEW unit \in SUBSET Axis, LispZoomAxes(unit)
      PROVE  ModeInv'
  <2>1. on' \in [Toggle -> BOOLEAN]
    BY <1>9 DEF LispZoomAxes, ModeInv, ModeType
  <2>2. spadDraw' \in BOOLEAN
    BY <1>1, <1>9 DEF LispZoomAxes
  <2> QED
    BY <1>0, <1>9, <2>1, <2>2 DEF ModeInv, ModeType, ButtonsShowMode, LispZoomAxes, Bounded
<1>10. ASSUME NEW show \in BOOLEAN, LispControl(show)
       PROVE  ModeInv'
  <2>1. spadDraw' \in BOOLEAN
    BY <1>1, <1>10 DEF LispControl
  <2> QED
    BY <1>0, <1>10, <2>1 DEF ModeInv, ModeType, ButtonsShowMode, LispControl, DrawControlPanel, Bounded
<1>11. ASSUME NEW t \in Toggle, NEW value \in BOOLEAN, LispToggle(t, value), spadDraw' \in BOOLEAN
       PROVE  ModeInv'
  <2>1. on' \in [Toggle -> BOOLEAN] /\ (IF haveControl THEN DrawControlPanel ELSE lit' = lit)
    BY <1>11 DEF LispToggle, ModeInv, ModeType
  <2>2. lit' \in [Toggle -> BOOLEAN] /\ (haveControl => lit' = on')
    BY <2>1, DrawnKeeps
  <2> QED
    BY <1>0, <1>11, <2>1, <2>2 DEF ModeInv, ModeType, ButtonsShowMode, LispToggle, Bounded
<1>12. ASSUME NEW value \in BOOLEAN, LispAxes(value) \/ LispRegion(value) \/ LispOutline(value)
       PROVE  ModeInv'
  <2>1. {"axesOnOff", "region3D", "outlineOnOff"} \subseteq Toggle
    BY DEF Toggle
  <2>2. spadDraw' \in BOOLEAN
    BY <1>1, <1>12 DEF LispAxes, LispRegion, LispOutline
  <2> QED
    BY <1>11, <1>12, <2>1, <2>2 DEF LispAxes, LispRegion, LispOutline
<1>13. ASSUME NEW value \in BOOLEAN, LispPerspective(value) \/ LispColors(value)
       PROVE  ModeInv'
  <2>1. spadDraw' \in BOOLEAN
    BY <1>1, <1>13 DEF LispPerspective, LispColors
  <2>2. CASE LispPerspective(value)
    BY <1>0, <2>1, <2>2 DEF ModeInv, ModeType, ButtonsShowMode, LispPerspective, Bounded
  <2>3. CASE LispColors(value)
    BY <1>0, <2>1, <2>3 DEF ModeInv, ModeType, ButtonsShowMode, LispColors, Bounded
  <2> QED
    BY <1>13, <2>2, <2>3
<1>14. ASSUME NEW s \in Style, LispStyle(s)
       PROVE  ModeInv'
  <2>1. spadDraw' \in BOOLEAN
    BY <1>1, <1>14 DEF LispStyle
  <2> QED
    BY <1>0, <1>14, <2>1 DEF ModeInv, ModeType, ButtonsShowMode, LispStyle, Bounded
<1> QED
  BY <1>2, <1>3, <1>4, <1>5, <1>6, <1>7, <1>8, <1>9, <1>10, <1>12, <1>13, <1>14 DEF Lisp

-----------------------------------------------------------------------------
LEMMA ImageInit == Init => Good(image, mapped)
<1> SUFFICES ASSUME Init
             PROVE  Good(image, mapped)
  OBVIOUS
<1>1. singleHue \in BOOLEAN
  BY DEF Init
<1>2. image = [moved |-> TRUE, finishedList |-> FALSE, firstTime |-> TRUE,
               redoSmooth |-> FALSE, redoColor |-> singleHue, redoDither |-> FALSE,
               multiColor |-> ~singleHue, pixelSet |-> FALSE, movingLight |-> FALSE,
               otherLight |-> FALSE, scanLeft |-> FALSE, quickList |-> "none", stale |-> {"view"}]
  BY DEF Init
<1>3. image \in ImageType
  BY <1>1, <1>2 DEF ImageType, Aspect
<1> QED
  BY <1>2, <1>3 DEF Good, ListThere, Flagged, Redo, Recalc

(* A drawing in the window leaves the image as it should be. *)
LEMMA RedrawIsGood ==
  ASSUME NEW im, Good(im, mapped), ModeInv', Redraw(im)
  PROVE  Good(image', mapped)
<1>1. style' \in Style /\ singleHue' \in BOOLEAN /\ on'["bwColor"] \in BOOLEAN
  BY DEF ModeInv, ModeType, Toggle
<1> DEFINE glossy == singleHue' /\ ~on'["bwColor"]
<1>2. glossy \in BOOLEAN
  BY <1>1
<1>3. image' \in Draw(im, style', panel', glossy, FALSE, Interrupts)
  BY DEF Redraw
<1> HIDE DEF glossy
<1> QED
  BY <1>1, <1>2, <1>3, DrawIsGood

LEMMA ThenIsGood ==
  ASSUME NEW im, Good(im, mapped), ModeInv', NEW draw, Then(im, draw)
  PROVE  Good(image', mapped)
BY RedrawIsGood DEF Then

LEMMA PicturesAreGood ==
  ASSUME ViewInv, NEW d \in PostScript, Careful => UpToDate
  PROVE  Good(d, mapped)
<1>1. Good(image, mapped) /\ style \in Style /\ singleHue \in BOOLEAN /\ on["bwColor"] \in BOOLEAN
  BY DEF ViewInv, ModeInv, ModeType, Toggle
<1> QED
  BY <1>1, PostScriptIsGood

LEMMA ButtonImage ==
  ASSUME ViewInv, ModeInv', Button
  PROVE  Good(image', mapped)
<1>1. /\ Good(image, mapped) /\ Good(Moved(image), mapped) /\ Good([image EXCEPT !.moved = TRUE], mapped)
      /\ Good([Older(image, {"view"}) EXCEPT !.redoSmooth = TRUE], mapped)
      /\ \A b \in BOOLEAN :
            Good([Older(image, {"view", "light"}) EXCEPT !.moved = @ \/ b, !.redoSmooth = TRUE, !.otherLight = TRUE],
                 mapped)
  BY MovesAreGood DEF ViewInv
<1>2. /\ "volume" \in mapped => Good(Older(image, {"volume"}), mapped)
      /\ Good([image EXCEPT !.redoSmooth = TRUE], mapped)
      /\ \A b \in BOOLEAN : /\ Good([image EXCEPT !.movingLight = b], mapped)
                            /\ Good([image EXCEPT !.otherLight = b], mapped)
                            /\ Good([image EXCEPT !.movingLight = b, !.otherLight = TRUE], mapped)
      /\ \A hue \in BOOLEAN, dither \in BOOLEAN : Good(NewHues(image, hue, dither), mapped)
  BY ChangesAreGood DEF ViewInv
<1>3. Good(RedoAxes(image), mapped) /\ Good([RedoColors(Older(image, {"view"}), singleHue) EXCEPT !.redoSmooth = TRUE], mapped)
  BY AxesAreGood, BWIsGood DEF ViewInv, ModeInv, ModeType
<1>4. ASSUME NEW im, Good(im, mapped), Redraw(im)
      PROVE  Good(image', mapped)
  BY <1>4, RedrawIsGood
<1>5. CASE image' = image
  BY <1>1, <1>5
<1>6. CASE RegionButton
  BY <1>1, <1>4, <1>6 DEF RegionButton
<1>7. CASE BWButton
  BY <1>3, <1>4, <1>7 DEF BWButton
<1>8. CASE OutlineButton
  BY <1>1, <1>4, <1>8 DEF OutlineButton
<1>9. CASE AxesButton
  BY <1>3, <1>4, <1>9 DEF AxesButton
<1>10. CASE VolumeButton
  BY <1>1, <1>4, <1>10 DEF VolumeButton
<1>11. CASE VolumeReturn
  BY <1>2, <1>11 DEF VolumeReturn
<1>12. CASE LightReturn
  <2> DEFINE a == IF image.otherLight THEN {"light"} ELSE {}
  <2>1. /\ a \in SUBSET Aspect /\ image.movingLight \in BOOLEAN /\ intensity \in BOOLEAN
        /\ Careful => a = {} \/ image.movingLight \/ intensity
    BY <1>12 DEF LightReturn, Aspect, ViewInv, ModeInv, ModeType, Good, ImageType
  <2>2. image' = [Older(image, a) EXCEPT !.otherLight = FALSE, !.redoSmooth = @ \/ image.movingLight \/ intensity]
    BY <1>12 DEF LightReturn
  <2> HIDE DEF a
  <2> QED
    BY <1>1, <2>1, <2>2, LightIsGood
<1>13. CASE LightAbort \/ LightButton \/ IntensityPot
  BY <1>2, <1>13 DEF LightAbort, LightButton, IntensityPot
<1>14. CASE ResetButton
  BY <1>1, <1>4, <1>14 DEF ResetButton, Reset
<1>15. ASSUME NEW s \in Style, StyleButton(s)
       PROVE  Good(image', mapped)
  BY <1>1, <1>4, <1>15 DEF StyleButton
<1>16. CASE PSButton
  <2>1. image' \in PostScript /\ (Careful => UpToDate)
    BY <1>16 DEF PSButton
  <2> QED
    BY <2>1, PicturesAreGood
<1>17. CASE RotatePot \/ TranslatePot \/ PlaneButton
  BY <1>1, <1>4, <1>17 DEF RotatePot, TranslatePot, PlaneButton, Turn
<1>18. CASE ZoomPot
  BY <1>1, <1>4, <1>18 DEF ZoomPot, Turn
<1>19. CASE LightMovePot
  BY <1>2, <1>19 DEF LightMovePot
<1>20. CASE FrustrumPot
  BY <1>1, <1>2, <1>4, <1>20 DEF FrustrumPot, PressIn
<1>21. CASE ClipButton
  BY <1>1, <1>2, <1>4, <1>21 DEF ClipButton, PressIn
<1>22. CASE PerspectiveButton
  BY <1>1, <1>2, <1>4, <1>22 DEF PerspectiveButton, PressIn
<1>23. ASSUME NEW hue \in BOOLEAN, ColorMap(hue)
       PROVE  Good(image', mapped)
  BY <1>2, <1>23 DEF ColorMap
<1>24. CASE \/ HideControl \/ VolumeAbort \/ CloseAll \/ QuitReturn \/ QuitAbort \/ QuitConfirmed
            \/ SaveButton \/ SaveExit
  <2>1. image' = image
    BY <1>24 DEF HideControl, VolumeAbort, CloseAll, QuitReturn, QuitAbort, QuitConfirmed, Goodbye,
                 SaveButton, SaveExit
  <2> QED
    BY <1>5, <2>1
<1>25. ASSUME NEW t, ZoomAxisButton(t) \/ RotateAboutButton(t)
       PROVE  Good(image', mapped)
  <2>1. image' = image
    BY <1>25 DEF ZoomAxisButton, RotateAboutButton
  <2> QED
    BY <1>5, <2>1
<1> QED
  BY <1>6, <1>7, <1>8, <1>9, <1>10, <1>11, <1>12, <1>13, <1>14, <1>15, <1>16, <1>17, <1>18, <1>19, <1>20,
     <1>21, <1>22, <1>23, <1>24, <1>25 DEF Button

(* The image stays good when the windows change with it. *)
LEMMA ButtonWindows ==
  ASSUME ViewInv, Button, Good(image', mapped)
  PROVE  Good(image', mapped')
<1>1. Good(image, mapped) /\ image \in ImageType
  BY DEF ViewInv, Good
<1>2. CASE VolumeReturn
  <2>1. image' = [image EXCEPT !.redoSmooth = TRUE]
    BY <1>2 DEF VolumeReturn
  <2>2. Redo(image')
    BY <1>1, <2>1 DEF Redo, ImageType
  <2> QED
    BY <2>2, GoodLater
<1>3. CASE VolumeAbort
  <2>1. image' = image /\ (Careful => Redo(image) \/ "volume" \notin image.stale)
    BY <1>3 DEF VolumeAbort
  <2> QED
    BY <1>1, <2>1, GoodLater
<1>4. CASE ~VolumeReturn /\ ~VolumeAbort
  <2>1. "volume" \in mapped => "volume" \in mapped'
    BY <1>4 DEF Button, HideControl, RegionButton, BWButton, OutlineButton, AxesButton, ZoomAxisButton,
         RotateAboutButton, LightButton, VolumeButton, OpenPanel, LightReturn, LightAbort, ClosePanel, ResetButton,
         Reset, StyleButton, CloseAll, QuitReturn, QuitAbort, QuitConfirmed, Goodbye, SaveButton, SaveExit, PSButton,
         RotatePot, TranslatePot, PlaneButton, ZoomPot, Turn, LightMovePot, IntensityPot, FrustrumPot, ClipButton,
         PerspectiveButton, ColorMap, ImageOnly, windows
  <2> QED
    BY <2>1, GoodLater
<1> QED
  BY <1>2, <1>3, <1>4

LEMMA EventImage ==
  ASSUME ViewInv, ModeInv', Event
  PROVE  Good(image', mapped)
<1>1. Good(image, mapped) /\ Good([Older(image, {"view"}) EXCEPT !.redoSmooth = TRUE], mapped)
  BY MovesAreGood DEF ViewInv
<1>2. ASSUME NEW im, Good(im, mapped), Redraw(im)
      PROVE  Good(image', mapped)
  BY <1>2, RedrawIsGood
<1>3. CASE ViewClick
  BY <1>1, <1>3 DEF ViewClick
<1>4. CASE ExposeControl
  BY <1>1, <1>2, <1>4 DEF ExposeControl
<1>5. CASE ExposeVolume
  BY <1>1, <1>2, <1>5 DEF ExposeVolume
<1>6. CASE WindowDeleted
  BY <1>1, <1>6 DEF WindowDeleted, Goodbye
<1>7. ASSUME NEW resized \in BOOLEAN, ExposeView(resized)
      PROVE  Good(image', mapped)
  BY <1>1, <1>2, <1>7 DEF ExposeView
<1> QED
  BY <1>3, <1>4, <1>5, <1>6, <1>7 DEF Event

LEMMA LispImage ==
  ASSUME ViewInv, ModeInv', Lisp
  PROVE  Good(image', mapped)
<1>1. /\ Good(image, mapped) /\ Good(Moved(image), mapped)
      /\ Good([Older(image, {"view"}) EXCEPT !.redoSmooth = TRUE], mapped)
      /\ \A b \in BOOLEAN :
            Good([Older(image, {"view", "light"}) EXCEPT !.moved = @ \/ b, !.redoSmooth = TRUE, !.otherLight = TRUE],
                 mapped)
      /\ Good([Older(image, {"view"}) EXCEPT !.firstTime = TRUE], mapped)
  BY MovesAreGood DEF ViewInv
<1>2. /\ Good([image EXCEPT !.redoSmooth = TRUE], mapped)
      /\ \A hue \in BOOLEAN, dither \in BOOLEAN : Good(NewHues(image, hue, dither), mapped)
  BY ChangesAreGood DEF ViewInv
<1>3. Good(RedoAxes(image), mapped)
  BY AxesAreGood DEF ViewInv
<1>4. ASSUME NEW im, Good(im, mapped), NEW draw, Then(im, draw)
      PROVE  Good(image', mapped)
  BY <1>4, ThenIsGood
<1>5. CASE LispMove
  BY <1>1, <1>4, <1>5 DEF LispMove
<1>6. CASE LispUnflagged
  <2>1. PICK aspect \in {"view", "volume"} : Then(Older(image, {aspect}), TRUE)
    BY <1>6 DEF LispUnflagged
  <2>2. {aspect} \in SUBSET Aspect /\ (Careful => Redo(image))
    BY <1>6 DEF LispUnflagged, Aspect
  <2>3. Good(Older(image, {aspect}), mapped)
    BY <1>1, <2>2, OlderIsGood
  <2> QED
    BY <1>4, <2>1, <2>3
<1>7. CASE LispDiagonals
  BY <1>1, <1>4, <1>7 DEF LispDiagonals
<1>8. CASE LispResize
  BY <1>1, <1>4, <1>8 DEF LispResize
<1>9. CASE LispLight \/ LispTranslucence
  <2>1. {"light"} \in SUBSET Aspect /\ (Careful => Redo(image))
    BY <1>9 DEF LispLight, LispTranslucence, Aspect
  <2>2. /\ Good(Older(image, {"light"}), mapped)
        /\ Good([Older(image, {"light"}) EXCEPT !.movingLight = TRUE, !.otherLight = TRUE], mapped)
    BY <1>1, <2>1, OlderIsGood
  <2> QED
    BY <1>4, <1>9, <2>2 DEF LispLight, LispTranslucence
<1>11. CASE LispReset
  BY <1>1, <1>11, RedrawIsGood DEF LispReset, Reset
<1>12. CASE LispWriteImage
  <2>1. {} \subseteq Interrupts /\ Interrupts \subseteq Interrupts /\ FALSE \in BOOLEAN /\ style' \in Style
    BY DEF ModeInv, ModeType
  <2>2. PICK first \in Draw([Older(image, {"view"}) EXCEPT !.firstTime = TRUE], style', panel, FALSE, FALSE, {}) :
        \E second \in Draw([first EXCEPT !.firstTime = TRUE], style', panel, FALSE, FALSE, {}) :
           image' \in IF spadDraw THEN Draw(second, style', panel, FALSE, FALSE, Interrupts) ELSE {second}
    BY <1>12 DEF LispWriteImage
  <2>3. Good(first, mapped)
    BY <2>1, <1>1, DrawIsGood
  <2>4. Good([first EXCEPT !.firstTime = TRUE], mapped)
    BY <2>1, <2>3, MovesAreGood
  <2>5. PICK second \in Draw([first EXCEPT !.firstTime = TRUE], style', panel, FALSE, FALSE, {}) :
           image' \in IF spadDraw THEN Draw(second, style', panel, FALSE, FALSE, Interrupts) ELSE {second}
    BY <2>2
  <2>6. Good(second, mapped)
    BY <2>1, <2>4, DrawIsGood
  <2> QED
    BY <2>1, <2>5, <2>6, DrawIsGood
<1>13. CASE LispWritePS
  <2>1. PICK im \in PostScript : Then(im, FALSE)
    BY <1>13 DEF LispWritePS
  <2>2. Good(im, mapped)
    BY <1>13, PicturesAreGood DEF LispWritePS
  <2> QED
    BY <2>1, <2>2, <1>4
<1>14. CASE LispClose
  BY <1>1, <1>14 DEF LispClose, Goodbye
<1>15. ASSUME NEW unit \in SUBSET Axis, LispZoomAxes(unit)
       PROVE  Good(image', mapped)
  BY <1>1, <1>4, <1>15 DEF LispZoomAxes
<1>16. ASSUME NEW show \in BOOLEAN, LispControl(show)
       PROVE  Good(image', mapped)
  BY <1>1, <1>4, <1>16 DEF LispControl
<1>17. ASSUME NEW value \in BOOLEAN, LispAxes(value)
       PROVE  Good(image', mapped)
  BY <1>3, <1>4, <1>17 DEF LispAxes
<1>18. ASSUME NEW value \in BOOLEAN, LispRegion(value)
       PROVE  Good(image', mapped)
  BY <1>1, <1>4, <1>18 DEF LispRegion
<1>19. ASSUME NEW value \in BOOLEAN, LispOutline(value)
       PROVE  Good(image', mapped)
  BY <1>1, <1>4, <1>19 DEF LispOutline
<1>20. ASSUME NEW value \in BOOLEAN, LispPerspective(value)
       PROVE  Good(image', mapped)
  BY <1>1, <1>4, <1>20 DEF LispPerspective
<1>21. ASSUME NEW hue \in BOOLEAN, LispColors(hue)
       PROVE  Good(image', mapped)
  <2>1. image.redoDither \in BOOLEAN
    BY DEF ViewInv, Good, ImageType
  <2> QED
    BY <2>1, <1>2, <1>4, <1>21 DEF LispColors
<1>22. ASSUME NEW s \in Style, LispStyle(s)
       PROVE  Good(image', mapped)
  BY <1>2, <1>4, <1>22 DEF LispStyle
<1> QED
  BY <1>5, <1>6, <1>7, <1>8, <1>9, <1>11, <1>12, <1>13, <1>14, <1>15, <1>16, <1>17, <1>18, <1>19,
     <1>20, <1>21, <1>22 DEF Lisp

-----------------------------------------------------------------------------
LEMMA ViewStutter ==
  ASSUME ViewInv, UNCHANGED vars
  PROVE  ViewInv'
BY DEF ViewInv, ModeInv, ModeType, ButtonsShowMode, vars, buttons, windows, scene

LEMMA ViewInvariant == Spec => []ViewInv
<1>1. Init => ViewInv
  BY ModeInit, ImageInit DEF ViewInv
<1>2. ViewInv /\ Next => ViewInv'
  <2> SUFFICES ASSUME ViewInv, Next
               PROVE  ViewInv'
    OBVIOUS
  <2>1. ModeInv'
    BY ButtonModes, EventModes, LispModes DEF Next, ViewInv
  <2>2. Good(image', mapped')
    <3>1. Event \/ Lisp => mapped' = mapped
      BY DEF Event, ViewClick, ExposeControl, ExposeVolume, WindowDeleted, ExposeView, Goodbye, windows,
             Lisp, LispMove, LispUnflagged, LispDiagonals, LispResize, LispLight, LispTranslucence, LispReset, Reset,
             LispWriteImage, LispWritePS, LispClose, LispZoomAxes, LispControl, LispAxes, LispRegion, LispOutline,
             LispToggle, LispPerspective, LispColors, LispStyle, LispImageOnly
    <3> QED
      BY <2>1, <3>1, ButtonImage, ButtonWindows, EventImage, LispImage DEF Next
  <2> QED
    BY <2>1, <2>2 DEF ViewInv
<1>3. ViewInv /\ UNCHANGED vars => ViewInv'
  BY ViewStutter
<1> QED
  BY <1>1, <1>2, <1>3, PTL DEF Spec

(***************************************************************************)
(* Type correctness, for any axes, first styles, bounds and places where a *)
(* drawing may be interrupted (main3d.c, process3d.c, spadAction3d.c).     *)
(***************************************************************************)
THEOREM View3DTypeCorrect == Spec => []TypeOK
<1>1. ViewInv => TypeOK
  BY DEF ViewInv, ModeInv, ModeType, Good, ImageType, TypeOK
<1> QED
  BY <1>1, ViewInvariant, PTL

(***************************************************************************)
(* On a control panel that is shown every button has the colour of its     *)
(* mode, whoever changed it, if Lisp neither changes which axes are scaled *)
(* nor writes an image while the panel is shown.                           *)
(***************************************************************************)
THEOREM ButtonsShow == Careful => (Spec => []ButtonsShowMode)
<1> SUFFICES ASSUME Careful
             PROVE  Spec => []ButtonsShowMode
  OBVIOUS
<1>1. ViewInv => ButtonsShowMode
  BY DEF ViewInv, ModeInv
<1> QED
  BY <1>1, ViewInvariant, PTL

(***************************************************************************)
(* An interrupt after the free (smoothShade3d.c 918-920) and before the    *)
(* new copy (924) is the only one after which the list of polygons may be  *)
(* freed twice or used when freed (surface3d.c): without it, and with all  *)
(* the others, the list is sound.  The code does take events there.        *)
(***************************************************************************)
LEMMA ListIsSound == "freed" \notin Interrupts => (Spec => []ListSound)
<1> SUFFICES ASSUME "freed" \notin Interrupts
             PROVE  Spec => []ListSound
  OBVIOUS
<1>1. ViewInv => ListSound
  BY DEF ViewInv, Good, ListThere, ListSound
<1> QED
  BY <1>1, ViewInvariant, PTL

(***************************************************************************)
(* When the stored image of the smooth style is older than the view (but   *)
(* for the axes, and for the clipping while the volume window is open), a  *)
(* flag makes the next drawing in that style compute it again.  Two        *)
(* conditions, both of which the code lets one break: no event falls       *)
(* between the clearing of the flags (smoothShade3d.c 900) and the first   *)
(* scan line; and Careful, by which Lisp's light, translucence, points and *)
(* clipping, an abort of the volume window and a light accepted late come  *)
(* only while a flag stands.  So no other operation and no interrupt at a  *)
(* scan line loses the need, for any bound on the operations.              *)
(***************************************************************************)
THEOREM StaleGetsFlagged == Careful /\ Interrupts \subseteq {"drawing"} => (Spec => []StaleIsFlagged)
<1> SUFFICES ASSUME Careful, Interrupts \subseteq {"drawing"}
             PROVE  Spec => []StaleIsFlagged
  OBVIOUS
<1>1. ViewInv => StaleIsFlagged
  BY DEF ViewInv, Good, Flagged, Aged, StaleIsFlagged
<1> QED
  BY <1>1, ViewInvariant, PTL
=============================================================================

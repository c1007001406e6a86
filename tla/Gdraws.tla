------------------------------- MODULE Gdraws -------------------------------
(***************************************************************************)
(* The drawing library of the viewport programs (src/graph/Gdraws).  The   *)
(* same call draws in the window or, with PSoption, appends a command to a *)
(* PostScript script; the printed file is put together from the procedures *)
(* that were used, the dictionary of the graphics contexts and the script. *)
(*                                                                         *)
(* A call is a record: the part of the file that has the procedure, the    *)
(* command, the graphics context or the colour, and what it draws (a name  *)
(* that stands for the coordinates and the text).  Perform carries it out. *)
(* Lengths, fonts and the scale of the page are left out.                  *)
(***************************************************************************)
EXTENDS Naturals, SequencesExt

(* Gdraws0.h: the parts of the file in the order in which they are copied. *)
Parts == << "header", "draw", "drawarc", "drawfilled", "drawcolor", "drawpoint", "fillpoly",
            "fillwol", "colorpoly", "colorwol", "drawline", "drawlines", "drawIstr", "drawstr",
            "drawrect", "fillarc", "setup", "GCdict", "script", "end" >>

Part == {Parts[i] : i \in DOMAIN Parts}
Procedure == {Parts[i] : i \in 2..16}

(* What the files of ps_files define. *)
Defines == [p \in Part |->
    CASE p = "header"    -> {"setForeground", "setBackground", "setLineAttributes", "setDim", "makeDict"}
      [] p = "draw"      -> {"psDraw"}
      [] p = "drawarc"   -> {"psDrawArc"}
      [] p = "drawfilled" -> {"psDrawFilled"}
      [] p = "drawcolor" -> {"psDrawColor"}
      [] p = "drawpoint" -> {"psDrawPoint"}
      [] p = "fillpoly"  -> {"psFillPoly"}
      [] p = "fillwol"   -> {"psFillwOutline"}
      [] p = "colorpoly" -> {"psColorPoly"}
      [] p = "colorwol"  -> {"psColorwOutline"}
      [] p = "drawline"  -> {"psDrawLine", "psColorLine"}
      [] p = "drawlines" -> {"psDrawLines"}
      [] p = "drawIstr"  -> {"psDrawIStr"}
      [] p = "drawstr"   -> {"psDrawStr"}
      [] p = "drawrect"  -> {"psDrawRect"}
      [] p = "fillarc"   -> {"psFillArc", "psColorFillArc"}
      [] OTHER           -> {}]

-----------------------------------------------------------------------------
(***************************************************************************)
(* The state: psInit; the parts flagged in psData; the contexts known by   *)
(* name (GChead: of two entries the first is found); the names defined in  *)
(* the dictionary file; the script.                                        *)
(***************************************************************************)
NoContexts == [g \in {} |-> ""]

(* PSGlobalInit: without the environment variable FRICAS nothing is set up. *)
PSGlobalInit(env) ==
    [psInit |-> env,
     flag |-> {"GCdict", "setup", "script", "end"} \cup (IF env THEN {"header"} ELSE {}),
     GChead |-> NoContexts, GCdict |-> {}, script |-> << >>]

PSCreateContext(ps, gc, name) ==
    [ps EXCEPT !.GChead = IF gc \in DOMAIN @ THEN @
                          ELSE [g \in DOMAIN @ \cup {gc} |-> IF g = gc THEN name ELSE @[g]],
               !.GCdict = @ \cup {name}]

PSfindGC(ps, gc) == IF gc \in DOMAIN ps.GChead THEN ps.GChead[gc] ELSE "(null)"

NoMark == << >>

Emit(ps, command, gc, ink, what) ==
    [ps EXCEPT !.script = Append(@, [do |-> command, gc |-> gc, ink |-> ink, what |-> what])]

Gdraws_setDimension(ps) == Emit([ps EXCEPT !.script = << >>], "setDim", "", "", NoMark)

(* PSInit, for every file: no procedure is used yet and the script is new. *)
PSInit(ps) == Gdraws_setDimension([ps EXCEPT !.flag = @ \ Procedure])

Gdraws_drawFrame(ps) ==
    LET framed == PSCreateContext(ps, "2", "frameDict")
    IN  Emit([framed EXCEPT !.flag = @ \cup {"drawIstr"}], "psDrawIStr", "frameDict", "", <<"title">>)

NoFile == [parts |-> {}, script |-> << >>, names |-> {}]

(***************************************************************************)
(* PSCreateFile: the flagged parts are copied in their order up to the     *)
(* first that is missing; only then is the script removed and the file     *)
(* reported as written.                                                    *)
(***************************************************************************)
PSCreateFile(ps, missing) ==
    LET framed == Gdraws_drawFrame(ps)
        Copied(i) == Parts[i] \in framed.flag /\ \A j \in 1..i : Parts[j] \in framed.flag => Parts[j] \notin missing
        parts == {Parts[i] : i \in {k \in DOMAIN Parts : Copied(k)}}
        whole == framed.flag \cap missing = {}
    IN  [ps |-> IF whole THEN [framed EXCEPT !.script = << >>] ELSE framed,
         done |-> whole,
         file |-> [parts |-> parts,
                   script |-> IF "script" \in parts THEN framed.script ELSE << >>,
                   names |-> IF "GCdict" \in parts THEN framed.GCdict ELSE {}]]

(* PSClose: the dictionary file is removed; GChead keeps what was freed. *)
PSClose(ps) == [ps EXCEPT !.GCdict = {}]

-----------------------------------------------------------------------------
(* The calls.  Those with a context draw in its foreground. *)
InContext(part, command, gc, what) ==
    [part |-> part, command |-> command, gc |-> gc, ink |-> "", what |-> what]

(* Those with a colour set it first; in the window it becomes the foreground of the context. *)
InColor(part, command, gc, ink, what) ==
    [part |-> part, command |-> command, gc |-> gc, ink |-> ink, what |-> what]

GSetForeground(gc, ink) == InColor("header", "setForeground", gc, ink, NoMark)
GSetLineAttributes(gc) == InContext("header", "setLineAttributes", gc, NoMark)

GDrawImageString(gc, what) == InContext("drawIstr", "psDrawIStr", gc, what)
GDrawLine(gc, what) == InContext("drawline", "psDrawLine", gc, what)
GColorLine(gc, ink, what) == InColor("drawline", "psColorLine", gc, ink, what)
(* The part of another procedure is flagged. *)
GDrawLines_Fault(gc, what) == InContext("drawline", "psDrawLines", gc, what)

GDrawLines(gc, what) == InContext("drawlines", "psDrawLines", gc, what)
GDrawPoint(gc, ink, what) == InColor("drawpoint", "psDrawPoint", gc, ink, what)
GDrawRectangle(gc, what) == InContext("drawrect", "psDrawRect", gc, what)
GDrawString(gc, what) == InContext("drawstr", "psDrawStr", gc, what)
GFillArc(gc, what) == InContext("fillarc", "psFillArc", gc, what)
GColorFillArc(gc, ink, what) == InColor("fillarc", "psColorFillArc", gc, ink, what)

(* Those of PostScript only. *)
PSColorPolygon(ink, what) == InColor("colorpoly", "psColorPoly", "", ink, what)
PSDrawColor(ink, what) == InColor("drawcolor", "psDrawColor", "", ink, what)
PSFillPolygon(gc, what) == InContext("fillpoly", "psFillPoly", gc, what)

-----------------------------------------------------------------------------
(***************************************************************************)
(* A canvas is the window (a set of marks, each with its ink), the         *)
(* foregrounds of the contexts in the window, and the PostScript state.    *)
(***************************************************************************)
Mark(what, ink) == [what |-> what, ink |-> ink]

InWindow(c, k) ==
    LET set == k.ink # "" /\ k.gc # "" /\ k.command # "setBackground"
        inks == IF set THEN [c.ink EXCEPT ![k.gc] = k.ink] ELSE c.ink
    IN  [c EXCEPT !.ink = inks,
                  !.window = IF k.what = NoMark THEN @ ELSE @ \cup {Mark(k.what, inks[k.gc])}]

OnPaper(c, k) ==
    LET used == [c.ps EXCEPT !.flag = @ \cup {k.part}]
        colored == k.part # "header" /\ k.ink # ""
        set == IF colored THEN Emit(used, "setrgbcolor", "", k.ink, NoMark) ELSE used
        name == IF colored THEN "" ELSE PSfindGC(c.ps, k.gc)
    IN  [c EXCEPT !.ps = Emit(set, k.command, name, IF colored THEN "" ELSE k.ink, k.what)]

Perform(c, dFlag, calls) ==
    FoldLeft(LAMBDA d, k : IF dFlag = "Xoption" THEN InWindow(d, k) ELSE OnPaper(d, k), c, calls)

-----------------------------------------------------------------------------
(***************************************************************************)
(* What a PostScript interpreter does with a file: it knows the commands   *)
(* of the parts and the contexts of the dictionary, keeps the foreground   *)
(* of each dictionary and the current colour.  A wash covers all of the    *)
(* page.                                                                   *)
(***************************************************************************)
(* The grey level a pixel number is taken for: BlackPixel is 0, all others count as white. *)
Grey(ink, inverse) ==
    CASE ink \in {"black", "shade"} -> ink
      [] ink = "fg" -> IF inverse THEN "white" ELSE "black"
      [] ink = "bg" -> IF inverse THEN "black" ELSE "white"
      [] OTHER -> "white"

Known(file) == {"setrgbcolor"} \cup UNION {Defines[p] : p \in file.parts}

Interpret(file, inverse) ==
    LET Run(s, k) ==
            IF k.do \notin Known(file) \/ k.gc \notin file.names \cup {""}
            THEN [s EXCEPT !.error = TRUE]
            ELSE IF k.do = "setrgbcolor" THEN [s EXCEPT !.color = k.ink]
            ELSE IF k.do = "setForeground" THEN [s EXCEPT !.fg[k.gc] = Grey(k.ink, inverse)]
            ELSE LET ink == IF k.gc = "" THEN s.color ELSE s.fg[k.gc]
                 IN  IF k.what = NoMark THEN s
                     ELSE IF k.what = <<"wash">> THEN [s EXCEPT !.page = ink, !.marks = {}]
                     ELSE [s EXCEPT !.marks = @ \cup {Mark(k.what, ink)}]
    IN  FoldLeft(Run, [error |-> "end" \notin file.parts, color |-> "black", page |-> "white",
                       fg |-> [n \in file.names |-> "black"], marks |-> {}], file.script)
=============================================================================

---------------------------- MODULE ViewFormats ----------------------------
(***************************************************************************)
(* The data of a viewport on its way: FriCAS to the viewport manager       *)
(* (view3D.spad, view2D.spad; make3D.c, make2D.c, makeGraph.c), the        *)
(* manager to the program (fun3D.c, fun2D.c; main3d.c, component3d.c,      *)
(* main2d.c, graph2d.c), the program to the files of write (write3d.c,     *)
(* write2d.c), the files to viewAlone and viewAlone to a new program       *)
(* (spoonComp.c, spoon2D.c).  Nothing on the way is tagged: each side has  *)
(* its own list of places in its own order.                                *)
(*                                                                         *)
(* A file or a stream is a sequence of values; a value that nothing        *)
(* computes with is named after its place.  A structure is a function from *)
(* places to values.  Coordinates and colours are in twelfths.             *)
(*                                                                         *)
(* A definition D_Fault that stands before a definition D is a faulty      *)
(* variant of D: it is used only to show that a property would notice.     *)
(***************************************************************************)
EXTENDS Integers, Sequences, SequencesExt

One == 12        \* 1.0, the axisLength of view3D

UpTo(n) == [i \in 1..n |-> i]
Rest(in, n) == SubSeq(in, n + 1, Len(in))
Put(d, places) == [i \in DOMAIN places |-> d[places[i]]]
Get(in, places) == [p \in ToSet(places) |-> in[CHOOSE i \in DOMAIN places : places[i] = p]] @@ << >>
PutEach(ds, places) == FlattenSeq([i \in DOMAIN ds |-> Put(ds[i], places)])
GetEach(in, n, places) ==
    FoldLeft(LAMBDA ds, i : Append(ds, Get(Rest(in, (i - 1) * Len(places)), places)), << >>, UpTo(n))
Abs(n) == IF n < 0 THEN -n ELSE n

-----------------------------------------------------------------------------
(***************************************************************************)
(* view3D: points, then components: lists of lists of indices.             *)
(***************************************************************************)
XYZC == <<"x", "y", "z", "c">>

PutList(l) == <<l.closed, l.solid, Len(l.indices)>> \o l.indices
PutComponent(c) ==
    <<c.closed, c.solid, Len(c.lists)>> \o FlattenSeq([i \in DOMAIN c.lists |-> PutList(c.lists[i])])
PutScene(points, components) ==
    <<Len(points)>> \o PutEach(points, XYZC)
        \o <<Len(components)>> \o FlattenSeq([i \in DOMAIN components |-> PutComponent(components[i])])

GetLists(in, n) ==
    FoldLeft(LAMBDA r, i : [lists |-> Append(r.lists, [closed |-> r.left[1], solid |-> r.left[2],
                                                       indices |-> SubSeq(r.left, 4, 3 + r.left[3])]),
                            left |-> Rest(r.left, 3 + r.left[3])],
             [lists |-> << >>, left |-> in], UpTo(n))

GetComponents(in) ==
    FoldLeft(LAMBDA r, i : LET ls == GetLists(Rest(r.left, 3), r.left[3])
                           IN  [components |-> Append(r.components, [closed |-> r.left[1], solid |-> r.left[2],
                                                                     lists |-> ls.lists]),
                                left |-> ls.left],
             [components |-> << >>, left |-> Tail(in)], UpTo(Head(in)))

GetScene(in) ==
    LET cs == GetComponents(Rest(in, 1 + 4 * Head(in)))
    IN  [points |-> GetEach(Tail(in), Head(in), XYZC), components |-> cs.components, left |-> cs.left]

(* makeViewport3D of view3D.spad. *)
Sent3D == <<"title", "deltaX", "deltaY", "scale", "scaleX", "scaleY", "scaleZ", "theta", "phi",
            "vX", "vY", "vW", "vH", "showCP", "style", "AxesOn", "diagonals", "outlineRenderOn",
            "box", "clipbox", "clipStuff", "hueOff", "numOfHues", "lightX", "lightY", "lightZ",
            "translucency", "perspective", "eyeDistance">>

Taken3D == <<"title", "deltaX", "deltaY", "scale", "scaleX", "scaleY", "scaleZ", "theta", "phi",
             "vX", "vY", "vW", "vH", "showCP", "style", "AxesOn", "diagonals", "outlineRenderOn",
             "box", "clipbox", "clipStuff", "hueOff", "numOfHues", "lightX", "lightY", "lightZ",
             "translucency", "perspective", "eyeDistance">>

Coordinates(points, axis) == {points[i][axis] : i \in DOMAIN points}

(* The ranges are those of the points; the colours become 0 to 1, or one half if they are all the same. *)
makeView3DFromSpadData(in) ==
    LET scene == GetScene(Rest(in, Len(Taken3D)))
        X == Coordinates(scene.points, "x")   Y == Coordinates(scene.points, "y")
        Z == Coordinates(scene.points, "z")   C == Coordinates(scene.points, "c")
        hue(c) == IF Max(C) = Min(C) THEN One \div 2 ELSE ((c - Min(C)) * One) \div (Max(C) - Min(C))
    IN  Get(in, Taken3D)
          @@ [typeOf3D |-> "view3D", scaleDown |-> TRUE,
              xmin |-> Min(X), xmax |-> Max(X), ymin |-> Min(Y), ymax |-> Max(Y), zmin |-> Min(Z), zmax |-> Max(Z),
              points |-> [i \in DOMAIN scene.points |-> [scene.points[i] EXCEPT !.c = hue(@)]],
              components |-> scene.components]

(* The manager to the program: whether it is alone, the structure as it stands, and what the structure points to. *)
forkView3D(d) == <<FALSE, d, d.title, d.lightX, d.lightY, d.lightZ>> \o PutScene(d.points, d.components)

(* FriCAS counts the points from one; a file has the numbers of the program. *)
readComponentsFromViewman(in, alone) ==
    LET scene == GetScene(in)
        base == IF alone THEN 0 ELSE 1
        rebased(l) == [l EXCEPT !.indices = [k \in DOMAIN @ |-> @[k] - base]]
    IN  [scene EXCEPT !.components =
             [i \in DOMAIN @ |-> [@[i] EXCEPT !.lists = [j \in DOMAIN @ |-> rebased(@[j])]]]]

(* The axis with the largest range is scaled to one, the others with it; a second time nothing changes. *)
scaleComponents(d) ==
    LET low(v) == IF v < -1000 * One THEN -1000 * One ELSE v
        high(v) == IF v > 1000 * One THEN 1000 * One ELSE v
        X == <<low(d.xmin), high(d.xmax)>>   Y == <<low(d.ymin), high(d.ymax)>>   Z == <<low(d.zmin), high(d.zmax)>>
        range(r) == r[2] - r[1]
        of == IF range(X) > range(Y) THEN IF range(X) > range(Z) THEN X ELSE Z
              ELSE IF range(Y) > range(Z) THEN Y ELSE Z
        scaled(v) == (v * One) \div Max({Abs(of[1]), Abs(of[2])})
    IN  [d EXCEPT !.xmin = scaled(X[1]), !.xmax = scaled(X[2]),
                  !.ymin = scaled(Y[1]), !.ymax = scaled(Y[2]),
                  !.zmin = scaled(Z[1]), !.zmax = scaled(Z[2]),
                  !.points = [i \in DOMAIN @ |-> [@[i] EXCEPT !.x = scaled(@), !.y = scaled(@), !.z = scaled(@)]]]

-----------------------------------------------------------------------------
(* The polygons: those of zero size are left out. *)
At(points, index) == points[index + 1]
samePoint(points, a, b) == \A axis \in {"x", "y", "z"} : At(points, a)[axis] = At(points, b)[axis]

makeTriangle(points, a, b, c) ==
    IF samePoint(points, a, b) \/ samePoint(points, b, c) \/ samePoint(points, c, a) THEN << >>
    ELSE <<[kind |-> "polygon", at |-> <<a, b, c>>]>>

Strip_Fault(points, u, l) ==
    FlattenSeq([i \in 1..(Min({Len(u), Len(l)}) - 1) |->
        makeTriangle(points, u[i + 1], u[i], l[i]) \o makeTriangle(points, l[i], l[i + 1], u[i + 1])])

(* Two lists: a triangle on a segment of the first, one on a segment of the second, in turns. *)
Strip(points, u, l) ==
    FlattenSeq([i \in 1..(Max({Len(u), Len(l)}) - 1) |->
        (IF i < Len(u) THEN makeTriangle(points, u[i + 1], u[i], l[Min({i, Len(l)})]) ELSE << >>)
            \o (IF i < Len(l) THEN makeTriangle(points, l[i], l[i + 1], u[Min({i + 1, Len(u)})]) ELSE << >>)])

(* One list: a point or a curve. *)
Flat(list) ==
    LET at == list.indices
    IN  IF Len(at) = 1 THEN <<[kind |-> "point", at |-> at]>>
        ELSE [k \in 1..(Len(at) - 1) |-> [kind |-> "line", at |-> <<at[k], at[k + 1]>>]]
                 \o (IF list.closed THEN <<[kind |-> "line", at |-> <<at[Len(at)], at[1]>>]>> ELSE << >>)

triangulate(points, components) ==
    LET Of(lists) ==
            IF Len(lists) > 1
            THEN FlattenSeq([j \in 1..(Len(lists) - 1) |-> Strip(points, lists[j].indices, lists[j + 1].indices)])
            ELSE IF Len(lists) = 1 THEN Flat(lists[1]) ELSE << >>
    IN  FlattenSeq([i \in DOMAIN components |-> Of(components[i].lists)])

(* The axes and the light are not those that were sent. *)
makeViewport(d) ==
    [haveControl |-> d.showCP, hueOffset |-> d.hueOff, numberOfHues |-> d.numOfHues, axesOn |-> TRUE,
     lightX |-> -(One \div 2), lightY |-> One \div 2, lightZ |-> One \div 2] @@ d

make3DComponents(d, scene) ==
    LET given == [d EXCEPT !.points = scene.points, !.components = scene.components]
        scaled == IF d.scaleDown THEN scaleComponents(given) ELSE given
    IN  makeViewport(scaled @@ [polygons |-> triangulate(scaled.points, scaled.components)])

(* view3D as it starts: its window. *)
StartView3D(in) ==
    LET scene == readComponentsFromViewman(Rest(in, 6), in[1])
        d == [in[2] EXCEPT !.title = in[3], !.lightX = in[4], !.lightY = in[5], !.lightZ = in[6], !.scaleDown = TRUE]
    IN  [window |-> [make3DComponents(d, scene) EXCEPT !.box = FALSE, !.clipStuff = TRUE], left |-> scene.left]

-----------------------------------------------------------------------------
(* The data file of view3D. *)
Written3D == <<"xmin", "xmax", "ymin", "ymax", "zmin", "zmax", "title",
               "deltaX", "deltaY", "scale", "scaleX", "scaleY", "scaleZ", "theta", "phi",
               "vX", "vY", "vW", "vH",
               "haveControl", "style", "axesOn", "hueOffset", "numberOfHues", "diagonals", "outlineRenderOn",
               "lightX", "lightY", "lightZ", "translucency", "perspective", "eyeDistance">>

Data3D(w) == <<w.typeOf3D>> \o Put(w, Written3D) \o PutScene(w.points, w.components)

Read3D == <<"xmin", "xmax", "ymin", "ymax", "zmin", "zmax", "title",
            "deltaX", "deltaY", "scale", "scaleX", "scaleY", "scaleZ", "theta", "phi",
            "vX", "vY", "vW", "vH",
            "showCP", "style", "AxesOn", "hueOff", "numOfHues", "diagonals", "outlineRenderOn",
            "lightX", "lightY", "lightZ", "translucency", "perspective", "eyeDistance">>

(* What the structure of viewAlone holds where the file has nothing: zero. *)
makeView3DFromFileData(file) ==
    LET scene == GetScene(Rest(file, 1 + Len(Read3D)))
    IN  Get(Tail(file), Read3D)
          @@ [typeOf3D |-> file[1], points |-> scene.points, components |-> scene.components,
              scaleDown |-> FALSE, box |-> FALSE, clipbox |-> FALSE, clipStuff |-> FALSE]

spoonView3D(d) == <<TRUE, d, d.title, d.lightX, d.lightY, d.lightZ>> \o PutScene(d.points, d.components)
=============================================================================

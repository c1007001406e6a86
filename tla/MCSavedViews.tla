---------------------------- MODULE MCSavedViews ----------------------------
(***************************************************************************)
(* A scene with a point, a closed curve and a surface of two      *)
(* lists of different length with a segment of no length; two slots with   *)
(* graphs and one without.                                                 *)
(***************************************************************************)
EXTENDS SavedViews

MCScene == <<"point", "line", "polygon", "surface">>
MCMissing == {{}, {"colorpoly", "drawcolor", "drawlines"}}

Point(x, y, z, c) == [x |-> x * One, y |-> y * One, z |-> z * One, c |-> c * One]
MCPoints == <<Point(-1, 0, 0, 1), Point(2, 0, 1, 2), Point(-1, 1, 0, 3), Point(2, 1, 3, 2)>>

List(closed, at) == [closed |-> closed, solid |-> FALSE, indices |-> at]
Component(lists) == [closed |-> FALSE, solid |-> FALSE, lists |-> lists]
MCComponents == <<Component(<<List(FALSE, <<1, 2>>), List(FALSE, <<3, 4, 4, 1>>)>>),
                  Component(<<List(FALSE, <<1>>)>>),
                  Component(<<List(TRUE, <<1, 2, 3>>)>>)>>

MCGraph(size, pc) ==
    [xmin |-> -size, xmax |-> size, ymin |-> 0, ymax |-> 3 * size, spadUnitX |-> 1, spadUnitY |-> 2,
     lists |-> <<[points |-> <<[x |-> 0, y |-> 0, hue |-> 3, shade |-> 2], [x |-> size, y |-> size, hue |-> 5, shade |-> 4]>>,
                  pointColor |-> pc, lineColor |-> pc + 1, pointSize |-> 3],
                 [points |-> <<[x |-> -size, y |-> size, hue |-> 1, shade |-> 1]>>,
                  pointColor |-> 7, lineColor |-> 8, pointSize |-> 2]>>]
MCGraphs == [k \in {1, 2} |-> MCGraph(6 * k, k)]
MCKeys == [i \in Slot |-> CASE i = 0 -> 2 [] i = 2 -> 1 [] OTHER -> 0]

MCLosses == {{}, {"data"}, {"image.xpm"}, {"image.bm", "image.ps"}}
MCOptions == {{}, {"pixmap", "bitmap", "postscript"}, {"image"}}
=============================================================================

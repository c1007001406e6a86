---------------------------- MODULE MCInputAreas ----------------------------
(***************************************************************************)
(* Rows of three characters: an area with a line of two rows and a short   *)
(* one beside an area of two characters; a line of three rows between      *)
(* others; an empty area beside a radio group with two ticks and a box.    *)
(***************************************************************************)
EXTENDS InputAreas

Input(size, text) == [size |-> size, text |-> text]
Box(group, picked) == [group |-> group, picked |-> picked]
Page(inputs, boxes) == [inputs |-> inputs, boxes |-> boxes]
MCPages == {
    Page(<<Input(3, <<"a", "b", "c", "d", NL, "e", "f">>), Input(2, <<"g">>)>>, << >>),
    Page(<<Input(3, <<"a", NL, "b", "c", "d", "e", "f", "g", "h", NL, "i">>)>>, << >>),
    Page(<<Input(3, << >>)>>, <<Box("r", TRUE), Box(NoGroup, FALSE), Box("r", TRUE), Box("r", FALSE)>>) }
MCPastes == {<<"x">>, <<"x", "y">>}
=============================================================================

-------------------------- MODULE MCSessionSystem --------------------------
(* The instances of SessionSystem that TLC checks. *)
EXTENDS SessionSystem

Calm     == {{}}
Ahead    == {{"typeahead"}}
WithMenu == {{"menu"}}
Wild     == {{"typeahead", "late", "menu"},
             {"typeahead", "late", "windowdies"},
             {"menu", "menudies"}}

WindowSymmetry == Permutations(Window)
=============================================================================

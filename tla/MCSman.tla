------------------------------- MODULE MCSman -------------------------------
(* The instances of Sman that TLC checks. *)
EXTENDS Sman

Typical  == {{"xclient", "viewman"}, {"client", "hypertex", "viewman"}}
NoOption == {{}}
=============================================================================

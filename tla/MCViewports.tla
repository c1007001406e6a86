----------------------------- MODULE MCViewports -----------------------------
(* Instances of Viewports for TLC; process ids and keys are small numbers. *)
EXTENDS Viewports

TwoViewports == {1, 2}
FirstViewport == {1}
OneViewport == {3}
NoViewport == {}
OneKey == {1}
TwoKeys == {1, 2}

=============================================================================

---------------------------- MODULE MCWorkspace ----------------------------
(* The instances of Workspace that TLC checks. *)
EXTENDS Workspace

Arguments == {-2, -1, 1, 2}
OneBack   == {-1}
TwoWays   == {-1, 1}
=============================================================================

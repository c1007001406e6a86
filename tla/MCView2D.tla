------------------------------ MODULE MCView2D ------------------------------
(***************************************************************************)
(* Instances of View2D for TLC.                                            *)
(***************************************************************************)
EXTENDS View2D

Axes == {"axesOnOff2D"}
=============================================================================

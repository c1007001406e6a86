------------------------------ MODULE MCView3D ------------------------------
(***************************************************************************)
(* Instances of View3D for TLC.                                            *)
(***************************************************************************)
EXTENDS View3D

OneAxis == {"zoomx"}
Smooth == {"smooth"}
AnyStage == Stage
WhileDrawing == {"drawing"}
=============================================================================

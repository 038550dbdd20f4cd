------------------------------ MODULE MCWindow ------------------------------
(* Module Window with the ratio of the code's constants kept:              *)
(* WindowRefill is half of LocalWindow, and a chunk fits in the other half.*)
EXTENDS Window
=============================================================================

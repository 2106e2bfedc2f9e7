------------------------------ MODULE MCInterp ------------------------------
(* Up to four activations, five input sources and every set of mishaps. *)
EXTENDS Interp
=============================================================================

------------------------------ MODULE MCEditor ------------------------------
(* ED on one file, two possible changes, no faults. *)
EXTENDS Editor
=============================================================================

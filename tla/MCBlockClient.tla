--------------------------- MODULE MCBlockClient ---------------------------
(* Two block files, two contents, nested LOADs, a program within the protocol. *)
EXTENDS BlockClient
=============================================================================

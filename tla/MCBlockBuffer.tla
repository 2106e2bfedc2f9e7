--------------------------- MODULE MCBlockBuffer ---------------------------
(* One block file of up to two blocks and LOADs nested twice.  Garbage stands *)
(* for every content no program wrote.                                        *)
EXTENDS BlockBuffer
=============================================================================

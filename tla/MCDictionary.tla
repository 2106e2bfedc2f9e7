---------------------------- MODULE MCDictionary ----------------------------
(* Two word lists and three words besides the system's own; seven cells, so  *)
(* that a definition with a quotation just fits.  The words' addresses are   *)
(* interchangeable.                                                          *)
EXTENDS Dictionary, TLC

Symmetry == Permutations(Addresses)
=============================================================================

---------------------------- MODULE MCJsStorage ----------------------------
(* Two local blocks and one web block; two buffers as in the source, or three. *)
EXTENDS JsStorage
=============================================================================

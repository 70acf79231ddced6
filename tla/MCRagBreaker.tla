----------------------------- MODULE MCRagBreaker -----------------------------
(* RagBreaker with a few worker threads and seconds. *)
EXTENDS RagBreaker, TLC
=============================================================================

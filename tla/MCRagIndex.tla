------------------------------ MODULE MCRagIndex ------------------------------
(* RagIndex with two ingesting threads and one that queries. *)
EXTENDS RagIndex, TLC
Symmetry == Permutations(Chunks) \cup Permutations(Ingesters)
=============================================================================

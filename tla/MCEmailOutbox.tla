--------------------------- MODULE MCEmailOutbox ----------------------------
(* TLC instances of EmailOutbox.                                           *)
EXTENDS EmailOutbox, TLC

Symmetry == Permutations(Entry) \union Permutations(Worker)
=============================================================================

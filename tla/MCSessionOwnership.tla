------------------------- MODULE MCSessionOwnership -------------------------
(* Three process incarnations: an owner, one that comes after it or beside  *)
(* it, and a third that observes both.                                      *)
EXTENDS SessionOwnership, TLC

Sym == Permutations(Proc) \cup Permutations(Session)
=============================================================================

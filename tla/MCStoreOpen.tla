---------------------------- MODULE MCStoreOpen ----------------------------
(* StoreOpen for TLC: callers are interchangeable.                         *)
EXTENDS StoreOpen, TLC

OpenerSymmetry == Permutations(Openers)
=============================================================================

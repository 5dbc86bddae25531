--------------------------- MODULE MCRootKeyVault ---------------------------
(* Identifiers of up to two bytes; commands on one data directory, or on two that share the keyring. *)
EXTENDS RootKeyVault, TLC

CONSTANTS p1, p2, k1, k2, k3, w1, w2

MCTexts == UNION {[1..n -> {1, 2}] : n \in 0..2}

AnyKeys == Permutations({k1, k2, k3}) \cup Permutations({w1, w2}) \cup Permutations({p1, p2})
=============================================================================

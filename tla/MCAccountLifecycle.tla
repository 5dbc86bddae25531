------------------------- MODULE MCAccountLifecycle -------------------------
(* AccountLifecycle for TLC: ids of one kind are interchangeable.           *)
EXTENDS AccountLifecycle, TLC

LifecycleSymmetry ==
    Permutations(Procs) \cup Permutations(Accounts) \cup Permutations(Subjects)

=============================================================================

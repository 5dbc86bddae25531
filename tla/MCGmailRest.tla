---------------------------- MODULE MCGmailRest ----------------------------
(* One mailbox of three messages, one of them with an identifier that is a path segment. *)
EXTENDS GmailRest, TLC

SubjectSymmetry == Permutations(Subjects)
=============================================================================

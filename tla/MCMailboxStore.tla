--------------------------- MODULE MCMailboxStore ---------------------------
(* Two messages received together; one is sent read or unread, the other found. *)
EXTENDS MailboxStore

IdentitySymmetry == Permutations(Identities)

MCTimes == {-1, 1}

MCEnvelopes ==
    {[id |-> 1, thread |-> "t1", received |-> 1, hits |-> FALSE, unread |-> TRUE],
     [id |-> 1, thread |-> "t1", received |-> 1, hits |-> FALSE, unread |-> FALSE],
     [id |-> 2, thread |-> "t1", received |-> 1, hits |-> TRUE, unread |-> TRUE]}
=============================================================================

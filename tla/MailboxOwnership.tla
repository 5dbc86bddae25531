-------------------------- MODULE MailboxOwnership --------------------------
(***************************************************************************)
(* What the identity gate and the identity fence promise together, without *)
(* saying how: the local mailbox of one account slot holds the mail of at  *)
(* most one Google identity at a time, and the slot changes hands only by  *)
(* a step that leaves nothing of the previous owner behind.                *)
(*                                                                         *)
(* GatedSync, where cycles read, decide, record, list, reconcile and cache *)
(* in separate steps, implements this specification.                       *)
(***************************************************************************)

CONSTANTS
    Subjects,    \* Google identities that may sign in to the slot
    Ids,         \* message identifiers
    NoIdentity   \* no identity recorded; also "no row" and "no body"

VARIABLES
    recorded,    \* the identity the slot belongs to
    owner,       \* whose envelope each message row holds
    body         \* whose content each message row holds

vars == <<recorded, owner, body>>

Empty == [m \in Ids |-> NoIdentity]

Init ==
    /\ recorded = NoIdentity
    /\ owner = Empty
    /\ body = Empty

\* The slot is taken, or passes to another identity: no mail survives.
Adopt(s) ==
    /\ recorded # s
    /\ recorded' = s
    /\ owner' = Empty
    /\ body' = Empty

\* The slot is given up: no mail survives.
Forget ==
    /\ recorded' = NoIdentity
    /\ owner' = Empty
    /\ body' = Empty

\* Mail is written or pruned. Every row and every content this leaves is
\* either one that was there or one of the recorded identity.
Deliver ==
    /\ recorded \in Subjects
    /\ owner' \in [Ids -> Subjects \cup {NoIdentity}]
    /\ body' \in [Ids -> Subjects \cup {NoIdentity}]
    /\ \A m \in Ids : owner'[m] \in {owner[m], recorded, NoIdentity}
    /\ \A m \in Ids : body'[m] \in {body[m], recorded, NoIdentity}
    /\ UNCHANGED recorded

Next == (\E s \in Subjects : Adopt(s)) \/ Forget \/ Deliver

Spec == Init /\ [][Next]_vars

=============================================================================

---------------------------- MODULE AccountStore ----------------------------
(***************************************************************************)
(* What SqlCipherMailboxStore::open promises, without files: an account's  *)
(* store is made under one key, may be given up and made again under       *)
(* another only as long as nobody was ever given it, and from then on is   *)
(* there for good, under its key, and given to whoever comes with it.      *)
(*                                                                         *)
(* StoreOpen, where an open is a sequence of changes to four directory     *)
(* entries that a crash may cut anywhere, implements this specification.   *)
(***************************************************************************)

CONSTANTS
    Openers,   \* callers of open
    Keys,      \* the keys they come with
    NoKey      \* the key of a store that is not there, or that nobody holds

VARIABLES
    content,   \* "absent", "unfinished", or "kept" for good
    storeKey,  \* the key the store is encrypted under
    held       \* the key with which each caller has the store open

vars == <<content, storeKey, held>>

Init ==
    /\ content = "absent"
    /\ storeKey = NoKey
    /\ held = [o \in Openers |-> NoKey]

\* A first call writes something that only its key reads.
Make(k) ==
    /\ content = "absent"
    /\ content' = "unfinished"
    /\ storeKey' = k
    /\ UNCHANGED held

\* The call failed and took back what it had made.
Discard ==
    /\ content = "unfinished"
    /\ content' = "absent"
    /\ storeKey' = NoKey
    /\ UNCHANGED held

\* The migration succeeded.
Keep ==
    /\ content = "unfinished"
    /\ content' = "kept"
    /\ UNCHANGED <<storeKey, held>>

\* A call succeeds, perhaps on what an interrupted call had all but finished:
\* the caller is given the store only with the key it is encrypted under.
HandOut(o) ==
    /\ content # "absent"
    /\ content' = "kept"
    /\ held' = [held EXCEPT ![o] = storeKey]
    /\ UNCHANGED storeKey

\* Connections end, one or all of them.
Release ==
    /\ \E S \in SUBSET Openers : held' = [o \in Openers |-> IF o \in S THEN NoKey ELSE held[o]]
    /\ UNCHANGED <<content, storeKey>>

Next ==
    \/ \E k \in Keys : Make(k)
    \/ Discard \/ Keep \/ Release
    \/ \E o \in Openers : HandOut(o)

Spec == Init /\ [][Next]_vars

=============================================================================

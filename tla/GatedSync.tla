----------------------------- MODULE GatedSync -----------------------------
(***************************************************************************)
(* gated_sync (adapters/sync-runtime/src/gate.rs): the account-identity    *)
(* gate followed by the bounded recent sync, run by several cycles over    *)
(* one store, with the store transactions each of them commits.            *)
(*                                                                         *)
(* The app runs one command at a time under an exclusive installation      *)
(* lock. What is modelled here is the defence the store keeps for when it  *)
(* is not so: the compare-and-set of the identity record and the identity  *)
(* fence inside every mailbox write. A transaction is one action; cycles   *)
(* interleave between transactions, and one may stop after any of them.    *)
(*                                                                         *)
(* Data: a subject stands for its salted hash (the hasher is injective);   *)
(* a row is its envelope's owner, its content's owner and its read mark.   *)
(* Message ids are numbers in recency order, the most recent the smallest. *)
(***************************************************************************)
EXTENDS Naturals, FiniteSets

CONSTANTS
    Subjects,      \* Google identities a cycle may hold a session for
    Cycles,        \* concurrent calls of gated_sync
    Ids,           \* message ids, in ORDER BY received_at DESC, message_id
    NoIdentity,    \* no identity recorded; no row; no content
    MaxAttempts,   \* MAX_GATE_ATTEMPTS
    KeepLimit,     \* SyncPolicy.keep_limit
    BodyLimit      \* SyncPolicy.full_body_limit

ASSUME IdsAssumption == Ids \subseteq Nat /\ IsFiniteSet(Ids)
ASSUME LimitsAssumption ==
    /\ MaxAttempts \in Nat \ {0}
    /\ KeepLimit \in Nat \ {0}
    /\ BodyLimit \in Nat
ASSUME NoIdentityIsNone == NoIdentity \notin Subjects

VARIABLES
    recorded,   \* account_identity.identity_hash of the slot
    owner,      \* whose envelope the row of a message holds
    body,       \* whose content the row of a message holds
    read,       \* messages whose row says unread = 0
    pc,         \* where each cycle is
    subject,    \* the subject of each cycle's session, hence its fence
    stored,     \* what each cycle's gate last read
    attempts,   \* attempts of the gate that lost the race
    pending,    \* survivors whose body the cycle has yet to request
    races       \* identity changes by others since the cycle began (ghost,
                \* no further than MaxAttempts)

store == <<recorded, owner, body, read>>
local == <<pc, subject, stored, attempts, pending>>
vars == <<recorded, owner, body, read, pc, subject, stored, attempts,
          pending, races>>

Gate == {"load", "record"}
Sync == {"reconcile", "bodies"}
Ended == {"idle", "exhausted"}

Holder == Subjects \cup {NoIdentity}

TypeOK ==
    /\ recorded \in Holder
    /\ owner \in [Ids -> Holder]
    /\ body \in [Ids -> Holder]
    /\ read \subseteq Ids
    /\ pc \in [Cycles -> Gate \cup Sync \cup Ended]
    /\ subject \in [Cycles -> Holder]
    /\ stored \in [Cycles -> Holder]
    /\ attempts \in [Cycles -> 0 .. (MaxAttempts - 1)]
    /\ pending \in [Cycles -> SUBSET Ids]
    /\ races \in [Cycles -> 0 .. MaxAttempts]

Empty == [m \in Ids |-> NoIdentity]
Present == {m \in Ids : owner[m] # NoIdentity}

\* (mutant of KeepNewest: one row too many)
KeepOneMore(S) == {m \in S : Cardinality({n \in S : n < m}) <= KeepLimit}

\* The rows a prune keeps: those with fewer than KeepLimit more recent ones.
KeepNewest(S) == {m \in S : Cardinality({n \in S : n < m}) < KeepLimit}

Init ==
    /\ recorded = NoIdentity
    /\ owner = Empty
    /\ body = Empty
    /\ read = {}
    /\ pc = [c \in Cycles |-> "idle"]
    /\ subject = [c \in Cycles |-> NoIdentity]
    /\ stored = [c \in Cycles |-> NoIdentity]
    /\ attempts = [c \in Cycles |-> 0]
    /\ pending = [c \in Cycles |-> {}]
    /\ races = [c \in Cycles |-> 0]

-----------------------------------------------------------------------------
(* The gate: read, decide, compare-and-set, retried on a lost race.        *)

\* The call returns, or is gone: its locals with it.
End(c, how) ==
    /\ pc' = [pc EXCEPT ![c] = how]
    /\ subject' = [subject EXCEPT ![c] = NoIdentity]
    /\ stored' = [stored EXCEPT ![c] = NoIdentity]
    /\ attempts' = [attempts EXCEPT ![c] = 0]
    /\ pending' = [pending EXCEPT ![c] = {}]
    /\ races' = IF how = "exhausted" THEN races ELSE [races EXCEPT ![c] = 0]

\* gated_sync is called with a session of subject s.
Begin(c, s) ==
    /\ pc[c] \in Ended
    /\ pc' = [pc EXCEPT ![c] = "load"]
    /\ subject' = [subject EXCEPT ![c] = s]
    /\ races' = [races EXCEPT ![c] = 0]
    /\ UNCHANGED <<store, stored, attempts, pending>>

\* (mutant of Decide: a reconnect of the same account is not recognised)
DecideNoMatch(was, fresh) ==
    IF was = NoIdentity THEN "FirstRecord" ELSE "ClearAndRecord"

Decide(was, fresh) ==
    IF was = NoIdentity THEN "FirstRecord"
    ELSE IF was = fresh THEN "Match" ELSE "ClearAndRecord"

\* load_identity, then decide: a match ends the gate without a write.
LoadIdentity(c) ==
    /\ pc[c] = "load"
    /\ stored' = [stored EXCEPT ![c] = recorded]
    /\ pc' = [pc EXCEPT ![c] = IF Decide(recorded, subject[c]) = "Match"
                               THEN "reconcile" ELSE "record"]
    /\ UNCHANGED <<store, subject, attempts, pending, races>>

\* Every other gate that is running has now one more race to account for.
CountRace(c) ==
    races' = [d \in Cycles |-> IF d # c /\ pc[d] \in Gate
                                  /\ races[d] < MaxAttempts
                               THEN races[d] + 1 ELSE races[d]]

\* (mutant of IdentityMatchesExpected: the record does not compare)
RecordBlindly(c) == TRUE

\* The compare-and-set of the identity transaction.
IdentityMatchesExpected(c) == recorded = stored[c]

\* reconcile_identity commits: the identity, and with it the clear.
RecordIdentity(c) ==
    /\ pc[c] = "record"
    /\ IdentityMatchesExpected(c)
    /\ recorded' = subject[c]
    /\ IF Decide(stored[c], subject[c]) = "ClearAndRecord"
       THEN owner' = Empty /\ body' = Empty /\ read' = {}
       ELSE UNCHANGED <<owner, body, read>>
    /\ pc' = [pc EXCEPT ![c] = "reconcile"]
    /\ CountRace(c)
    /\ UNCHANGED <<subject, stored, attempts, pending>>

\* (mutant of OutOfAttempts: one attempt fewer)
OutOfAttemptsEarly(c) == attempts[c] + 2 >= MaxAttempts

OutOfAttempts(c) == attempts[c] + 1 = MaxAttempts

\* (mutant of LoseRace: the lost attempt is not counted)
LoseRaceUncounted(c) ==
    /\ pc[c] = "record"
    /\ ~IdentityMatchesExpected(c)
    /\ pc' = [pc EXCEPT ![c] = "load"]
    /\ UNCHANGED <<store, subject, stored, attempts, pending, races>>

\* reconcile_identity returns IdentityRaced: read again, or fail closed.
LoseRace(c) ==
    /\ pc[c] = "record"
    /\ ~IdentityMatchesExpected(c)
    /\ IF OutOfAttempts(c)
       THEN End(c, "exhausted")
       ELSE /\ attempts' = [attempts EXCEPT ![c] = @ + 1]
            /\ pc' = [pc EXCEPT ![c] = "load"]
            /\ UNCHANGED <<subject, stored, pending, races>>
    /\ UNCHANGED store

-----------------------------------------------------------------------------
(* The sync the gate guards. Listing and fetching read nothing local, so   *)
(* each is one with the transaction that applies what it returned.         *)

\* The identity fence, read inside each mailbox write.
IdentityUnchanged(c) == recorded = subject[c]

\* The rows that remain of the listing and of what was there.
Kept(listed) == KeepNewest(Present \cup listed)

\* (mutant of ReadAfter: the listing's read mark replaces the local one)
ReadAsListed(listed, unread) ==
    Kept(listed) \cap ((read \ listed) \cup (listed \ unread))

\* write_envelope: a row that is read stays read.
ReadAfter(listed, unread) ==
    Kept(listed) \cap (read \cup (listed \ unread))

\* reconcile_recent_envelopes: upsert the listed envelopes, then prune. The
\* content of a row survives its envelope, and so does its read mark.
ApplyListing(s, listed, unread) ==
    /\ owner' = [m \in Ids |-> IF m \notin Kept(listed) THEN NoIdentity
                               ELSE IF m \in listed THEN s ELSE owner[m]]
    /\ body' = [m \in Ids |-> IF m \in Kept(listed) THEN body[m]
                              ELSE NoIdentity]
    /\ read' = ReadAfter(listed, unread)

\* The choices of BodyLimit survivors, or of all when there are fewer.
FirstSurvivors(survivors) ==
    {f \in SUBSET survivors :
        /\ Cardinality(f) <= BodyLimit
        /\ Cardinality(f) = BodyLimit \/ f = survivors}

\* sync_recent lists at most KeepLimit envelopes and reconciles the store
\* with them, all or nothing; the bodies of the first survivors follow.
Reconcile(c) ==
    /\ pc[c] = "reconcile"
    /\ IdentityUnchanged(c)
    /\ \E listed, unread \in SUBSET Ids :
         /\ Cardinality(listed) <= KeepLimit
         /\ unread \subseteq listed
         /\ ApplyListing(subject[c], listed, unread)
         /\ \E first \in FirstSurvivors(listed \cap Kept(listed)) :
              pending' = [pending EXCEPT ![c] = first]
    /\ pc' = [pc EXCEPT ![c] = "bodies"]
    /\ UNCHANGED <<recorded, subject, stored, attempts, races>>

\* One requested body arrives and is cached if its row is still there.
CacheBody(c) ==
    /\ pc[c] = "bodies"
    /\ IdentityUnchanged(c)
    /\ \E m \in pending[c] :
         /\ IF m \in Present
            THEN /\ owner' = [owner EXCEPT ![m] = subject[c]]
                 /\ body' = [body EXCEPT ![m] = subject[c]]
                 /\ \/ UNCHANGED read
                    \/ read' = read \cup {m}
            ELSE UNCHANGED <<owner, body, read>>
         /\ pending' = [pending EXCEPT ![c] = @ \ {m}]
    /\ UNCHANGED <<recorded, pc, subject, stored, attempts, races>>

\* The message is gone from Gmail: its body is skipped.
SkipBody(c) ==
    /\ pc[c] = "bodies"
    /\ \E m \in pending[c] : pending' = [pending EXCEPT ![c] = @ \ {m}]
    /\ UNCHANGED <<store, pc, subject, stored, attempts, races>>

Finish(c) ==
    /\ pc[c] = "bodies"
    /\ pending[c] = {}
    /\ End(c, "idle")
    /\ UNCHANGED store

\* A write met IdentityChanged and rolled back.
Fenced(c) ==
    /\ \/ pc[c] = "reconcile"
       \/ pc[c] = "bodies" /\ pending[c] # {}
    /\ ~IdentityUnchanged(c)
    /\ End(c, "idle")
    /\ UNCHANGED store

\* Any other error of a port, the future dropped, or the process gone: the
\* transaction under way, if any, rolls back.
Fail(c) ==
    /\ pc[c] \in Gate \cup Sync
    /\ End(c, "idle")
    /\ UNCHANGED store

-----------------------------------------------------------------------------
(* What else writes the store: the reader marks mail read, and the purge   *)
(* of local mailbox data clears the slot.                                  *)

MarkRead ==
    /\ \E m \in Present : read' = read \cup {m}
    /\ UNCHANGED <<recorded, owner, body, local, races>>

Purge ==
    /\ recorded' = NoIdentity
    /\ owner' = Empty
    /\ body' = Empty
    /\ read' = {}
    /\ races' = [d \in Cycles |-> IF pc[d] \in Gate /\ races[d] < MaxAttempts
                                  THEN races[d] + 1 ELSE races[d]]
    /\ UNCHANGED local

Progress(c) ==
    \/ LoadIdentity(c) \/ RecordIdentity(c) \/ LoseRace(c)
    \/ Reconcile(c) \/ CacheBody(c) \/ SkipBody(c) \/ Finish(c)
    \/ Fenced(c) \/ Fail(c)

Next ==
    \/ \E c \in Cycles : \E s \in Subjects : Begin(c, s)
    \/ \E c \in Cycles : Progress(c)
    \/ MarkRead
    \/ Purge

Spec == Init /\ [][Next]_vars

\* A future that is polled goes on: every await ends, in a result or in an
\* error. Nothing obliges anybody to begin a cycle, to read or to purge.
FairSpec == Spec /\ \A c \in Cycles : WF_vars(Progress(c))

-----------------------------------------------------------------------------
(* Properties.                                                             *)

\* Every row and every content in the store is of the recorded identity:
\* two accounts' mail never coexist, and no mail is there without an
\* identity, whatever cycles overlap (gate.rs, "messages present but
\* identity absent" is unreachable).
OneOwner ==
    \A m \in Ids : /\ owner[m] \in {NoIdentity, recorded}
                   /\ body[m] \in {NoIdentity, owner[m]}

\* The store never holds more rows than the retention limit, although
\* bodies are cached after the reconcile that pruned (sync.rs, keep_limit).
WithinKeepLimit == Cardinality(Present) <= KeepLimit

\* The gate gives up only after as many changes of the identity by others
\* as it has attempts (gate.rs: each lost race means a concurrent cycle
\* committed its own identity).
ExhaustedOnlyByRaces ==
    \A c \in Cycles : pc[c] = "exhausted" => races[c] >= MaxAttempts

\* While the identity stays, cached mail is lost only to retention: a row
\* that goes has KeepLimit more recent rows after it, and a content goes only
\* with its row (gate.rs: the same account preserves the cached mailbox).
CachedMailPreserved ==
    [][recorded' = recorded /\ recorded # NoIdentity =>
         \A m \in Present :
           \/ /\ owner'[m] # NoIdentity
              /\ body[m] # NoIdentity => body'[m] # NoIdentity
           \/ Cardinality({n \in Present' : n < m}) >= KeepLimit]_vars

\* A message marked read stays so while its row does: a listing taken before
\* the mark, or a body fetched before it, does not make it unread again.
ReadSticks ==
    [][recorded' = recorded => read \cap Present' \subseteq read']_vars

\* A cycle that begins ends, even when others keep recording identities
\* under it (gate.rs, MAX_GATE_ATTEMPTS).
CycleEnds == \A c \in Cycles : pc[c] \in Gate ~> pc[c] \in Ended

\* The slot changes hands only as the abstract specification says.
Ownership == INSTANCE MailboxOwnership WITH
    Subjects <- Subjects, Ids <- Ids, NoIdentity <- NoIdentity,
    recorded <- recorded, owner <- owner, body <- body
RefinesOwnership == Ownership!Spec

=============================================================================

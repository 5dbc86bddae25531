---------------------------- MODULE TokenBroker ----------------------------
(***************************************************************************)
(* BrokerCore (adapters/token-broker-core/src/broker.rs): the calls that   *)
(* change an account's refresh credential - complete_authorization after   *)
(* its session is claimed, refresh_access_token, revoke_provider_grant and *)
(* delete_stored_tokens - running concurrently over one credential store,  *)
(* one set of subject permits and Google.                                  *)
(*                                                                         *)
(* An await is a state of its own; so is every access to the store, since  *)
(* calls may run on several threads. A call may be dropped at an await,    *)
(* and the process may crash: the permits go with it, the store stays.     *)
(*                                                                         *)
(* A credential is the account it belongs to and a serial. Google is       *)
(* modelled by what it may answer: the credentials that still work, and a  *)
(* revocation that ends every credential of the account.                   *)
(***************************************************************************)
EXTENDS Naturals, FiniteSets

CONSTANTS
    Subjects,     \* Google accounts
    Calls,        \* concurrent calls of the broker
    Serials,      \* what tells two credentials of an account apart
    NoToken,      \* no credential; no subject
    MaxPermits    \* MAX_SUBJECT_PERMITS

Tokens == Subjects \X Serials

ASSUME NoTokenAssumption == NoToken \notin Tokens \cup Subjects
ASSUME PermitsAssumption == MaxPermits \in Nat \ {0}

VARIABLES
    stored,    \* the credential kept for each subject
    alive,     \* the credentials Google still honours
    permits,   \* the subjects with a mutation in flight
    pc,        \* where each call is
    op,        \* what each call is for
    subject,   \* the account of each call, once known
    token,     \* the credential each call has loaded, or was granted
    empty      \* each completion's snapshot: nothing was stored before it

vars == <<stored, alive, permits, pc, op, subject, token, empty>>

Ops == {"complete", "refresh", "revoke", "delete"}

\* Before the permit, and while it is held.
Outside == {"idle", "exchange", "claim"}
Holding == {"held", "judge", "stranded", "refreshing", "rotate", "retain",
            "gone", "revoking", "retrying", "success", "consentRevoked",
            "confirmed"}

TypeOK ==
    /\ stored \in [Subjects -> Tokens \cup {NoToken}]
    /\ alive \subseteq Tokens
    /\ permits \subseteq Subjects
    /\ pc \in [Calls -> Outside \cup Holding]
    /\ op \in [Calls -> Ops \cup {"none"}]
    /\ subject \in [Calls -> Subjects \cup {NoToken}]
    /\ token \in [Calls -> Tokens \cup {NoToken}]
    /\ empty \in [Calls -> BOOLEAN]

Owner(t) == t[1]
OfSubject(s) == {t \in Tokens : Owner(t) = s}

Init ==
    /\ stored = [s \in Subjects |-> NoToken]
    /\ alive = {}
    /\ permits = {}
    /\ pc = [c \in Calls |-> "idle"]
    /\ op = [c \in Calls |-> "none"]
    /\ subject = [c \in Calls |-> NoToken]
    /\ token = [c \in Calls |-> NoToken]
    /\ empty = [c \in Calls |-> FALSE]

Goto(c, where) == pc' = [pc EXCEPT ![c] = where]

\* (mutant of Released: the guard does not give the subject back)
ReleasedNever(c) == permits

\* The permit's Drop, for a call that holds it.
Released(c) == IF pc[c] \in Holding THEN permits \ {subject[c]} ELSE permits

\* The call returns, or its future is dropped.
Leave(c) ==
    /\ Goto(c, "idle")
    /\ permits' = Released(c)
    /\ op' = [op EXCEPT ![c] = "none"]
    /\ subject' = [subject EXCEPT ![c] = NoToken]
    /\ token' = [token EXCEPT ![c] = NoToken]
    /\ empty' = [empty EXCEPT ![c] = FALSE]

-----------------------------------------------------------------------------
(* Google.                                                                 *)

\* A credential nobody holds is minted for s; those nobody holds any more
\* are forgotten, so that a serial can be used again.
InUse == {stored[s] : s \in Subjects} \cup {token[c] : c \in Calls}
Mint(t) ==
    /\ t \in Tokens \ InUse
    /\ alive' = (alive \cap InUse) \cup {t}

\* Revocation is grant-wide.
Revoke(s) == alive' = alive \ OfSubject(s)

\* The user withdraws consent on Google's own page.
UserRevokes(s) ==
    /\ alive \cap OfSubject(s) # {}
    /\ Revoke(s)
    /\ UNCHANGED <<stored, permits, pc, op, subject, token, empty>>

-----------------------------------------------------------------------------
(* The permit, common to all four.                                         *)

StartComplete(c) ==
    /\ pc[c] = "idle"
    /\ Goto(c, "exchange")
    /\ op' = [op EXCEPT ![c] = "complete"]
    /\ UNCHANGED <<stored, alive, permits, subject, token, empty>>

Start(c, o, s) ==
    /\ pc[c] = "idle"
    /\ Goto(c, "claim")
    /\ op' = [op EXCEPT ![c] = o]
    /\ subject' = [subject EXCEPT ![c] = s]
    /\ UNCHANGED <<stored, alive, permits, token, empty>>

\* (mutant of PermitFree: only the bound is checked)
PermitFreeBound(s) == Cardinality(permits) < MaxPermits

PermitFree(s) == s \notin permits /\ Cardinality(permits) < MaxPermits

ClaimPermit(c) ==
    /\ pc[c] = "claim"
    /\ PermitFree(subject[c])
    /\ permits' = permits \cup {subject[c]}
    /\ Goto(c, "held")
    /\ UNCHANGED <<stored, alive, op, subject, token, empty>>

-----------------------------------------------------------------------------
(* complete_authorization, from the exchange on.                           *)

\* The code is redeemed: a grant of some account. No permit is held yet.
Exchanged(c) ==
    /\ pc[c] = "exchange"
    /\ \E t \in Tokens :
         /\ Mint(t)
         /\ subject' = [subject EXCEPT ![c] = Owner(t)]
         /\ token' = [token EXCEPT ![c] = t]
    /\ Goto(c, "claim")
    /\ UNCHANGED <<stored, permits, op, empty>>

\* The stored credential is looked at before anything is decided.
Snapshot(c) ==
    /\ pc[c] = "held" /\ op[c] = "complete"
    /\ empty' = [empty EXCEPT ![c] = stored[subject[c]] = NoToken]
    /\ Goto(c, "judge")
    /\ UNCHANGED <<stored, alive, permits, op, subject, token>>

\* (mutant of GrantStored: success is reported before the credential is kept)
GrantReported(c) ==
    /\ Goto(c, "success")
    /\ UNCHANGED <<stored, alive, permits, op, subject, token, empty>>

GrantStored(c) ==
    /\ stored' = [stored EXCEPT ![subject[c]] = token[c]]
    /\ Goto(c, "success")
    /\ UNCHANGED <<alive, permits, op, subject, token, empty>>

\* The identity is fresh and the tokens well formed: persist, then succeed.
AcceptGrant(c) ==
    /\ pc[c] = "judge"
    /\ GrantStored(c)

\* (mutant of LicensesRevoke: every terminal cleans up)
LicensesAlways(c) == TRUE

LicensesRevoke(c) == empty[c]

\* A stale identity, a malformed or missing token, or a store that fails:
\* the grant is stranded, and is revoked if nothing was stored before.
StrandGrant(c) ==
    /\ pc[c] = "judge"
    /\ LicensesRevoke(c)
    /\ Goto(c, "stranded")
    /\ UNCHANGED <<stored, alive, permits, op, subject, token, empty>>

\* revoke_best_effort reaches Google; whatever the answer, the call returns.
RevokeStranded(c) ==
    /\ pc[c] = "stranded"
    /\ Revoke(subject[c])
    /\ Leave(c)
    /\ UNCHANGED stored

-----------------------------------------------------------------------------
(* refresh_access_token.                                                   *)

LoadForRefresh(c) ==
    /\ pc[c] = "held" /\ op[c] = "refresh"
    /\ stored[subject[c]] # NoToken
    /\ token' = [token EXCEPT ![c] = stored[subject[c]]]
    /\ Goto(c, "refreshing")
    /\ UNCHANGED <<stored, alive, permits, op, subject, empty>>

SameAccount(c, s) == subject[c] = s

\* Granted, without a rotation.
RefreshedAsWas(c) ==
    /\ pc[c] = "refreshing"
    /\ token[c] \in alive
    /\ Goto(c, "success")
    /\ UNCHANGED <<stored, alive, permits, op, subject, token, empty>>

\* Granted with a rotation, for the account asked for or for another one.
RefreshedRotated(c) ==
    /\ pc[c] = "refreshing"
    /\ token[c] \in alive
    /\ \E t \in Tokens :
         /\ Mint(t)
         /\ IF SameAccount(c, Owner(t))
            THEN /\ token' = [token EXCEPT ![c] = t]
                 /\ Goto(c, "rotate")
                 /\ UNCHANGED <<permits, op, subject, empty>>
            ELSE Leave(c)
    /\ UNCHANGED stored

\* Under-scoped, with a rotation. The answer names no account.
RefreshedUnderScoped(c) ==
    /\ pc[c] = "refreshing"
    /\ token[c] \in alive
    /\ \E t \in OfSubject(Owner(token[c])) :
         /\ Mint(t)
         /\ token' = [token EXCEPT ![c] = t]
    /\ Goto(c, "retain")
    /\ UNCHANGED <<stored, permits, op, subject, empty>>

\* The rotation is kept before the freshness of the identity is looked at.
StoreRotation(c) ==
    /\ pc[c] \in {"rotate", "retain"}
    /\ stored' = [stored EXCEPT ![subject[c]] = token[c]]
    /\ IF pc[c] = "rotate"
       THEN Goto(c, "success") /\ UNCHANGED <<permits, op, subject, token, empty>>
       ELSE Leave(c)
    /\ UNCHANGED alive

\* invalid_grant.
RefreshRefused(c) ==
    /\ pc[c] = "refreshing"
    /\ token[c] \notin alive
    /\ Goto(c, "gone")
    /\ UNCHANGED <<stored, alive, permits, op, subject, token, empty>>

ForgetStored(c) == stored' = [stored EXCEPT ![subject[c]] = NoToken]

DeleteRefused(c) ==
    /\ pc[c] = "gone"
    /\ ForgetStored(c)
    /\ Goto(c, "consentRevoked")
    /\ UNCHANGED <<alive, permits, op, subject, token, empty>>

-----------------------------------------------------------------------------
(* revoke_provider_grant and delete_stored_tokens.                         *)

LoadForRevoke(c) ==
    /\ pc[c] = "held" /\ op[c] = "revoke"
    /\ IF stored[subject[c]] = NoToken
       THEN Goto(c, "confirmed") /\ UNCHANGED token
       ELSE /\ token' = [token EXCEPT ![c] = stored[subject[c]]]
            /\ Goto(c, "revoking")
    /\ UNCHANGED <<stored, alive, permits, op, subject, empty>>

\* (mutant of RevokeConfirmed: any answer confirms)
ConfirmedByAnyAnswer(c) ==
    /\ pc[c] \in {"revoking", "retrying"}
    /\ Goto(c, "confirmed")
    /\ UNCHANGED <<stored, alive, permits, op, subject, token, empty>>

\* Google revoked the grant, or knows the credential no more.
RevokeConfirmed(c) ==
    /\ pc[c] \in {"revoking", "retrying"}
    /\ \/ Revoke(Owner(token[c]))
       \/ token[c] \notin alive /\ UNCHANGED alive
    /\ Goto(c, "confirmed")
    /\ UNCHANGED <<stored, permits, op, subject, token, empty>>

\* Any other answer: once more, whether Google acted on the request or not.
RevokeRetried(c) ==
    /\ pc[c] = "revoking"
    /\ Revoke(Owner(token[c])) \/ UNCHANGED alive
    /\ Goto(c, "retrying")
    /\ UNCHANGED <<stored, permits, op, subject, token, empty>>

DeleteStored(c) ==
    /\ pc[c] = "held" /\ op[c] = "delete"
    /\ ForgetStored(c)
    /\ Leave(c)
    /\ UNCHANGED alive

-----------------------------------------------------------------------------
(* Ends.                                                                   *)

\* Busy, an error without a write, the future dropped, or the return of a
\* call that has its result.
Return(c) ==
    /\ pc[c] # "idle"
    /\ Leave(c)
    /\ UNCHANGED <<stored, alive>>

\* The process is gone, and its calls and permits with it.
Crash ==
    /\ permits' = {}
    /\ pc' = [c \in Calls |-> "idle"]
    /\ op' = [c \in Calls |-> "none"]
    /\ subject' = [c \in Calls |-> NoToken]
    /\ token' = [c \in Calls |-> NoToken]
    /\ empty' = [c \in Calls |-> FALSE]
    /\ UNCHANGED <<stored, alive>>

Begin(c) ==
    \/ StartComplete(c)
    \/ \E o \in Ops \ {"complete"}, s \in Subjects : Start(c, o, s)

Complete(c) == Exchanged(c) \/ Snapshot(c) \/ AcceptGrant(c)
               \/ StrandGrant(c) \/ RevokeStranded(c)

Refresh(c) == LoadForRefresh(c) \/ RefreshedAsWas(c) \/ RefreshedRotated(c)
              \/ RefreshedUnderScoped(c) \/ StoreRotation(c)
              \/ RefreshRefused(c) \/ DeleteRefused(c)

Disconnect(c) == LoadForRevoke(c) \/ RevokeConfirmed(c) \/ RevokeRetried(c)
                 \/ DeleteStored(c)

Continue(c) == ClaimPermit(c) \/ Complete(c) \/ Refresh(c) \/ Disconnect(c)
               \/ Return(c)

Next ==
    \/ \E c \in Calls : Begin(c) \/ Continue(c)
    \/ \E s \in Subjects : UserRevokes(s)
    \/ Crash

Spec == Init /\ [][Next]_vars

\* Every await of a call that is polled ends: the transport answers or gives
\* up. Nothing obliges a call to begin, the user to revoke, a crash to come.
FairSpec == Spec /\ \A c \in Calls : WF_vars(Continue(c))

-----------------------------------------------------------------------------
(* Properties.                                                             *)

\* The permits are the subjects of the calls that hold one, each of a single
\* call: no mutation of an account overlaps another, and none is leaked by a
\* call that returned, failed or was dropped (permits.rs).
OneMutationPerSubject ==
    /\ permits = {subject[c] : c \in {d \in Calls : pc[d] \in Holding}}
    /\ \A c, d \in Calls :
         c # d /\ {pc[c], pc[d]} \subseteq Holding => subject[c] # subject[d]

\* While a completion revokes the grant it stranded, nothing is stored for
\* that account: the grant-wide revocation cannot end a working connection
\* (broker.rs, revoke_stranded_grant).
StrandedSparesStored ==
    \A c \in Calls : pc[c] = "stranded" => stored[subject[c]] = NoToken

\* What a call reports is what the store holds, so it survives a restart:
\* success, that the credential it was granted, or refreshed with, is the
\* one stored; ConsentRevoked, that nothing is.
OutcomeIsStored ==
    \A c \in Calls :
        /\ pc[c] = "success" => stored[subject[c]] = token[c]
        /\ pc[c] = "consentRevoked" => stored[subject[c]] = NoToken

\* When a revocation is confirmed, Google honours no credential that is
\* stored for the account.
ConfirmedIsGone ==
    \A c \in Calls : pc[c] = "confirmed" => stored[subject[c]] \notin alive

\* What is stored for an account is a credential of that account, although
\* an answer to a refresh may be of another one.
StoredIsOwn ==
    \A s \in Subjects : stored[s] # NoToken => Owner(stored[s]) = s

\* A permit that is held is released.
PermitReleased == \A s \in Subjects : s \in permits ~> s \notin permits

=============================================================================

-------------------------- MODULE SyncCoordinator --------------------------
(***************************************************************************)
(* SyncCoordinator::sync_recent (crates/application/src/sync.rs): a bounded*)
(* listing of recent envelopes, page by page, one reconcile of the store,  *)
(* then the bodies of the first survivors. Calls for one account are kept  *)
(* apart by the coordinator's set of active accounts.                      *)
(*                                                                         *)
(* The remote mailbox is a port and may answer anything: too many items,   *)
(* an id twice with different envelopes, a continuation already given,     *)
(* pages without end, a body of another message. Each list and each fetch  *)
(* is an await, where the call may be dropped and other writers may remove *)
(* rows.                                                                   *)
(*                                                                         *)
(* An envelope is its id and a version; the order of a page is abstracted, *)
(* so that what a truncation keeps of the last page is a choice.           *)
(***************************************************************************)
EXTENDS Naturals, FiniteSets

CONSTANTS
    Accounts,
    Calls,         \* concurrent calls of one coordinator
    Ids,           \* message ids
    Versions,      \* what tells two envelopes of one id apart
    Tokens,        \* continuation tokens
    NoToken,       \* no continuation; no account
    PageSize, MaxPages, KeepLimit, BodyLimit   \* SyncPolicy

MAX_SNAPSHOT_PAGES == 1000
PageSizes == 1 .. 500
StoreLimits == 1 .. 10000

\* SyncPolicy::new.
SyncPolicy(page_size, max_pages, keep_limit, full_body_limit) ==
    /\ page_size \in PageSizes
    /\ {keep_limit, full_body_limit} \subseteq StoreLimits
    /\ max_pages \in 1 .. MAX_SNAPSHOT_PAGES
    /\ full_body_limit <= keep_limit
ASSUME PolicyAssumption == SyncPolicy(PageSize, MaxPages, KeepLimit, BodyLimit)
ASSUME IdsAssumption == IsFiniteSet(Ids) /\ IsFiniteSet(Versions)
ASSUME NoTokenAssumption == NoToken \notin Tokens \cup Accounts

VARIABLES
    active,     \* active_accounts
    rows,       \* the ids in each account's store
    pc,         \* where each call is
    account,    \* the account of each running call
    listed,     \* the envelopes each call has collected
    tokens,     \* the continuations each call was given and asks with
    pending,    \* the survivors whose body is still to be requested
    progress,   \* SyncProgress
    result,     \* how each call ended
    offered,    \* every id the remote listed to the call (ghost)
    more        \* the last page had a continuation (ghost)

vars == <<active, rows, pc, account, listed, tokens, pending, progress,
          result, offered, more>>

Envelopes == Ids \X Versions
IdsOf(E) == {e[1] : e \in E}

SyncProtocolError == {"OversizedPage", "RepeatedContinuation",
                      "ConflictingDuplicate", "MismatchedFetchedMessage"}
SyncFailureSource == {"Remote", "Store", "SingleFlight", "IdentityFenced"} \cup SyncProtocolError
Results == SyncFailureSource \cup {"none", "report"}

Running == {"list", "reconcile", "bodies", "fetching"}

SyncProgress ==
    [pages : 0 .. MaxPages, envelopes : 0 .. KeepLimit,
     body_requests : 0 .. BodyLimit, bodies_cached : 0 .. BodyLimit,
     bodies_skipped : 0 .. BodyLimit, snapshot_truncated : BOOLEAN]

TypeOK ==
    /\ active \subseteq Accounts
    /\ rows \in [Accounts -> SUBSET Ids]
    /\ pc \in [Calls -> Running \cup {"idle", "done"}]
    /\ account \in [Calls -> Accounts \cup {NoToken}]
    /\ listed \in [Calls -> SUBSET Envelopes]
    /\ tokens \in [Calls -> SUBSET Tokens]
    /\ pending \in [Calls -> SUBSET Ids]
    /\ progress \in [Calls -> SyncProgress]
    /\ result \in [Calls -> Results]
    /\ offered \in [Calls -> SUBSET Ids]
    /\ more \in [Calls -> BOOLEAN]

NoProgress == [pages |-> 0, envelopes |-> 0, body_requests |-> 0,
               bodies_cached |-> 0, bodies_skipped |-> 0,
               snapshot_truncated |-> FALSE]

Init ==
    /\ active = {}
    /\ rows = [a \in Accounts |-> {}]
    /\ pc = [c \in Calls |-> "idle"]
    /\ account = [c \in Calls |-> NoToken]
    /\ listed = [c \in Calls |-> {}]
    /\ tokens = [c \in Calls |-> {}]
    /\ pending = [c \in Calls |-> {}]
    /\ progress = [c \in Calls |-> NoProgress]
    /\ result = [c \in Calls |-> "none"]
    /\ offered = [c \in Calls |-> {}]
    /\ more = [c \in Calls |-> FALSE]

\* (mutant of Claimable: the set of active accounts is not consulted)
ClaimableAlways(a) == TRUE

Claimable(a) == a \notin active

\* acquire.
Acquire(c, a) ==
    /\ pc[c] \in {"idle", "done"}
    /\ Claimable(a)
    /\ active' = active \cup {a}
    /\ pc' = [pc EXCEPT ![c] = "list"]
    /\ account' = [account EXCEPT ![c] = a]
    /\ progress' = [progress EXCEPT ![c] = NoProgress]
    /\ result' = [result EXCEPT ![c] = "none"]
    /\ UNCHANGED <<rows, listed, tokens, pending, offered, more>>

\* A call that finds the account active fails at once, with no progress.
Refuse(c, a) ==
    /\ pc[c] \in {"idle", "done"}
    /\ ~Claimable(a)
    /\ pc' = [pc EXCEPT ![c] = "idle"]
    /\ progress' = [progress EXCEPT ![c] = NoProgress]
    /\ result' = [result EXCEPT ![c] = "SingleFlight"]
    /\ UNCHANGED <<active, rows, account, listed, tokens, pending, offered, more>>

\* SyncFlight's Drop.
FlightReleased(c) == active \ {account[c]}

\* The call returns, with the progress it reached whichever way it ends, or is
\* dropped.
Leave(c, how, report, ending) ==
    /\ result' = [result EXCEPT ![c] = ending]
    /\ active' = FlightReleased(c)
    /\ pc' = [pc EXCEPT ![c] = how]
    /\ account' = [account EXCEPT ![c] = NoToken]
    /\ listed' = [listed EXCEPT ![c] = {}]
    /\ tokens' = [tokens EXCEPT ![c] = {}]
    /\ pending' = [pending EXCEPT ![c] = {}]
    /\ progress' = [progress EXCEPT ![c] = report]
    /\ offered' = [offered EXCEPT ![c] = {}]
    /\ more' = [more EXCEPT ![c] = FALSE]

-----------------------------------------------------------------------------
(* Listing.                                                                *)

Conflicting(E) == \E e, f \in E : e[1] = f[1] /\ e # f

\* What a truncation to the keep limit may leave: all that was there before
\* the page, and as much of the page as fits.
Truncations(old, all) ==
    IF Cardinality(all) <= KeepLimit THEN {all}
    ELSE {E \in SUBSET all : old \subseteq E /\ Cardinality(E) = KeepLimit}

Repeated(c, token) == token \in tokens[c]

\* (mutant of LastPage: one page more is asked for)
LastPageLate(pages) == [stop |-> pages > MaxPages, truncated |-> pages > MaxPages]

\* (mutant of LastPage: the page limit does not mark the snapshot)
LastPageUnmarked(pages) == [stop |-> pages = MaxPages, truncated |-> FALSE]

LastPage(pages) == [stop |-> pages = MaxPages, truncated |-> pages = MaxPages]

ReachedKeepLimit(all) == Cardinality(all) >= KeepLimit

\* How many of the collected envelopes are counted.
Counted(E) == IF Cardinality(E) <= KeepLimit THEN Cardinality(E) ELSE KeepLimit

\* One page is taken in; the listing goes on with its continuation unless
\* the keep limit, the end or the page limit is reached.
PageTaken(c, page, token) ==
    LET all   == listed[c] \cup page
        pages == progress[c].pages + 1
        limit == ReachedKeepLimit(all)
        last  == LastPage(pages)
        cut   == limit \/ (token # NoToken /\ last.truncated)
        ended == limit \/ token = NoToken \/ last.stop
    IN  /\ Cardinality(page) <= PageSize
        /\ ~Conflicting(all)
        /\ ~Repeated(c, token)
        /\ \E E \in Truncations(listed[c], all) : listed' = [listed EXCEPT ![c] = E]
        /\ progress' = [progress EXCEPT
              ![c].pages = pages,
              ![c].envelopes = Counted(all),
              ![c].snapshot_truncated = cut]
        /\ pc' = [pc EXCEPT ![c] = IF ended THEN "reconcile" ELSE "list"]
        /\ IF limit \/ token = NoToken
           THEN UNCHANGED tokens
           ELSE tokens' = [tokens EXCEPT ![c] = @ \cup {token}]
        /\ offered' = [offered EXCEPT ![c] = @ \cup IdsOf(page)]
        /\ more' = [more EXCEPT ![c] = token # NoToken]

\* The remote lists a page.
TakePage(c) ==
    /\ pc[c] = "list"
    /\ \E page \in SUBSET Envelopes, token \in Tokens \cup {NoToken} :
          PageTaken(c, page, token)
    /\ UNCHANGED <<active, rows, account, pending, result>>

\* Why a page is refused, and what was counted of it by then: nothing of one
\* that is too large, what comes before the conflict, or all of it.
Refused(c, page, token, taken, source) ==
    \/ /\ source = "OversizedPage"
       /\ Cardinality(page) > PageSize
       /\ taken = {}
    \/ /\ source = "ConflictingDuplicate"
       /\ Cardinality(page) <= PageSize
       /\ ~Conflicting(listed[c] \cup taken)
       /\ \E e \in page : Conflicting(listed[c] \cup taken \cup {e})
    \/ /\ source = "RepeatedContinuation"
       /\ Cardinality(page) <= PageSize
       /\ ~Conflicting(listed[c] \cup page)
       /\ Repeated(c, token)
       /\ taken = page

\* A page the call ends at.
RefusePage(c, source) ==
    /\ pc[c] = "list"
    /\ \E page \in SUBSET Envelopes, token \in Tokens \cup {NoToken} :
         \E taken \in SUBSET page :
            /\ Refused(c, page, token, taken, source)
            /\ Leave(c, "idle", [progress[c] EXCEPT !.pages = @ + 1,
                                      !.envelopes = Counted(listed[c] \cup taken)], source)
    /\ UNCHANGED rows

-----------------------------------------------------------------------------
(* Reconciling, and the bodies.                                            *)

\* The one reconcile: the listed rows, and of the others those the prune
\* leaves. Which rows are the most recent is the store's matter.
Reconcile(c) ==
    /\ pc[c] = "reconcile"
    /\ \E kept \in SUBSET (rows[account[c]] \cup IdsOf(listed[c])) :
         /\ Cardinality(kept) <= KeepLimit
         /\ rows' = [rows EXCEPT ![account[c]] = kept]
         /\ \E first \in SUBSET (kept \cap IdsOf(listed[c])) :
              /\ Cardinality(first) <= BodyLimit
              /\ \/ Cardinality(first) = BodyLimit
                 \/ first = kept \cap IdsOf(listed[c])
              /\ pending' = [pending EXCEPT ![c] = first]
    /\ pc' = [pc EXCEPT ![c] = "bodies"]
    /\ UNCHANGED <<active, account, listed, tokens, progress, result, offered,
                   more>>

\* A body is requested.
RequestBody(c) ==
    /\ pc[c] = "bodies"
    /\ pending[c] # {}
    /\ progress' = [progress EXCEPT ![c].body_requests = @ + 1]
    /\ pc' = [pc EXCEPT ![c] = "fetching"]
    /\ UNCHANGED <<active, rows, account, listed, tokens, pending, result,
                   offered, more>>

\* The body is cached if its row is still there, else it is skipped, as it
\* is when the message is gone from Gmail.
Settled(c, m, found) ==
    IF found /\ m \in rows[account[c]]
    THEN [progress[c] EXCEPT !.bodies_cached = @ + 1]
    ELSE [progress[c] EXCEPT !.bodies_skipped = @ + 1]

SettleBody(c) ==
    /\ pc[c] = "fetching"
    /\ \E m \in pending[c], found \in BOOLEAN :
         /\ progress' = [progress EXCEPT ![c] = Settled(c, m, found)]
         /\ pending' = [pending EXCEPT ![c] = @ \ {m}]
    /\ pc' = [pc EXCEPT ![c] = "bodies"]
    /\ UNCHANGED <<active, rows, account, listed, tokens, result, offered, more>>

Report(c) ==
    /\ pc[c] = "bodies"
    /\ pending[c] = {}
    /\ Leave(c, "done", progress[c], "report")
    /\ UNCHANGED rows

\* A request or a transaction that fails, the fence, or the body of another
\* message.
Fail(c, source) ==
    /\ \/ source = "Remote" /\ pc[c] \in {"list", "fetching"}
       \/ source \in {"Store", "IdentityFenced"} /\ pc[c] \in {"reconcile", "fetching"}
       \/ source = "MismatchedFetchedMessage" /\ pc[c] = "fetching"
    /\ Leave(c, "idle", progress[c], source)
    /\ UNCHANGED rows

\* The future is dropped, and its progress with it.
Drop(c) ==
    /\ pc[c] \in Running
    /\ Leave(c, "idle", NoProgress, "none")
    /\ UNCHANGED rows

\* Another writer of the store removes a row.
Displace(a) ==
    /\ \E m \in rows[a] : rows' = [rows EXCEPT ![a] = @ \ {m}]
    /\ UNCHANGED <<active, pc, account, listed, tokens, pending,
                   progress, result, offered, more>>

Advance(c) ==
    \/ TakePage(c) \/ Reconcile(c) \/ RequestBody(c) \/ SettleBody(c) \/ Report(c)
    \/ \E source \in SyncFailureSource : RefusePage(c, source) \/ Fail(c, source)

Next ==
    \/ \E c \in Calls : (\E a \in Accounts : Acquire(c, a) \/ Refuse(c, a)) \/ Advance(c) \/ Drop(c)
    \/ \E a \in Accounts : Displace(a)

Spec == Init /\ [][Next]_vars

-----------------------------------------------------------------------------
(* Properties.                                                             *)

\* An account is active exactly while one call runs for it: syncs of an
\* account never overlap, and a claim does not outlive its call.
SingleFlight ==
    /\ active = {account[c] : c \in {d \in Calls : pc[d] \in Running}}
    /\ \A c, d \in Calls :
         c # d /\ {pc[c], pc[d]} \subseteq Running => account[c] # account[d]

\* A snapshot that is not marked truncated is whole: it holds all the remote
\* listed, and the remote had no more.
WholeUnlessTruncated ==
    \A c \in Calls :
       pc[c] \in {"reconcile", "bodies", "fetching"}
         /\ ~progress[c].snapshot_truncated
         => ~more[c] /\ offered[c] = IdsOf(listed[c])

\* A body was requested whose outcome is not counted: the one in flight, or the
\* one a failure ended the call at.
Uncounted(c) ==
    \/ pc[c] = "fetching"
    \/ result[c] \in SyncFailureSource /\ progress[c].body_requests > 0

\* The counts of a call add up, in a report and in what a failure says of how
\* far it came: the envelopes are those collected, no more pages are asked for
\* than the policy allows, however many continuations there are, each body
\* request but the one in flight, or the one that failed, was cached or skipped,
\* and what is still to request fits the limit.
CountsOf(c) ==
    /\ pc[c] \in Running =>
         progress[c].envelopes = Cardinality(listed[c])
    /\ progress[c].pages <= MaxPages
    /\ progress[c].pages = 0 => progress[c].envelopes = 0
    /\ progress[c].body_requests =
         progress[c].bodies_cached + progress[c].bodies_skipped
           + (IF Uncounted(c) THEN 1 ELSE 0)
    /\ Cardinality(pending[c]) + progress[c].bodies_cached
         + progress[c].bodies_skipped <= BodyLimit

CountsAddUp == \A c \in Calls : CountsOf(c)
=============================================================================

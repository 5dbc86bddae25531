----------------------- MODULE SyncCoordinatorProofs -----------------------
(***************************************************************************)
(* Proofs about SyncCoordinator, for any number of calls, accounts,        *)
(* messages and pages and for every policy SyncPolicy::new accepts: type   *)
(* correctness with the counts of a report or a failure, the single flight *)
(* of an account, and what an unmarked snapshot promises.                  *)
(***************************************************************************)
EXTENDS SyncCoordinator, FiniteSetTheorems, TLAPS

USE DEF Running

\* What a call's locals say: one that does not run holds nothing; one that
\* lists may ask for another page and has kept all it was offered; no body
\* has been asked for before the reconcile; a fetch is of a survivor.
Local(c) ==
    /\ pc[c] \notin Running =>
         listed[c] = {} /\ pending[c] = {} /\ offered[c] = {}
    /\ pc[c] \in Running => account[c] \in Accounts /\ result[c] = "none"
    /\ pc[c] = "list" =>
         progress[c].pages < MaxPages /\ offered[c] = IdsOf(listed[c])
    /\ pc[c] \in {"list", "reconcile"} =>
         progress[c].body_requests = 0 /\ pending[c] = {}
    /\ pc[c] = "fetching" => pending[c] # {}

LocalInv == \A c \in Calls : Local(c)

IInv == TypeOK /\ CountsAddUp /\ LocalInv /\ SingleFlight /\ WholeUnlessTruncated

-----------------------------------------------------------------------------
(* Sizes.                                                                  *)

LEMMA PolicyFacts ==
    /\ PageSize \in Nat /\ PageSize >= 1
    /\ MaxPages \in Nat /\ MaxPages >= 1
    /\ KeepLimit \in Nat /\ KeepLimit >= 1
    /\ BodyLimit \in Nat /\ BodyLimit >= 1
<1>1. /\ PageSize \in PageSizes
      /\ KeepLimit \in StoreLimits /\ BodyLimit \in StoreLimits
      /\ MaxPages \in 1 .. MAX_SNAPSHOT_PAGES
  BY PolicyAssumption DEF SyncPolicy
<1>2. PageSizes \subseteq Nat \ {0} /\ StoreLimits \subseteq Nat \ {0}
  BY DEF PageSizes, StoreLimits
<1>3. 1 .. MAX_SNAPSHOT_PAGES \subseteq Nat \ {0}
  BY DEF MAX_SNAPSHOT_PAGES
<1>4. \A n \in Nat \ {0} : n >= 1
  OBVIOUS
<1> QED
  BY <1>1, <1>2, <1>3, <1>4

LEMMA IdsFinite ==
    ASSUME NEW S \in SUBSET Ids
    PROVE  IsFiniteSet(S) /\ Cardinality(S) \in Nat
  BY IdsAssumption, FS_Subset, FS_CardinalityType

LEMMA EnvelopesFinite ==
    ASSUME NEW E \in SUBSET Envelopes
    PROVE  IsFiniteSet(E) /\ Cardinality(E) \in Nat
  BY IdsAssumption, FS_Product, FS_Subset, FS_CardinalityType DEF Envelopes

LEMMA EmptySize == Cardinality({}) = 0
  BY FS_EmptySet

LEMMA IdsOfSubset == \A E \in SUBSET Envelopes : IdsOf(E) \subseteq Ids
  BY DEF IdsOf, Envelopes

LEMMA IdsOfUnion ==
    \A E, F \in SUBSET Envelopes : IdsOf(E \cup F) = IdsOf(E) \cup IdsOf(F)
  BY DEF IdsOf

LEMMA TruncationSize ==
    ASSUME NEW old \in SUBSET Envelopes, NEW all \in SUBSET Envelopes,
           NEW E \in Truncations(old, all)
    PROVE  /\ E \subseteq all
           /\ Cardinality(all) <= KeepLimit => E = all
           /\ Cardinality(E) = IF Cardinality(all) <= KeepLimit
                               THEN Cardinality(all) ELSE KeepLimit
  BY DEF Truncations

LEMMA CountedType ==
    ASSUME NEW E \in SUBSET Envelopes
    PROVE  Counted(E) \in 0 .. KeepLimit
  BY PolicyFacts, EnvelopesFinite DEF Counted

\* A result that is no failure leaves no request uncounted.
LEMMA NoFailure == "none" \notin SyncFailureSource /\ "report" \notin SyncFailureSource
  BY DEF SyncFailureSource, SyncProtocolError

LEMMA RowsType ==
    ASSUME TypeOK, NEW a \in Accounts, NEW S \in SUBSET Ids,
           rows' = [rows EXCEPT ![a] = S]
    PROVE  rows' \in [Accounts -> SUBSET Ids]
  BY DEF TypeOK

-----------------------------------------------------------------------------
(* Beginnings and ends.                                                    *)

\* No call runs at first.
LEMMA InitIInv == Init => IInv
<1> SUFFICES ASSUME Init PROVE IInv
  OBVIOUS
<1> USE PolicyFacts, EmptySize
<1>1. TypeOK
  BY DEF Init, TypeOK, SyncProgress, NoProgress, Results
<1>2. CountsAddUp
  BY DEF Init, CountsAddUp, CountsOf, Uncounted, NoProgress
<1>3. LocalInv
  BY DEF Init, LocalInv, Local
<1>4. SingleFlight /\ WholeUnlessTruncated
  BY DEF Init, SingleFlight, WholeUnlessTruncated
<1> QED
  BY <1>1, <1>2, <1>3, <1>4 DEF IInv

\* A call begins, or is refused, with nothing collected.
LEMMA BeginStep ==
    ASSUME IInv, NEW c \in Calls, NEW a \in Accounts, Acquire(c, a) \/ Refuse(c, a)
    PROVE  IInv'
<1> USE PolicyFacts, EmptySize DEF IInv
<1>1. pc[c] \notin Running /\ listed[c] = {} /\ pending[c] = {} /\ offered[c] = {}
  BY DEF LocalInv, Local, Acquire, Refuse
<1>2. /\ pc'[c] \in {"list", "idle"} /\ progress'[c] = NoProgress
      /\ pc'[c] = "list" => account'[c] = a /\ a \notin active
      /\ active' = IF pc'[c] = "list" THEN active \cup {a} ELSE active
      /\ result' = [result EXCEPT ![c] = IF pc'[c] = "list" THEN "none" ELSE "SingleFlight"]
      /\ account' \in [Calls -> Accounts \cup {NoToken}]
      /\ pc' = [pc EXCEPT ![c] = pc'[c]]
      /\ \A d \in Calls \ {c} : /\ pc'[d] = pc[d] /\ account'[d] = account[d]
                                /\ progress'[d] = progress[d] /\ result'[d] = result[d]
      /\ pc'[c] = "list" => result'[c] = "none"
      /\ progress' = [progress EXCEPT ![c] = NoProgress]
      /\ UNCHANGED <<rows, listed, tokens, pending, offered, more>>
  <2> HIDE DEF IInv
  <2>1. /\ pc \in [Calls -> Running \cup {"idle", "done"}]
        /\ account \in [Calls -> Accounts \cup {NoToken}]
        /\ progress \in [Calls -> SyncProgress] /\ DOMAIN result = Calls
    BY DEF IInv, TypeOK
  <2>2. CASE Acquire(c, a)
    BY <2>1, <2>2 DEF Claimable, Acquire
  <2>3. CASE Refuse(c, a)
    BY <2>1, <2>3 DEF Claimable, Refuse
  <2> QED
    BY <2>2, <2>3
<1>3. TypeOK'
  <2>1. NoProgress \in SyncProgress
    BY DEF NoProgress, SyncProgress
  <2>2. {"none", "SingleFlight"} \subseteq Results
    BY DEF Results, SyncFailureSource
  <2>3. /\ pc' \in [Calls -> Running \cup {"idle", "done"}]
        /\ result' \in [Calls -> Results] /\ progress' \in [Calls -> SyncProgress]
        /\ active' \subseteq Accounts
    BY <1>2, <2>1, <2>2 DEF TypeOK
  <2> QED
    BY <1>2, <2>3 DEF TypeOK
<1>4. CountsAddUp'
  <2> SUFFICES ASSUME NEW d \in Calls PROVE CountsOf(d)'
    BY DEF CountsAddUp, CountsOf, Uncounted
  <2>1. CASE d = c
    <3>1. pending'[d] = {} /\ listed'[d] = {} /\ progress'[d] = NoProgress
      BY <1>1, <1>2, <2>1
    <3>2. pc'[d] # "fetching"
      BY <1>2, <2>1
    <3> QED
      BY <3>1, <3>2 DEF CountsOf, Uncounted, NoProgress
  <2>2. CASE d # c
    BY <1>2, <2>2 DEF CountsAddUp, CountsOf, Uncounted
  <2> QED
    BY <2>1, <2>2
<1>5. LocalInv'
  <2> SUFFICES ASSUME NEW d \in Calls PROVE Local(d)'
    BY DEF LocalInv
  <2>1. IdsOf({}) = {}
    BY DEF IdsOf
  <2>2. CASE d = c
    <3>1. listed'[d] = {} /\ pending'[d] = {} /\ offered'[d] = {}
      BY <1>1, <1>2, <2>2
    <3>2. /\ pc'[d] \in {"list", "idle"}
          /\ pc'[d] = "list" =>
               account'[d] = a /\ progress'[d] = NoProgress /\ result'[d] = "none"
      BY <1>2, <2>2
    <3>3. NoProgress.pages = 0 /\ NoProgress.body_requests = 0 /\ 0 < MaxPages
      BY DEF NoProgress
    <3> QED
      BY <2>1, <3>1, <3>2, <3>3 DEF Local
  <2>3. CASE d # c
    BY <1>2, <2>3 DEF LocalInv, Local
  <2> QED
    BY <2>2, <2>3
<1>6. SingleFlight'
  <2>1. CASE pc'[c] = "list"
    BY <1>1, <1>2, <2>1 DEF SingleFlight
  <2>2. CASE pc'[c] = "idle"
    BY <1>1, <1>2, <2>2 DEF SingleFlight
  <2> QED
    BY <1>2, <2>1, <2>2
<1>7. WholeUnlessTruncated'
  BY <1>1, <1>2 DEF WholeUnlessTruncated
<1> QED
  BY <1>3, <1>4, <1>5, <1>6, <1>7

\* A call that ends gives its account back, whatever it reports.
LEMMA LeaveStep ==
    ASSUME IInv, NEW c \in Calls, NEW how \in {"idle", "done"},
           NEW report \in SyncProgress, NEW ending \in Results,
           report.pages = 0 => report.envelopes = 0,
           report.body_requests = report.bodies_cached + report.bodies_skipped
             + (IF ending \in SyncFailureSource /\ report.body_requests > 0 THEN 1 ELSE 0),
           pc[c] \in Running, Leave(c, how, report, ending), UNCHANGED rows
    PROVE  IInv'
<1> USE PolicyFacts, EmptySize DEF IInv, Leave
<1>1. TypeOK'
  BY DEF TypeOK, FlightReleased
<1>2. CountsAddUp'
  <2> SUFFICES ASSUME NEW d \in Calls PROVE CountsOf(d)'
    BY DEF CountsAddUp, CountsOf, Uncounted
  <2>1. CASE d = c
    <3>1. /\ pc'[d] = how /\ progress'[d] = report /\ pending'[d] = {}
          /\ result'[d] = ending
      BY <2>1 DEF TypeOK
    <3> HIDE DEF IInv, Leave
    <3>2. /\ {report.pages, report.envelopes, report.body_requests, report.bodies_cached,
              report.bodies_skipped} \subseteq Nat
          /\ report.pages <= MaxPages /\ report.body_requests <= BodyLimit
      BY DEF SyncProgress
    <3>3. Uncounted(d)' <=> ending \in SyncFailureSource /\ report.body_requests > 0
      BY <3>1 DEF Uncounted
    <3> QED
      BY <3>1, <3>2, <3>3 DEF CountsOf
  <2>2. CASE d # c
    <3>1. /\ pc'[d] = pc[d] /\ progress'[d] = progress[d] /\ pending'[d] = pending[d]
          /\ result'[d] = result[d] /\ listed'[d] = listed[d] /\ CountsOf(d)
      BY <2>2 DEF TypeOK, CountsAddUp
    <3> QED
      BY <3>1 DEF CountsOf, Uncounted
  <2> QED
    BY <2>1, <2>2
<1>3. LocalInv'
  BY DEF LocalInv, Local, TypeOK
<1>4. SingleFlight'
  <2>1. \A d \in Calls : pc'[d] \in Running <=> pc[d] \in Running /\ d # c
    BY DEF TypeOK
  <2>2. \A d \in Calls \ {c} : account'[d] = account[d]
    BY DEF TypeOK
  <2> QED
    BY <2>1, <2>2 DEF SingleFlight, FlightReleased
<1>5. WholeUnlessTruncated'
  BY DEF WholeUnlessTruncated, TypeOK
<1> QED
  BY <1>1, <1>2, <1>3, <1>4, <1>5

-----------------------------------------------------------------------------
(* Steps of a running call. A step of one call leaves the others' invariant *)
(* alone; what follows is about the call that moves.                        *)

CallInv(c) ==
    /\ Local(c) /\ CountsOf(c)
    /\ pc[c] \in {"reconcile", "bodies", "fetching"} /\ ~progress[c].snapshot_truncated
         => ~more[c] /\ offered[c] = IdsOf(listed[c])

\* A step inside a running call keeps the invariant if it keeps the types
\* and what the call's own locals say.
LEMMA InsideStep ==
    ASSUME IInv, NEW c \in Calls, pc[c] \in Running, pc'[c] \in Running,
           TypeOK', CallInv(c)', UNCHANGED <<active, account>>,
           \A d \in Calls \ {c} :
              /\ pc'[d] = pc[d] /\ listed'[d] = listed[d]
              /\ pending'[d] = pending[d] /\ progress'[d] = progress[d]
              /\ offered'[d] = offered[d] /\ more'[d] = more[d] /\ result'[d] = result[d]
    PROVE  IInv'
<1>1. ASSUME NEW d \in Calls PROVE CallInv(d)'
  <2>1. CASE d # c
    <3>1. CallInv(d)
      BY DEF IInv, CallInv, LocalInv, CountsAddUp, WholeUnlessTruncated
    <3> QED
      BY <2>1, <3>1 DEF CallInv, Local, CountsOf, Uncounted
  <2> QED
    BY <2>1
<1>2. SingleFlight'
  BY DEF IInv, SingleFlight
<1> QED
  BY <1>1, <1>2 DEF IInv, CallInv, LocalInv, CountsAddUp, WholeUnlessTruncated

LEMMA Replaced ==
    ASSUME NEW f \in [Calls -> SyncProgress], NEW c \in Calls, NEW v \in SyncProgress
    PROVE  /\ [f EXCEPT ![c] = v] \in [Calls -> SyncProgress]
           /\ \A d \in Calls \ {c} : [f EXCEPT ![c] = v][d] = f[d]
           /\ [f EXCEPT ![c] = v][c] = v
OBVIOUS

LEMMA PageProgress ==
    ASSUME NEW c \in Calls, progress \in [Calls -> SyncProgress],
           NEW p \in 0 .. MaxPages, NEW n \in 0 .. KeepLimit, NEW cut \in BOOLEAN,
           progress' = [progress EXCEPT ![c].pages = p, ![c].envelopes = n,
                                        ![c].snapshot_truncated = cut]
    PROVE  /\ progress' \in [Calls -> SyncProgress]
           /\ \A d \in Calls \ {c} : progress'[d] = progress[d]
           /\ progress'[c] = [progress[c] EXCEPT !.pages = p, !.envelopes = n,
                                                 !.snapshot_truncated = cut]
<1> DEFINE r == [progress[c] EXCEPT !.pages = p, !.envelopes = n,
                                   !.snapshot_truncated = cut]
<1>1. progress' = [progress EXCEPT ![c] = r]
  OBVIOUS
<1>2. r \in SyncProgress
  BY DEF SyncProgress
<1> HIDE DEF r
<1>3. progress' \in [Calls -> SyncProgress]
  <2>1. [progress EXCEPT ![c] = r] \in [Calls -> SyncProgress]
    BY <1>2, Replaced
  <2> QED
    BY <1>1, <2>1, Zenon
<1>4. \A d \in Calls \ {c} : progress'[d] = progress[d]
  BY <1>1, <1>2, Replaced
<1>5. progress'[c] = r
  BY <1>1, <1>2, Replaced
<1> QED
  BY <1>3, <1>4, <1>5 DEF r

\* A page is taken in: what is kept of it fits, and only a listing that
\* ended without a cut is left unmarked.
LEMMA TakePageStep ==
    ASSUME IInv, NEW c \in Calls, TakePage(c)
    PROVE  IInv'
<1> USE PolicyFacts, EmptySize DEF IInv, TakePage
<1>1. PICK page \in SUBSET Envelopes, token \in Tokens \cup {NoToken} :
         PageTaken(c, page, token)
  OBVIOUS
<1> DEFINE all == listed[c] \cup page
           pages == progress[c].pages + 1
           limit == ReachedKeepLimit(all)
<1>2. PICK E \in Truncations(listed[c], all) : listed' = [listed EXCEPT ![c] = E]
  BY <1>1 DEF PageTaken
<1>3. /\ pc[c] = "list" /\ Local(c) /\ CountsOf(c) /\ progress[c] \in SyncProgress
      /\ UNCHANGED <<active, rows, account, pending, result>>
      /\ listed[c] \in SUBSET Envelopes /\ all \in SUBSET Envelopes
      /\ pc[c] \in Running
  BY DEF LocalInv, CountsAddUp, TypeOK
<1>4. /\ E \subseteq all /\ E \in SUBSET Envelopes
      /\ Cardinality(all) <= KeepLimit => E = all
      /\ Cardinality(E) = IF Cardinality(all) <= KeepLimit THEN Cardinality(all) ELSE KeepLimit
      /\ Cardinality(all) \in Nat
  <2> HIDE DEF all
  <2>1. Cardinality(all) \in Nat
    BY <1>3, EnvelopesFinite
  <2> QED
    BY <1>2, <1>3, <2>1, TruncationSize
<1>5. /\ limit <=> Cardinality(all) >= KeepLimit
      /\ LastPage(pages).stop <=> pages = MaxPages
      /\ LastPage(pages).truncated <=> pages = MaxPages
  BY DEF ReachedKeepLimit, LastPage
<1>6. progress' = [progress EXCEPT
         ![c].pages = pages,
         ![c].envelopes = Cardinality(E),
         ![c].snapshot_truncated = limit \/ (token # NoToken /\ LastPage(pages).truncated)]
  BY <1>1, <1>4 DEF PageTaken, Counted
<1>7. pages \in 0 .. MaxPages /\ Cardinality(E) \in 0 .. KeepLimit
  BY <1>3, <1>4 DEF Local, SyncProgress
<1>8. /\ \A d \in Calls \ {c} : progress'[d] = progress[d]
      /\ progress' \in [Calls -> SyncProgress]
      /\ progress'[c] = [progress[c] EXCEPT
            !.pages = pages, !.envelopes = Cardinality(E),
            !.snapshot_truncated = limit \/ (token # NoToken /\ LastPage(pages).truncated)]
  <2> HIDE DEF pages
  <2>1. (limit \/ (token # NoToken /\ LastPage(pages).truncated)) \in BOOLEAN
    BY DEF ReachedKeepLimit, LastPage
  <2> HIDE DEF limit
  <2> QED
    BY <1>6, <1>7, <2>1, PageProgress DEF TypeOK
<1>9. /\ pc' = [pc EXCEPT ![c] = IF limit \/ token = NoToken \/ LastPage(pages).stop
                                THEN "reconcile" ELSE "list"]
      /\ offered' = [offered EXCEPT ![c] = @ \cup IdsOf(page)]
      /\ more' = [more EXCEPT ![c] = token # NoToken]
      /\ tokens' \in [Calls -> SUBSET Tokens]
  <2>1. tokens \in [Calls -> SUBSET Tokens]
    BY DEF TypeOK
  <2>2. tokens' \in [Calls -> SUBSET Tokens]
    BY <1>1, <2>1 DEF PageTaken
  <2> QED
    BY <1>1, <2>2 DEF PageTaken
<1>10. TypeOK'
  <2>1. IdsOf(page) \in SUBSET Ids
    BY IdsOfSubset
  <2> QED
    BY <1>2, <1>3, <1>4, <1>8, <1>9, <2>1 DEF TypeOK
<1>11. /\ listed'[c] = E /\ account'[c] = account[c] /\ pending'[c] = pending[c]
       /\ result'[c] = result[c]
       /\ pc'[c] = IF limit \/ token = NoToken \/ LastPage(pages).stop
                   THEN "reconcile" ELSE "list"
       /\ offered'[c] = offered[c] \cup IdsOf(page)
       /\ more'[c] = (token # NoToken)
       /\ progress'[c].pages = pages
       /\ progress'[c].envelopes = Cardinality(E)
       /\ progress'[c].body_requests = progress[c].body_requests
       /\ progress'[c].bodies_cached = progress[c].bodies_cached
       /\ progress'[c].bodies_skipped = progress[c].bodies_skipped
       /\ progress'[c].snapshot_truncated
            = (limit \/ (token # NoToken /\ LastPage(pages).truncated))
  BY <1>2, <1>3, <1>8, <1>9 DEF TypeOK, SyncProgress
<1>12. ~limit => offered'[c] = IdsOf(listed'[c])
  <2>1. ~limit => E = all
    BY <1>4, <1>5
  <2>2. IdsOf(all) = IdsOf(listed[c]) \cup IdsOf(page)
    BY <1>3, IdsOfUnion
  <2> QED
    BY <1>3, <1>11, <2>1, <2>2 DEF Local
<1>13. CallInv(c)'
  <2> HIDE DEF limit, all
  <2>1. Local(c)'
    BY <1>3, <1>5, <1>7, <1>11, <1>12 DEF Local
  <2>2. CountsOf(c)'
    BY <1>3, <1>7, <1>11, NoFailure DEF CountsOf, Uncounted, Local, SyncProgress
  <2> QED
    BY <1>5, <1>11, <1>12, <2>1, <2>2 DEF CallInv
<1> QED
  <2>1. \A d \in Calls \ {c} :
           /\ pc'[d] = pc[d] /\ listed'[d] = listed[d]
           /\ pending'[d] = pending[d] /\ progress'[d] = progress[d]
           /\ offered'[d] = offered[d] /\ more'[d] = more[d] /\ result'[d] = result[d]
    BY <1>2, <1>3, <1>8, <1>9 DEF TypeOK
  <2> QED
    BY <1>3, <1>10, <1>11, <1>13, <2>1, InsideStep

\* The reconcile chooses the bodies to ask for, no more than the limit.
LEMMA ReconcileStep ==
    ASSUME IInv, NEW c \in Calls, Reconcile(c)
    PROVE  IInv'
<1> USE PolicyFacts, EmptySize DEF IInv, Reconcile
<1>1. /\ pc[c] = "reconcile" /\ CallInv(c) /\ progress[c] \in SyncProgress
      /\ account[c] \in Accounts
  BY DEF CallInv, Local, LocalInv, CountsAddUp, WholeUnlessTruncated, TypeOK
<1>2. PICK kept \in SUBSET (rows[account[c]] \cup IdsOf(listed[c])) :
         /\ rows' = [rows EXCEPT ![account[c]] = kept]
         /\ \E first \in SUBSET (kept \cap IdsOf(listed[c])) :
              /\ Cardinality(first) <= BodyLimit
              /\ pending' = [pending EXCEPT ![c] = first]
  OBVIOUS
<1>3. PICK first \in SUBSET (kept \cap IdsOf(listed[c])) :
         Cardinality(first) <= BodyLimit /\ pending' = [pending EXCEPT ![c] = first]
  BY <1>2
<1>4. kept \in SUBSET Ids /\ first \in SUBSET Ids
  BY <1>1, <1>2, <1>3, IdsOfSubset DEF TypeOK
<1>5. rows' \in [Accounts -> SUBSET Ids]
  BY <1>1, <1>2, <1>4, RowsType
<1>6. TypeOK'
  BY <1>3, <1>4, <1>5 DEF TypeOK
<1>7. CallInv(c)'
  <2>1. pending'[c] = first /\ pc'[c] = "bodies" /\ Cardinality(first) \in Nat
    BY <1>3, <1>4, IdsFinite DEF TypeOK
  <2> QED
    BY <1>1, <1>3, <2>1, NoFailure DEF CallInv, Local, CountsOf, Uncounted, SyncProgress
<1> QED
  BY <1>1, <1>3, <1>6, <1>7, InsideStep DEF TypeOK

\* A body is asked for while there are survivors left.
LEMMA RequestBodyStep ==
    ASSUME IInv, NEW c \in Calls, RequestBody(c)
    PROVE  IInv'
<1> USE PolicyFacts DEF IInv, RequestBody
<1> DEFINE r == [progress[c] EXCEPT !.body_requests = @ + 1]
<1>1. /\ pc[c] = "bodies" /\ CallInv(c) /\ progress[c] \in SyncProgress
      /\ pending[c] \in SUBSET Ids /\ pending[c] # {}
  BY DEF CallInv, LocalInv, CountsAddUp, WholeUnlessTruncated, TypeOK
<1>2. Cardinality(pending[c]) \in Nat /\ Cardinality(pending[c]) # 0
  BY <1>1, IdsFinite, FS_EmptySet
<1>3. r \in SyncProgress
  BY <1>1, <1>2, NoFailure DEF SyncProgress, CallInv, CountsOf, Uncounted, Local
<1>4. progress' = [progress EXCEPT ![c] = r]
  OBVIOUS
<1>5. CallInv(c)'
  <2>1. pc'[c] = "fetching" /\ progress'[c] = r
    BY <1>4 DEF TypeOK
  <2> QED
    BY <1>1, <2>1, NoFailure DEF CallInv, Local, CountsOf, Uncounted, SyncProgress
<1>6. TypeOK'
  <2> HIDE DEF r
  <2> QED
    BY <1>3, <1>4 DEF TypeOK
<1> QED
  <2> HIDE DEF r
  <2> QED
    BY <1>1, <1>4, <1>5, <1>6, InsideStep DEF TypeOK

\* A request that was answered is counted once, and its message is done.
LEMMA SettleBodyStep ==
    ASSUME IInv, NEW c \in Calls, SettleBody(c)
    PROVE  IInv'
<1> USE PolicyFacts DEF IInv, SettleBody
<1>1. /\ pc[c] = "fetching" /\ CallInv(c) /\ progress[c] \in SyncProgress
      /\ pending[c] \in SUBSET Ids
  BY DEF CallInv, LocalInv, CountsAddUp, WholeUnlessTruncated, TypeOK
<1>2. PICK m \in pending[c], found \in BOOLEAN :
         /\ progress' = [progress EXCEPT ![c] = Settled(c, m, found)]
         /\ pending' = [pending EXCEPT ![c] = @ \ {m}]
  OBVIOUS
<1> DEFINE r == Settled(c, m, found)
<1>3. /\ Cardinality(pending[c] \ {m}) = Cardinality(pending[c]) - 1
      /\ Cardinality(pending[c]) \in Nat /\ Cardinality(pending[c] \ {m}) \in Nat
  <2>1. pending[c] \ {m} \in SUBSET Ids
    BY <1>1
  <2> QED
    BY <1>1, <2>1, IdsFinite, FS_RemoveElement
<1>4. progress' = [progress EXCEPT ![c] = r]
  BY <1>2
<1>5. progress[c].bodies_cached + progress[c].bodies_skipped + 1 <= BodyLimit
  BY <1>1, <1>3 DEF SyncProgress, CallInv, CountsOf, Local
<1>6. /\ r \in SyncProgress
      /\ r.bodies_cached + r.bodies_skipped
           = progress[c].bodies_cached + progress[c].bodies_skipped + 1
      /\ r.pages = progress[c].pages /\ r.envelopes = progress[c].envelopes
      /\ r.body_requests = progress[c].body_requests
      /\ r.snapshot_truncated = progress[c].snapshot_truncated
  <2>1. CASE found /\ m \in rows[account[c]]
    BY <1>1, <1>5, <2>1 DEF Settled, SyncProgress
  <2>2. CASE ~(found /\ m \in rows[account[c]])
    BY <1>1, <1>5, <2>2 DEF Settled, SyncProgress
  <2> QED
    BY <2>1, <2>2
<1> HIDE DEF r
<1>7. TypeOK'
  BY <1>1, <1>2, <1>4, <1>6 DEF TypeOK
<1>8. CallInv(c)'
  <2>1. /\ pc'[c] = "bodies" /\ progress'[c] = r /\ pending'[c] = pending[c] \ {m}
        /\ listed'[c] = listed[c] /\ account'[c] = account[c]
        /\ offered'[c] = offered[c] /\ more'[c] = more[c] /\ result'[c] = result[c]
    BY <1>2, <1>4 DEF TypeOK
  <2> HIDE DEF IInv, SettleBody
  <2>2. Local(c)'
    BY <1>1, <1>6, <2>1 DEF CallInv, Local
  <2>3. CountsOf(c)'
    BY <1>1, <1>3, <1>6, <2>1, NoFailure
       DEF CallInv, CountsOf, Uncounted, Local, SyncProgress
  <2> QED
    BY <1>1, <1>6, <2>1, <2>2, <2>3 DEF CallInv
<1> QED
  BY <1>1, <1>2, <1>4, <1>7, <1>8, InsideStep DEF TypeOK

\* Another writer touches rows only.
LEMMA DisplaceStep ==
    ASSUME IInv, NEW a \in Accounts, Displace(a)
    PROVE  IInv'
<1>1. PICK m \in rows[a] : rows' = [rows EXCEPT ![a] = rows[a] \ {m}]
  BY DEF Displace
<1>2. TypeOK'
  BY <1>1, RowsType DEF IInv, TypeOK, Displace
<1> QED
  BY <1>2 DEF IInv, CountsAddUp, CountsOf, Uncounted, LocalInv, Local, SingleFlight,
              WholeUnlessTruncated, Displace

-----------------------------------------------------------------------------
(* The theorems.                                                           *)

\* A page the call ends at is counted, and as much of it as was looked at.
LEMMA RefusePageStep ==
    ASSUME IInv, NEW c \in Calls, NEW source \in SyncFailureSource, RefusePage(c, source)
    PROVE  IInv'
<1>1. PICK taken \in SUBSET Envelopes :
         Leave(c, "idle", [progress[c] EXCEPT !.pages = @ + 1,
                              !.envelopes = Counted(listed[c] \cup taken)], source)
  BY DEF RefusePage
<1> DEFINE n == Counted(listed[c] \cup taken)
           report == [progress[c] EXCEPT !.pages = @ + 1, !.envelopes = n]
<1>2. n \in 0 .. KeepLimit
  <2>1. listed[c] \cup taken \in SUBSET Envelopes
    BY DEF IInv, TypeOK
  <2> QED
    BY <2>1, CountedType
<1> HIDE DEF n
<1>3. /\ pc[c] = "list" /\ progress[c] \in SyncProgress /\ UNCHANGED rows
      /\ progress[c].pages < MaxPages /\ progress[c].body_requests = 0
      /\ result[c] = "none" /\ CountsOf(c)
  BY DEF RefusePage, IInv, TypeOK, LocalInv, Local, CountsAddUp
<1> DEFINE p == progress[c].pages + 1
<1>4. p \in 0 .. MaxPages
  BY <1>3, PolicyFacts DEF SyncProgress
<1>5. /\ report.pages = p /\ report.envelopes = n
      /\ report.body_requests = 0
      /\ report.bodies_cached = progress[c].bodies_cached
      /\ report.bodies_skipped = progress[c].bodies_skipped
  BY <1>3 DEF SyncProgress
<1>6. report \in SyncProgress
  <2>1. report = [progress[c] EXCEPT !.pages = p, !.envelopes = n]
    OBVIOUS
  <2> HIDE DEF p, report
  <2> QED
    BY <1>2, <1>3, <1>4, <2>1 DEF SyncProgress
<1>7. progress[c].bodies_cached + progress[c].bodies_skipped = 0 /\ report.pages # 0
  BY <1>3, <1>5, NoFailure DEF CountsOf, Uncounted, SyncProgress
<1>8. source \in Results
  BY DEF Results
<1>9. Leave(c, "idle", report, source)
  BY <1>1 DEF n
<1> HIDE DEF report
<1> QED
  BY <1>3, <1>5, <1>6, <1>7, <1>8, <1>9, LeaveStep

\* A failure tells what was counted: of the bodies all but the one it is about.
LEMMA FailStep ==
    ASSUME IInv, NEW c \in Calls, NEW source \in SyncFailureSource, Fail(c, source)
    PROVE  IInv'
<1>1. /\ pc[c] \in {"list", "reconcile", "fetching"} /\ progress[c] \in SyncProgress
      /\ pc[c] # "fetching" => progress[c].body_requests = 0
      /\ result[c] = "none" /\ CountsOf(c) /\ source \in Results
  BY DEF Fail, IInv, TypeOK, LocalInv, Local, CountsAddUp, Results
<1>2. /\ progress[c].pages = 0 => progress[c].envelopes = 0
      /\ progress[c].body_requests
           = progress[c].bodies_cached + progress[c].bodies_skipped
               + (IF source \in SyncFailureSource /\ progress[c].body_requests > 0
                  THEN 1 ELSE 0)
  BY <1>1, PolicyFacts, NoFailure DEF CountsOf, Uncounted, SyncProgress
<1>3. Leave(c, "idle", progress[c], source) /\ UNCHANGED rows
  BY DEF Fail
<1> QED
  BY <1>1, <1>2, <1>3, LeaveStep

\* The ends of a call without an error: the report, or the future is dropped.
LEMMA EndStep ==
    ASSUME IInv, NEW c \in Calls, Report(c) \/ Drop(c)
    PROVE  IInv'
<1>1. /\ {"none", "report"} \subseteq Results
      /\ "none" \notin SyncFailureSource /\ "report" \notin SyncFailureSource
  BY NoFailure DEF Results
<1>2. CASE Report(c)
  <2>1. /\ pc[c] = "bodies" /\ progress[c] \in SyncProgress
        /\ result[c] = "none" /\ CountsOf(c)
    BY <1>2 DEF Report, IInv, TypeOK, LocalInv, Local, CountsAddUp
  <2>2. /\ progress[c].pages = 0 => progress[c].envelopes = 0
        /\ progress[c].body_requests
             = progress[c].bodies_cached + progress[c].bodies_skipped + 0
    BY <1>1, <2>1 DEF CountsOf, Uncounted
  <2> QED
    BY <1>1, <1>2, <2>1, <2>2, LeaveStep DEF Report
<1>3. CASE Drop(c)
  <2>1. /\ NoProgress \in SyncProgress
        /\ NoProgress.envelopes = 0
        /\ NoProgress.body_requests
             = NoProgress.bodies_cached + NoProgress.bodies_skipped + 0
    BY PolicyFacts DEF NoProgress, SyncProgress
  <2> QED
    BY <1>1, <1>3, <2>1, LeaveStep DEF Drop
<1> QED
  BY <1>2, <1>3

\* The invariant is kept by every step of every call and of other writers.
LEMMA NextIInv == IInv /\ [Next]_vars => IInv'
<1> SUFFICES ASSUME IInv, [Next]_vars PROVE IInv'
  OBVIOUS
<1>1. ASSUME NEW c \in Calls, NEW a \in Accounts, Acquire(c, a) \/ Refuse(c, a)
      PROVE  IInv'
  BY <1>1, BeginStep
<1>2. ASSUME NEW c \in Calls, Advance(c)
      PROVE  IInv'
  BY <1>2, TakePageStep, ReconcileStep, RequestBodyStep, SettleBodyStep, EndStep,
         RefusePageStep, FailStep
     DEF Advance
<1>3. ASSUME NEW c \in Calls, Drop(c)
      PROVE  IInv'
  BY <1>3, EndStep
<1>4. ASSUME NEW a \in Accounts, Displace(a)
      PROVE  IInv'
  BY <1>4, DisplaceStep
<1>5. CASE UNCHANGED vars
  BY <1>5 DEF IInv, TypeOK, CountsAddUp, CountsOf, Uncounted, LocalInv, Local, SingleFlight,
              WholeUnlessTruncated, vars
<1> QED
  BY <1>1, <1>2, <1>3, <1>4, <1>5 DEF Next

\* The inductive invariant holds throughout.
THEOREM Inductive == Spec => []IInv
<1> QED
  BY InitIInv, NextIInv, PTL DEF Spec

\* Every variable keeps its type: the pages, the envelopes and the bodies of
\* a report never exceed the policy.
THEOREM TypeCorrect == Spec => []TypeOK
<1>1. IInv => TypeOK
  BY DEF IInv
<1> QED
  BY <1>1, Inductive, PTL

\* What a report or a failure says of a call adds up, as it does at every moment
\* of the call: the envelopes of the pages it took, and of its body requests all
\* but the one that is under way or failed.
THEOREM CountsCorrect == Spec => []CountsAddUp
<1>1. IInv => CountsAddUp
  BY DEF IInv
<1> QED
  BY <1>1, Inductive, PTL

\* Calls for one account never overlap, and no claim outlives its call.
THEOREM SingleFlightCorrect == Spec => []SingleFlight
<1>1. IInv => SingleFlight
  BY DEF IInv
<1> QED
  BY <1>1, Inductive, PTL

\* A snapshot left unmarked holds all the remote listed, and the remote had
\* no more.
THEOREM WholeCorrect == Spec => []WholeUnlessTruncated
<1>1. IInv => WholeUnlessTruncated
  BY DEF IInv
<1> QED
  BY <1>1, Inductive, PTL
=============================================================================

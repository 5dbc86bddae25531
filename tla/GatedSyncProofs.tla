-------------------------- MODULE GatedSyncProofs --------------------------
(***************************************************************************)
(* Proofs about GatedSync, for any number of cycles, identities and        *)
(* messages: type correctness, the single owner of the store, what it      *)
(* takes to exhaust the gate, what retention keeps, and the refinement of  *)
(* MailboxOwnership.                                                       *)
(***************************************************************************)
EXTENDS GatedSync, TLAPS, FiniteSetTheorems, WellFoundedInduction

USE DEF Gate, Sync, Ended, Holder

\* What a cycle's locals say while it runs: it has a session, and a gate
\* about to record found an identity that is not its own.
LocalInv ==
    \A c \in Cycles :
       /\ pc[c] \in Gate \cup Sync => subject[c] \in Subjects
       /\ pc[c] = "record" => stored[c] # subject[c]
       /\ pc[c] \in Ended => attempts[c] = 0

\* Every attempt lost so far is paid for by a race, and a gate that is about
\* to lose another has been raced once more than it has lost.
RaceInv ==
    \A c \in Cycles :
       /\ pc[c] \in Gate => attempts[c] <= races[c]
       /\ pc[c] = "record" /\ recorded # stored[c] => attempts[c] < races[c]
       /\ pc[c] = "exhausted" => races[c] >= MaxAttempts

IInv == TypeOK /\ OneOwner /\ LocalInv /\ RaceInv

-----------------------------------------------------------------------------

LEMMA KeepNewestSubset == \A S : KeepNewest(S) \subseteq S
  BY DEF KeepNewest

\* The initial state satisfies the inductive invariant.
LEMMA InitIInv == Init => IInv
  BY LimitsAssumption
     DEF Init, IInv, TypeOK, OneOwner, LocalInv, RaceInv, Empty

\* Ending a cycle keeps the types, whatever the outcome.
LEMMA EndTypes ==
    ASSUME NEW c \in Cycles, NEW how \in Ended, TypeOK, End(c, how),
           UNCHANGED store
    PROVE  TypeOK'
  BY LimitsAssumption DEF TypeOK, End, store

\* Type correctness is preserved by every step.
LEMMA TypeStep == TypeOK /\ LocalInv /\ [Next]_vars => TypeOK'
<1> SUFFICES ASSUME TypeOK, LocalInv, [Next]_vars
             PROVE  TypeOK'
  OBVIOUS
<1> USE LimitsAssumption
<1>1. ASSUME NEW c \in Cycles, NEW s \in Subjects, Begin(c, s)
      PROVE  TypeOK'
  BY <1>1 DEF TypeOK, Begin, store
<1>2. ASSUME NEW c \in Cycles, Progress(c)
      PROVE  TypeOK'
  <2>1. CASE LoadIdentity(c)
    BY <2>1 DEF TypeOK, LoadIdentity, store
  <2>2. CASE RecordIdentity(c)
    <3>1. /\ recorded' \in Holder
          /\ pc' \in [Cycles -> Gate \cup Sync \cup Ended]
          /\ UNCHANGED <<subject, stored, attempts, pending>>
      BY <2>2 DEF TypeOK, RecordIdentity
    <3>2. /\ owner' \in [Ids -> Holder]
          /\ body' \in [Ids -> Holder]
          /\ read' \subseteq Ids
      BY <2>2 DEF TypeOK, RecordIdentity, Empty
    <3>3. races' \in [Cycles -> 0 .. MaxAttempts]
      BY <2>2 DEF TypeOK, RecordIdentity, CountRace
    <3> QED
      BY <3>1, <3>2, <3>3 DEF TypeOK
  <2>3. CASE LoseRace(c)
    <3>1. CASE OutOfAttempts(c)
      BY <2>3, <3>1, EndTypes DEF LoseRace
    <3>2. CASE ~OutOfAttempts(c)
      BY <2>3, <3>2 DEF LoseRace, OutOfAttempts, TypeOK, store
    <3> QED
      BY <3>1, <3>2
  <2>4. CASE Reconcile(c)
    <3>1. PICK listed \in SUBSET Ids, unread \in SUBSET Ids :
            /\ ApplyListing(subject[c], listed, unread)
            /\ \E first \in FirstSurvivors(listed \cap Kept(listed)) :
                 pending' = [pending EXCEPT ![c] = first]
      BY <2>4 DEF Reconcile
    <3>2. owner' \in [Ids -> Holder] /\ body' \in [Ids -> Holder]
      BY <3>1 DEF TypeOK, ApplyListing
    <3>3. read' \subseteq Ids
      <4>1. Kept(listed) \subseteq Ids
        BY KeepNewestSubset DEF Kept, Present
      <4> QED
        BY <3>1, <4>1 DEF ApplyListing, ReadAfter
    <3>4. pending' \in [Cycles -> SUBSET Ids]
      BY <3>1 DEF TypeOK, FirstSurvivors
    <3> QED
      BY <2>4, <3>2, <3>3, <3>4 DEF TypeOK, Reconcile
  <2>5. CASE CacheBody(c)
    BY <2>5 DEF TypeOK, CacheBody
  <2>6. CASE SkipBody(c)
    BY <2>6 DEF TypeOK, SkipBody, store
  <2>7. CASE Finish(c)
    BY <2>7, EndTypes DEF Finish
  <2>8. CASE Fenced(c)
    BY <2>8, EndTypes DEF Fenced
  <2>9. CASE Fail(c)
    BY <2>9, EndTypes DEF Fail
  <2> QED
    BY <1>2, <2>1, <2>2, <2>3, <2>4, <2>5, <2>6, <2>7, <2>8, <2>9 DEF Progress
<1>3. CASE MarkRead
  BY <1>3 DEF TypeOK, MarkRead, local, Present
<1>4. CASE Purge
  BY <1>4 DEF TypeOK, Purge, local, Empty
<1>5. CASE UNCHANGED vars
  BY <1>5 DEF TypeOK, vars
<1> QED
  BY <1>1, <1>2, <1>3, <1>4, <1>5 DEF Next

-----------------------------------------------------------------------------

\* One identity owns all mail, after every step: the compare-and-set makes
\* an identity change start from no mail or clear it, and the fence makes
\* every write one of the recorded identity.
LEMMA OwnerStep == TypeOK /\ OneOwner /\ [Next]_vars => OneOwner'
<1> SUFFICES ASSUME TypeOK, OneOwner, [Next]_vars
             PROVE  OneOwner'
  OBVIOUS
<1>1. CASE UNCHANGED <<recorded, owner, body>>
  BY <1>1 DEF OneOwner
<1>2. ASSUME NEW c \in Cycles, RecordIdentity(c)
      PROVE  OneOwner'
  <2>1. CASE Decide(stored[c], subject[c]) = "ClearAndRecord"
    BY <1>2, <2>1 DEF RecordIdentity, OneOwner, Empty
  <2>2. CASE stored[c] = subject[c]
    BY <1>2, <2>2 DEF RecordIdentity, IdentityMatchesExpected, OneOwner,
                      Decide, Empty
  <2>3. CASE stored[c] = NoIdentity
    <3>1. recorded = NoIdentity
      BY <1>2, <2>3 DEF RecordIdentity, IdentityMatchesExpected
    <3>2. \A m \in Ids : owner[m] = NoIdentity /\ body[m] = NoIdentity
      BY <3>1 DEF OneOwner
    <3>3. \A m \in Ids : owner'[m] = NoIdentity /\ body'[m] = NoIdentity
      BY <1>2, <3>2 DEF RecordIdentity, Empty
    <3> QED
      BY <3>3 DEF OneOwner
  <2> QED
    BY <2>1, <2>2, <2>3 DEF Decide
<1>3. ASSUME NEW c \in Cycles, Reconcile(c)
      PROVE  OneOwner'
  <2>1. recorded' = recorded /\ recorded = subject[c]
    BY <1>3 DEF Reconcile, IdentityUnchanged
  <2>2. PICK listed \in SUBSET Ids, unread \in SUBSET Ids :
          ApplyListing(subject[c], listed, unread)
    BY <1>3 DEF Reconcile
  <2> QED
    BY <2>1, <2>2 DEF OneOwner, ApplyListing
<1>4. ASSUME NEW c \in Cycles, CacheBody(c)
      PROVE  OneOwner'
  BY <1>4 DEF CacheBody, IdentityUnchanged, OneOwner, TypeOK
<1>5. CASE Purge
  BY <1>5 DEF Purge, OneOwner, Empty
<1> QED
  BY <1>1, <1>2, <1>3, <1>4, <1>5
     DEF Next, Begin, Progress, LoadIdentity, LoseRace, SkipBody, Finish,
         Fenced, Fail, End, MarkRead, store, vars

\* The locals of a running cycle, after every step.
LEMMA LocalStep == TypeOK /\ LocalInv /\ [Next]_vars => LocalInv'
<1> SUFFICES ASSUME TypeOK, LocalInv, [Next]_vars
             PROVE  LocalInv'
  OBVIOUS
<1> USE DEF LocalInv
<1>1. ASSUME NEW c \in Cycles, NEW s \in Subjects, Begin(c, s)
      PROVE  LocalInv'
  BY <1>1 DEF TypeOK, Begin, store
<1>2. ASSUME NEW c \in Cycles, Progress(c)
      PROVE  LocalInv'
  <2>1. ASSUME NEW how \in Ended, End(c, how)
        PROVE  LocalInv'
    BY <2>1 DEF TypeOK, End
  <2>2. CASE LoadIdentity(c)
    <3>1. stored'[c] = recorded /\ subject' = subject /\ attempts' = attempts
      BY <2>2 DEF TypeOK, LoadIdentity
    <3>2. /\ pc'[c] \in {"reconcile", "record"}
          /\ pc'[c] = "record" => recorded # subject[c]
      BY <1>2, <2>2, NoIdentityIsNone DEF TypeOK, LoadIdentity, Decide
    <3>3. \A d \in Cycles \ {c} : pc'[d] = pc[d] /\ stored'[d] = stored[d]
      BY <2>2 DEF TypeOK, LoadIdentity
    <3> QED
      BY <2>2, <3>1, <3>2, <3>3 DEF TypeOK, LoadIdentity
  <2>3. CASE RecordIdentity(c)
    BY <2>3 DEF TypeOK, RecordIdentity
  <2>4. CASE LoseRace(c)
    BY <2>1, <2>4 DEF TypeOK, LoseRace
  <2>5. CASE Reconcile(c)
    BY <2>5 DEF TypeOK, Reconcile
  <2>6. CASE CacheBody(c) \/ SkipBody(c)
    BY <2>6 DEF CacheBody, SkipBody
  <2>7. CASE Finish(c) \/ Fenced(c) \/ Fail(c)
    BY <2>1, <2>7 DEF Finish, Fenced, Fail
  <2> QED
    BY <1>2, <2>2, <2>3, <2>4, <2>5, <2>6, <2>7 DEF Progress
<1>3. CASE MarkRead \/ Purge
  BY <1>3 DEF MarkRead, Purge, local
<1>4. CASE UNCHANGED vars
  BY <1>4 DEF vars
<1> QED
  BY <1>1, <1>2, <1>3, <1>4 DEF Next

\* A race is counted for each gate it may cost an attempt.
LEMMA CountedRace ==
    ASSUME TypeOK, LocalInv, RaceInv, NEW c \in Cycles, NEW d \in Cycles \ {c},
           CountRace(c), pc[d] \in Gate
    PROVE  attempts[d] < races'[d]
  BY LimitsAssumption DEF TypeOK, RaceInv, CountRace

\* The attempts a gate has lost never exceed the races it met.
LEMMA RaceStep == TypeOK /\ LocalInv /\ RaceInv /\ [Next]_vars => RaceInv'
<1> SUFFICES ASSUME TypeOK, LocalInv, RaceInv, [Next]_vars
             PROVE  RaceInv'
  OBVIOUS
<1> USE LimitsAssumption
<1>1. ASSUME NEW c \in Cycles, NEW s \in Subjects, Begin(c, s)
      PROVE  RaceInv'
  BY <1>1 DEF TypeOK, LocalInv, RaceInv, Begin, store
<1>2. ASSUME NEW c \in Cycles, Progress(c)
      PROVE  RaceInv'
  <2>1. ASSUME End(c, "idle"), UNCHANGED store
        PROVE  RaceInv'
    BY <2>1 DEF TypeOK, RaceInv, End, store
  <2>2. CASE LoadIdentity(c)
    BY <2>2 DEF TypeOK, RaceInv, LoadIdentity, store
  <2>3. CASE RecordIdentity(c)
    <3>1. /\ pc' = [pc EXCEPT ![c] = "reconcile"]
          /\ UNCHANGED <<stored, attempts>>
          /\ CountRace(c)
      BY <2>3 DEF RecordIdentity
    <3>2. ASSUME NEW d \in Cycles \ {c}
          PROVE  /\ pc'[d] \in Gate => attempts'[d] < races'[d]
                 /\ pc'[d] = "exhausted" => races'[d] >= MaxAttempts
      <4>1. CASE pc[d] \in Gate
        BY <3>1, <4>1, CountedRace DEF TypeOK
      <4>2. CASE pc[d] \notin Gate
        BY <3>1, <4>2 DEF TypeOK, RaceInv, CountRace
      <4> QED
        BY <4>1, <4>2
    <3>3. pc'[c] = "reconcile"
      BY <3>1 DEF TypeOK
    <3>4. \A d \in Cycles : attempts'[d] \in Nat /\ races'[d] \in Nat
      BY <3>1 DEF TypeOK, CountRace
    <3> QED
      BY <3>2, <3>3, <3>4 DEF RaceInv
  <2>4. CASE LoseRace(c)
    <3>1. attempts[c] < races[c]
      BY <2>4 DEF LoseRace, IdentityMatchesExpected, RaceInv
    <3>2. CASE OutOfAttempts(c)
      BY <2>4, <3>1, <3>2 DEF LoseRace, OutOfAttempts, End, TypeOK, RaceInv, store
    <3>3. CASE ~OutOfAttempts(c)
      BY <2>4, <3>1, <3>3 DEF LoseRace, OutOfAttempts, TypeOK, RaceInv, store
    <3> QED
      BY <3>2, <3>3
  <2>5. CASE Reconcile(c)
    BY <2>5 DEF TypeOK, RaceInv, Reconcile
  <2>6. CASE CacheBody(c) \/ SkipBody(c)
    BY <2>6 DEF CacheBody, SkipBody, RaceInv, store
  <2>7. CASE Finish(c) \/ Fenced(c) \/ Fail(c)
    BY <2>1, <2>7 DEF Finish, Fenced, Fail
  <2> QED
    BY <1>2, <2>2, <2>3, <2>4, <2>5, <2>6, <2>7 DEF Progress
<1>3. CASE MarkRead
  BY <1>3 DEF MarkRead, RaceInv, local
<1>4. CASE Purge
  BY <1>4 DEF Purge, RaceInv, TypeOK, LocalInv, local
<1>5. CASE UNCHANGED vars
  BY <1>5 DEF RaceInv, vars
<1> QED
  BY <1>1, <1>2, <1>3, <1>4, <1>5 DEF Next

-----------------------------------------------------------------------------

\* The inductive invariant holds in every reachable state.
THEOREM Invariance == Spec => []IInv
<1>1. IInv /\ [Next]_vars => IInv'
  BY TypeStep, OwnerStep, LocalStep, RaceStep DEF IInv
<1> QED
  BY InitIInv, <1>1, PTL DEF Spec

\* Type correctness.
THEOREM TypeCorrect == Spec => []TypeOK
<1>1. IInv => TypeOK
  BY DEF IInv
<1> QED
  BY Invariance, <1>1, PTL

\* However many cycles of however many identities overlap, the store never
\* holds mail of an identity other than the one it has recorded.
THEOREM SingleOwner == Spec => []OneOwner
<1>1. IInv => OneOwner
  BY DEF IInv
<1> QED
  BY Invariance, <1>1, PTL

\* The gate fails closed for want of attempts only when it was raced that
\* many times.
THEOREM ExhaustionIsRaced == Spec => []ExhaustedOnlyByRaces
<1>1. IInv => ExhaustedOnlyByRaces
  BY DEF IInv, RaceInv, ExhaustedOnlyByRaces
<1> QED
  BY Invariance, <1>1, PTL

\* A message marked read stays read while its row does and the slot does not
\* change hands, whatever listing or body arrives late.
THEOREM ReadMarksStick == Spec => ReadSticks
<1> DEFINE Sticks == recorded' = recorded => read \cap Present' \subseteq read'
<1>1. ASSUME IInv, [Next]_vars
      PROVE  [Sticks]_vars
  <2> USE DEF IInv, Present
  <2>1. CASE UNCHANGED read
    BY <2>1
  <2>2. ASSUME NEW c \in Cycles, RecordIdentity(c)
        PROVE  recorded' # recorded
    BY <1>1, <2>2 DEF LocalInv, RecordIdentity, IdentityMatchesExpected
  <2>3. ASSUME NEW c \in Cycles, Reconcile(c)
        PROVE  Sticks
    <3>1. PICK listed \in SUBSET Ids, unread \in SUBSET Ids :
            ApplyListing(subject[c], listed, unread)
      BY <2>3 DEF Reconcile
    <3>2. Present' \subseteq Kept(listed)
      BY <3>1 DEF ApplyListing
    <3>3. read' = Kept(listed) \cap (read \cup (listed \ unread))
      BY <3>1 DEF ApplyListing, ReadAfter
    <3> QED
      BY <3>2, <3>3
  <2>4. ASSUME NEW c \in Cycles, CacheBody(c)
        PROVE  Sticks
    BY <2>4 DEF CacheBody
  <2>5. CASE Purge
    BY <2>5 DEF Purge, Empty
  <2>6. CASE MarkRead
    BY <2>6 DEF MarkRead
  <2> QED
    BY <1>1, <2>1, <2>2, <2>3, <2>4, <2>5, <2>6
       DEF Next, Begin, Progress, LoadIdentity, LoseRace, SkipBody, Finish,
           Fenced, Fail, End, store, vars
<1> QED
  BY Invariance, <1>1, PTL DEF Spec, ReadSticks

-----------------------------------------------------------------------------
(* Retention. A message's number is its place in the store's order, the    *)
(* most recent first.                                                      *)

\* A set of messages has a most recent one.
LEMMA MostRecent ==
    ASSUME NEW S, S \subseteq Nat, S # {}
    PROVE  \E m \in S : \A n \in S : ~(n < m)
<1>1. \E m \in S : \A n \in S : <<n, m>> \notin OpToRel(<, Nat)
  BY NatLessThanWellFounded, WFMin, Zenon
<1> QED
  BY <1>1 DEF OpToRel

Newer(S, m) == {n \in S : n < m}

\* What is newer than the older of two is more.
LEMMA NewerCounts ==
    ASSUME NEW S, S \subseteq Ids, NEW m \in Ids
    PROVE  /\ IsFiniteSet(Newer(S, m)) /\ Cardinality(Newer(S, m)) \in Nat
           /\ \A n \in S : n < m =>
                Cardinality(Newer(S, n)) < Cardinality(Newer(S, m))
<1>1. IsFiniteSet(Newer(S, m)) /\ Cardinality(Newer(S, m)) \in Nat
  BY IdsAssumption, FS_Subset, FS_CardinalityType DEF Newer
<1>2. ASSUME NEW n \in S, n < m
      PROVE  Cardinality(Newer(S, n)) < Cardinality(Newer(S, m))
  <2>1. Newer(S, n) \subseteq Newer(S, m) /\ n \in Newer(S, m) /\ n \notin Newer(S, n)
    <3>1. n \in Nat /\ m \in Nat /\ S \subseteq Nat
      BY IdsAssumption
    <3>2. n \in Newer(S, m) /\ n \notin Newer(S, n)
      BY <1>2, <3>1 DEF Newer
    <3>3. \A k \in Newer(S, n) : k \in S /\ k < m
      BY <1>2, <3>1 DEF Newer
    <3> QED
      BY <3>2, <3>3 DEF Newer
  <2>2. Newer(S, n) # Newer(S, m)
    BY <2>1
  <2>3. /\ IsFiniteSet(Newer(S, n))
        /\ Cardinality(Newer(S, n)) <= Cardinality(Newer(S, m))
        /\ Cardinality(Newer(S, n)) # Cardinality(Newer(S, m))
    BY <1>1, <2>1, <2>2, FS_Subset
  <2> QED
    BY <1>1, <2>3, FS_CardinalityType
<1> QED
  BY <1>1, <1>2

LEMMA KeptAreFew ==
    ASSUME NEW S, S \subseteq Ids
    PROVE  /\ IsFiniteSet(KeepNewest(S)) /\ Cardinality(KeepNewest(S)) <= KeepLimit
<1> DEFINE rank == [m \in KeepNewest(S) |-> Cardinality(Newer(S, m))]
<1>1. \A m \in KeepNewest(S) : m \in Ids /\ rank[m] \in 0..(KeepLimit - 1)
  BY NewerCounts, LimitsAssumption DEF KeepNewest, Newer
<1>2. \A m, n \in KeepNewest(S) : n < m => rank[n] < rank[m]
  BY NewerCounts DEF KeepNewest
<1>3. \A m, n \in KeepNewest(S) : rank[m] = rank[n] => m = n
  <2> SUFFICES ASSUME NEW m \in KeepNewest(S), NEW n \in KeepNewest(S), rank[m] = rank[n]
               PROVE  m = n
    OBVIOUS
  <2> HIDE DEF rank
  <2>1. m \in Nat /\ n \in Nat /\ rank[m] \in Nat /\ rank[n] \in Nat
    <3>1. 0..(KeepLimit - 1) \subseteq Nat
      BY LimitsAssumption
    <3> QED
      BY <1>1, <3>1, IdsAssumption
  <2>2. ~(m < n) /\ ~(n < m)
    BY <1>2, <2>1
  <2> QED
    BY <2>1, <2>2
<1>4. rank \in Injection(KeepNewest(S), 0..(KeepLimit - 1))
  BY <1>1, <1>3 DEF Injection, IsInjective
<1>5. /\ IsFiniteSet(0..(KeepLimit - 1))
      /\ Cardinality(0..(KeepLimit - 1)) = KeepLimit
  BY FS_Interval, LimitsAssumption
<1> HIDE DEF rank
<1> QED
  BY <1>4, <1>5, FS_Injection

LEMMA OnlyTheOldestGo ==
    ASSUME NEW S, S \subseteq Ids, NEW m \in S, m \notin KeepNewest(S)
    PROVE  Cardinality(Newer(KeepNewest(S), m)) >= KeepLimit
<1> DEFINE B == Newer(S, m)
           D == Newer(KeepNewest(S), m)
<1>1. D \subseteq B /\ IsFiniteSet(B) /\ B \subseteq Ids /\ Cardinality(B) \in Nat
  BY NewerCounts DEF Newer, KeepNewest
<1>2. IsFiniteSet(D) /\ Cardinality(D) \in Nat
  BY <1>1, FS_Subset, FS_CardinalityType
<1>3. Cardinality(B) >= KeepLimit
  BY <1>1, LimitsAssumption DEF KeepNewest, Newer
<1>4. ASSUME Cardinality(D) < KeepLimit
      PROVE  FALSE
  <2>1. B \ D # {} /\ B \ D \subseteq Nat
    <3>1. B # D
      BY <1>1, <1>2, <1>3, <1>4, LimitsAssumption
    <3> QED
      BY <3>1, <1>1, IdsAssumption
  <2>2. PICK n \in B \ D : \A k \in B \ D : ~(k < n)
    BY <2>1, MostRecent
  <2>3. n \in S /\ n < m /\ n \in Nat /\ m \in Nat /\ n \notin KeepNewest(S)
    BY <2>2, IdsAssumption DEF Newer
  <2>4. Newer(S, n) \subseteq D
    <3> SUFFICES ASSUME NEW k \in Newer(S, n) PROVE k \in D
      OBVIOUS
    <3>1. k \in B /\ k < n
      BY <2>3, IdsAssumption DEF Newer
    <3> QED
      BY <3>1, <2>2
  <2>5. Cardinality(Newer(S, n)) <= Cardinality(D) /\ Cardinality(Newer(S, n)) \in Nat
    BY <2>4, <1>2, FS_Subset, FS_CardinalityType
  <2>6. Cardinality(Newer(S, n)) < KeepLimit
    BY <2>5, <1>2, <1>4, LimitsAssumption
  <2> QED
    BY <2>3, <2>6 DEF KeepNewest, Newer
<1> QED
  BY <1>2, <1>4, LimitsAssumption

\* After a reconcile the rows are those its prune kept.
LEMMA ReconciledRows ==
    ASSUME IInv, NEW c \in Cycles, NEW listed \in SUBSET Ids, NEW unread,
           Reconcile(c), ApplyListing(subject[c], listed, unread)
    PROVE  /\ Present' = KeepNewest(Present \cup listed) /\ Present \cup listed \subseteq Ids
           /\ \A m \in Kept(listed) : body'[m] = body[m]
<1>1. subject[c] # NoIdentity
  BY NoIdentityIsNone DEF IInv, LocalInv, Reconcile
<1>2. Kept(listed) \subseteq Present \cup listed /\ Present \cup listed \subseteq Ids
  BY KeepNewestSubset DEF Kept, Present
<1>3. \A m \in Ids : owner'[m] # NoIdentity <=> m \in Kept(listed)
  BY <1>1, <1>2 DEF ApplyListing, Present
<1>4. Present' = Kept(listed)
  BY <1>2, <1>3 DEF Present
<1> QED
  BY <1>2, <1>4 DEF Kept, ApplyListing

\* The other steps keep the rows, or clear them all.
LEMMA OtherRows ==
    ASSUME IInv, [Next]_vars, ~\E c \in Cycles : Reconcile(c)
    PROVE  \/ Present' = Present /\ \A m \in Ids : body[m] # NoIdentity => body'[m] # NoIdentity
           \/ Present' = {} /\ (recorded' = NoIdentity \/ recorded' # recorded)
<1>1. CASE UNCHANGED <<owner, body>>
  BY <1>1 DEF Present
<1>2. ASSUME NEW c \in Cycles, RecordIdentity(c)
      PROVE  UNCHANGED <<owner, body>> \/ (owner' = Empty /\ recorded' # recorded)
  BY <1>2 DEF RecordIdentity, IdentityMatchesExpected, IInv, LocalInv
<1>3. ASSUME NEW c \in Cycles, CacheBody(c)
      PROVE  /\ Present' = Present
             /\ \A m \in Ids : body[m] # NoIdentity => body'[m] # NoIdentity
  <2>1. subject[c] # NoIdentity
    BY <1>3, NoIdentityIsNone DEF IInv, LocalInv, CacheBody
  <2>2. \A m \in Ids : owner'[m] # NoIdentity <=> owner[m] # NoIdentity
    BY <1>3, <2>1 DEF CacheBody, IInv, TypeOK, Present
  <2>3. \A m \in Ids : body[m] # NoIdentity => body'[m] # NoIdentity
    BY <1>3, <2>1 DEF CacheBody, IInv, TypeOK
  <2> QED
    BY <2>2, <2>3 DEF Present
<1>4. CASE Purge
  BY <1>4 DEF Purge, Empty, Present
<1>5. owner' = Empty => Present' = {}
  BY DEF Empty, Present
<1> QED
  BY <1>1, <1>2, <1>3, <1>4, <1>5
     DEF Next, Begin, Progress, LoadIdentity, LoseRace, SkipBody, Finish,
         Fenced, Fail, End, MarkRead, store, vars

\* The store never holds more than keep_limit rows, whatever order cycles list,
\* cache bodies, and clear in: a body cached after a prune brings no row back.
THEOREM RetentionHolds == Spec => []WithinKeepLimit
<1>1. Init => WithinKeepLimit
  <2>1. Init => Present = {}
    BY DEF Init, Empty, Present
  <2> QED
    BY <2>1, FS_EmptySet, LimitsAssumption DEF WithinKeepLimit
<1>2. IInv /\ WithinKeepLimit /\ [Next]_vars => WithinKeepLimit'
  <2> SUFFICES ASSUME IInv, WithinKeepLimit, [Next]_vars
               PROVE  WithinKeepLimit'
    OBVIOUS
  <2>1. ASSUME NEW c \in Cycles, Reconcile(c)
        PROVE  WithinKeepLimit'
    <3>1. PICK listed \in SUBSET Ids, unread \in SUBSET Ids :
            ApplyListing(subject[c], listed, unread)
      BY <2>1 DEF Reconcile
    <3> QED
      BY <2>1, <3>1, ReconciledRows, KeptAreFew DEF WithinKeepLimit
  <2>2. CASE ~\E c \in Cycles : Reconcile(c)
    <3>1. Cardinality({}) = 0
      BY FS_EmptySet
    <3>2. Present' = Present \/ Present' = {}
      BY <2>2, OtherRows
    <3> QED
      BY <3>1, <3>2, LimitsAssumption DEF WithinKeepLimit
  <2> QED
    BY <2>1, <2>2
<1> QED
  BY Invariance, <1>1, <1>2, PTL DEF Spec

\* While the identity stays, cached mail goes for no other reason than
\* retention, and never while it is among the most recent keep_limit.
THEOREM OnlyRetentionLosesMail == Spec => CachedMailPreserved
<1> DEFINE Preserved ==
        recorded' = recorded /\ recorded # NoIdentity =>
          \A m \in Present :
            \/ /\ owner'[m] # NoIdentity
               /\ body[m] # NoIdentity => body'[m] # NoIdentity
            \/ Cardinality({n \in Present' : n < m}) >= KeepLimit
<1>1. ASSUME IInv, [Next]_vars
      PROVE  Preserved
  <2>1. ASSUME NEW c \in Cycles, Reconcile(c)
        PROVE  Preserved
    <3>1. PICK listed \in SUBSET Ids, unread \in SUBSET Ids :
            ApplyListing(subject[c], listed, unread)
      BY <2>1 DEF Reconcile
    <3>2. /\ Present' = KeepNewest(Present \cup listed) /\ Present \cup listed \subseteq Ids
          /\ \A m \in Kept(listed) : body'[m] = body[m]
      BY <1>1, <2>1, <3>1, ReconciledRows
    <3>3. ASSUME NEW m \in Present, m \in Kept(listed)
          PROVE  /\ owner'[m] # NoIdentity
                 /\ body[m] # NoIdentity => body'[m] # NoIdentity
      BY <3>2, <3>3 DEF Present, Kept
    <3>4. ASSUME NEW m \in Present, m \notin Kept(listed)
          PROVE  Cardinality({n \in Present' : n < m}) >= KeepLimit
      BY <3>2, <3>4, OnlyTheOldestGo DEF Kept, Newer
    <3> QED
      BY <3>3, <3>4
  <2>2. CASE ~\E c \in Cycles : Reconcile(c)
    BY <1>1, <2>2, OtherRows DEF Present
  <2> QED
    BY <2>1, <2>2
<1>2. IInv /\ [Next]_vars => [Preserved]_vars
  BY <1>1
<1> QED
  BY Invariance, <1>2, PTL DEF Spec, CachedMailPreserved

-----------------------------------------------------------------------------
(* The refinement. The abstract variables are the concrete ones of the     *)
(* same name, so each step is shown to be an abstract step or a stutter.   *)

LEMMA InitRefines == Init => Ownership!Init
  BY DEF Init, Empty, Ownership!Init, Ownership!Empty

LEMMA RecordRefines ==
    ASSUME IInv, NEW c \in Cycles, RecordIdentity(c)
    PROVE  Ownership!Adopt(subject[c])
<1>1. recorded = stored[c] /\ recorded # subject[c] /\ recorded' = subject[c]
  BY DEF IInv, LocalInv, RecordIdentity, IdentityMatchesExpected
<1>2. CASE recorded = NoIdentity
  <2>1. owner = Empty /\ body = Empty
    BY <1>2 DEF IInv, TypeOK, OneOwner, Empty
  <2>2. UNCHANGED <<owner, body>>
    BY <1>1, <1>2 DEF RecordIdentity, Decide
  <2> QED
    BY <1>1, <2>1, <2>2 DEF Ownership!Adopt, Ownership!Empty, Empty
<1>3. CASE recorded # NoIdentity
  <2>1. owner' = Empty /\ body' = Empty
    BY <1>1, <1>3 DEF RecordIdentity, Decide
  <2> QED
    BY <1>1, <2>1 DEF Ownership!Adopt, Ownership!Empty, Empty
<1> QED
  BY <1>2, <1>3

LEMMA ReconcileRefines ==
    ASSUME IInv, NEW c \in Cycles, Reconcile(c)
    PROVE  Ownership!Deliver
<1>1. recorded' = recorded /\ recorded = subject[c] /\ recorded \in Subjects
  BY DEF IInv, LocalInv, Reconcile, IdentityUnchanged
<1>2. PICK listed \in SUBSET Ids, unread \in SUBSET Ids :
        ApplyListing(subject[c], listed, unread)
  BY DEF Reconcile
<1>3. /\ owner' \in [Ids -> Subjects \cup {NoIdentity}]
      /\ body' \in [Ids -> Subjects \cup {NoIdentity}]
  BY <1>1, <1>2 DEF ApplyListing, IInv, TypeOK
<1>4. \A m \in Ids : /\ owner'[m] \in {owner[m], recorded, NoIdentity}
                     /\ body'[m] \in {body[m], recorded, NoIdentity}
  BY <1>1, <1>2 DEF ApplyListing
<1> QED
  BY <1>1, <1>3, <1>4 DEF Ownership!Deliver

LEMMA CacheRefines ==
    ASSUME IInv, NEW c \in Cycles, CacheBody(c)
    PROVE  Ownership!Deliver
<1>1. recorded' = recorded /\ recorded = subject[c] /\ recorded \in Subjects
  BY DEF IInv, LocalInv, CacheBody, IdentityUnchanged
<1> QED
  BY <1>1 DEF CacheBody, Ownership!Deliver, IInv, TypeOK

\* gated_sync, over the store's transactions, implements the abstract
\* ownership of the mailbox: an identity is adopted only with no mail left
\* of another, and only mail of the recorded identity is written.
THEOREM Refinement == Spec => RefinesOwnership
<1>1. IInv /\ [Next]_vars => [Ownership!Next]_(Ownership!vars)
  <2> SUFFICES ASSUME IInv, [Next]_vars
               PROVE  Ownership!Next \/ UNCHANGED Ownership!vars
    OBVIOUS
  <2> USE DEF Ownership!Next
  <2>1. CASE UNCHANGED <<recorded, owner, body>>
    BY <2>1 DEF Ownership!vars
  <2>2. ASSUME NEW c \in Cycles, RecordIdentity(c)
        PROVE  Ownership!Next
    BY <2>2, RecordRefines DEF RecordIdentity, IInv, LocalInv
  <2>3. ASSUME NEW c \in Cycles, Reconcile(c)
        PROVE  Ownership!Next
    BY <2>3, ReconcileRefines
  <2>4. ASSUME NEW c \in Cycles, CacheBody(c)
        PROVE  Ownership!Next
    BY <2>4, CacheRefines
  <2>5. CASE Purge
    BY <2>5 DEF Purge, Empty, Ownership!Forget, Ownership!Empty
  <2> QED
    BY <2>1, <2>2, <2>3, <2>4, <2>5
       DEF Next, Begin, Progress, LoadIdentity, LoseRace, SkipBody, Finish,
           Fenced, Fail, End, MarkRead, store, vars
<1> QED
  BY InitRefines, Invariance, <1>1, PTL
     DEF Spec, RefinesOwnership, Ownership!Spec

=============================================================================

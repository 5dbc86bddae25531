-------------------------- MODULE StoreOpenProofs --------------------------
(***************************************************************************)
(* Proofs about StoreOpen, for any number of callers, keys, stages,        *)
(* crashes, faults and losses. Until a store was accepted a call has it to *)
(* itself (Alone); what a call did so far tells what must be on the disk   *)
(* (CallInv); a call that may clean up is one that made the main file of a *)
(* store nobody was given (OwnerInv); and a call that failed can blame a   *)
(* fault, a loss or another call (WhyInv). Whose key the pages are under   *)
(* (KeyKnown) gives the refinement of AccountStore.                        *)
(***************************************************************************)
EXTENDS StoreOpen, TLAPS

AfterHeader == {"wal", "shm", "normalize", "migrate", "accept", "finish"} \cup Live
AfterWal == AfterHeader \ {"wal"}
AfterShm == AfterWal \ {"shm"}
Reading == {"preflight", "stage"} \cup Staging

\* The entries go together, and the contents with the entries.
DiskInv ==
    /\ NoOrphans
    /\ "main" \notin leaves => pages = "none"
    /\ "wal" \notin leaves => log = "none"
    /\ log = "schema" => pages # "none"
    /\ pages = "torn" => log = "schema"
    /\ pages \in {"torn", "schema"} => accepted
    /\ accepted => pages \in {"torn", "schema"} \/ log = "schema"

\* A store that was not accepted yet has one caller.
Alone ==
    ~accepted => \A o, p \in Openers : pc[o] # "idle" /\ pc[p] # "idle" => o = p

\* What is on the disk, by how far a call is.
CallInv(o) ==
    /\ pc[o] = "claim" => leaves = {} /\ ~accepted /\ snap[o] = {}
    /\ pc[o] = "own" => leaves = {"main"} /\ pages = "none" /\ ~accepted /\ snap[o] = {}
    /\ pc[o] \in {"journal", "header"} => "main" \in leaves /\ pages = "none" /\ fresh[o] /\ ~accepted
    /\ pc[o] \in AfterHeader => "main" \in leaves /\ pages # "none"
    /\ pc[o] \in AfterWal => "wal" \in leaves
    /\ pc[o] \in AfterShm => "shm" \in leaves
    /\ pc[o] \in {"wal", "shm", "normalize"} /\ ~fresh[o] => accepted \/ log = "schema"
    /\ pc[o] \in {"accept", "finish"} => accepted \/ log = "schema"
    /\ pc[o] \in Live => accepted

\* Who made the main file, who found it, and who may still remove it.
OwnerInv(o) ==
    /\ pc[o] \in Reading \cup {"claim", "own"} => ~owner[o] /\ ~migrated[o]
    /\ pc[o] \in Reading => Existing(o)
    /\ pc[o] \in Opening /\ ~owner[o] => Existing(o)
    /\ pc[o] \in Opening /\ owner[o] => snap[o] = {}
    /\ pc[o] \in Opening \ {"finish"} /\ owner[o] => ~migrated[o] /\ ~accepted
    /\ pc[o] = "open" /\ owner[o] => "main" \in leaves /\ pages = "none"
    /\ pc[o] \in Opening \ {"open"} /\ owner[o] => fresh[o]
    /\ pc[o] = "finish" /\ owner[o] =>
           /\ migrated[o] /\ accepted
           /\ odd \cap {"main", "wal", "shm"} = {}
    /\ pc[o] = "cleanup" =>
           /\ Authority(o) /\ ~accepted
           /\ leaves \subseteq sweep[o]

\* With a key that is not the store's a call only reads.
KeyInv(o) ==
    pc[o] \in Calling /\ "key" \in excuse[o] =>
        /\ pc[o] \in Reading
        /\ ~KeyFits(o)
        /\ pc[o] = "unstage" => result[o] # "none"

\* What the invariant says of one call.
Private(o) == pc[o] \in Live => odd \cap {"main", "wal", "shm"} = {}
Local(o) == CallInv(o) /\ OwnerInv(o) /\ KeyInv(o) /\ Private(o)

IInv ==
    /\ TypeOK
    /\ DiskInv
    /\ Alone
    /\ \A o \in Openers : Local(o)
    /\ StagesHeld

-----------------------------------------------------------------------------
(* Other calls.                                                             *)

\* A step of one call leaves what is known of another.
SameCall(p) ==
    /\ pc'[p] = pc[p] /\ key'[p] = key[p] /\ snap'[p] = snap[p]
    /\ fresh'[p] = fresh[p] /\ owner'[p] = owner[p] /\ migrated'[p] = migrated[p]
    /\ sweep'[p] = sweep[p] /\ result'[p] = result[p]
    /\ "key" \in excuse'[p] <=> "key" \in excuse[p]

\* The disk of an accepted store only gains entries.
Grown ==
    /\ \A l \in {"main", "wal", "shm"} :
          /\ l \in leaves => l \in leaves'
          /\ l \in odd' => l \in odd \/ l \notin leaves
    /\ pages' # "none" /\ pageKey' = pageKey

OneCall(o) ==
    /\ ~accepted => \A p \in Openers \ {o} : pc[p] = "idle"
    /\ \A p \in Openers \ {o} : SameCall(p)
    /\ accepted => accepted' /\ Grown

LEMMA OthersKept ==
    ASSUME IInv, NEW o \in Openers, OneCall(o)
    PROVE  Alone' /\ \A p \in Openers \ {o} : Local(p)'
<1>1. Alone'
  BY DEF IInv, Alone, OneCall, SameCall
<1>2. ASSUME NEW p \in Openers \ {o} PROVE Local(p)'
  <2>1. CASE ~accepted
    <3>1. pc'[p] = "idle"
      BY <1>2, <2>1 DEF OneCall, SameCall
    <3>. QED
      BY <3>1 DEF Local, CallInv, OwnerInv, KeyInv, Private, AfterHeader, AfterWal,
                  AfterShm, Reading, Staging, Opening, Calling, Live
  <2>2. CASE accepted
    <3>1. Local(p) /\ SameCall(p) /\ accepted' /\ Grown
      BY <1>2, <2>2 DEF IInv, OneCall
    <3>2. CallInv(p)'
      BY <3>1, <2>2 DEF Local, CallInv, SameCall, Grown, AfterHeader, AfterWal, AfterShm, Live
    <3>3. OwnerInv(p)'
      BY <3>1, <2>2 DEF Local, CallInv, OwnerInv, SameCall, Grown, AfterHeader, AfterWal,
                        AfterShm, Live, Existing, Authority, Opening, Reading, Staging
    <3>4. KeyInv(p)'
      BY <3>1, <2>2 DEF Local, KeyInv, SameCall, Grown, KeyFits
    <3>5. Private(p)'
      BY <3>1, <2>2 DEF Local, CallInv, Private, SameCall, Grown, AfterHeader, AfterWal,
                        AfterShm, Live
    <3>. QED  BY <3>2, <3>3, <3>4, <3>5 DEF Local
  <2>. QED  BY <2>1, <2>2
<1>. QED  BY <1>1, <1>2

LEMMA Together ==
    ASSUME IInv, NEW o \in Openers,
           TypeOK', DiskInv', Local(o)', StagesHeld', OneCall(o)
    PROVE  IInv'
  BY OthersKept DEF IInv

-----------------------------------------------------------------------------
(* Types.                                                                   *)

LEMMA InitIInv == Init => IInv
<1> SUFFICES ASSUME Init PROVE IInv
  OBVIOUS
<1>1. TypeOK
  <2>1. 0 \in 0..MaxCrashes /\ 0 \in 0..MaxFaults /\ 0 \in 0..MaxLosses
    BY StoreAssumption
  <2>2. NoCopy \in [pages : Pages, log : Logs] /\ "idle" \in Positions
    BY DEF NoCopy, Pages, Logs, Positions
  <2>. QED
    BY <2>1, <2>2 DEF Init, TypeOK, Preflights, Results, Pages, Logs
<1>2. \A o \in Openers : Local(o)
  BY DEF Init, Local, CallInv, OwnerInv, KeyInv, Private, AfterHeader, AfterWal,
         AfterShm, Reading, Staging, Opening, Calling, Live
<1>3. StagesHeld
  BY StoreAssumption DEF Init, StagesHeld
<1>. QED
  BY <1>1, <1>2, <1>3 DEF IInv, Init, DiskInv, Alone, NoOrphans

LEMMA FailType ==
    ASSUME TypeOK, NEW o \in Openers, NEW r \in Results, pc[o] # "cleanup", Fail(o, r)
    PROVE  /\ pc' \in [Openers -> Positions]
           /\ sweep' \in [Openers -> SUBSET Leaf]
           /\ \A p \in Openers : pc'[p] = "cleanup" <=> sweep'[p] # {}
           /\ result' \in [Openers -> Results]
  BY DEF TypeOK, Fail, Goto, Positions, Calling, Leaf

LEMMA CreateType ==
    ASSUME TypeOK, NEW l \in Leaf, Create(l)
    PROVE  leaves' \in SUBSET Leaf /\ odd' \in SUBSET Leaf
  BY DEF TypeOK, Create

LEMMA BeginType ==
    ASSUME TypeOK, NEW o \in Openers, NEW k \in Keys, Begin(o, k)
    PROVE  TypeOK'
<1>1. Admission \in Results /\ Reasons(o, k) \in SUBSET Excuses /\ "other" \in Excuses
  BY DEF Admission, Results, Reasons, Excuses
<1>. QED
  BY <1>1 DEF TypeOK, Begin, Goto, Positions, Calling, Preflights, disk, budget

LEMMA PreflightType ==
    ASSUME TypeOK, NEW o \in Openers,
           RefuseShape(o) \/ Inspect(o) \/ InspectFails(o) \/ NeedStage(o)
    PROVE  TypeOK'
<1> USE DEF TypeOK, InPlace, End, Goto, Positions, Calling, Opening, Preflights, Results,
            disk, budget, call
<1>1. CASE RefuseShape(o) \/ NeedStage(o)
  <2>1. CASE RefuseShape(o)
    BY <2>1 DEF RefuseShape
  <2>2. CASE NeedStage(o)
    BY <2>2 DEF NeedStage
  <2>. QED  BY <1>1, <2>1, <2>2
<1>2. CASE Inspect(o)
  <2>1. CASE Unchanged(o)
    BY <1>2, <2>1 DEF Inspect
  <2>2. CASE ~Unchanged(o)
    BY <1>2, <2>2 DEF Inspect
  <2>. QED  BY <2>1, <2>2
<1>3. CASE InspectFails(o)
  BY <1>3 DEF InspectFails, Excuses
<1>. QED  BY <1>1, <1>2, <1>3

LEMMA CopyLogType ==
    ASSUME copy \in [Openers -> [pages : Pages, log : Logs]], log \in Logs,
           NEW o \in Openers, copy' = [copy EXCEPT ![o].log = log]
    PROVE  copy' \in [Openers -> [pages : Pages, log : Logs]]
  OBVIOUS

LEMMA StageType ==
    ASSUME TypeOK, NEW o \in Openers,
           \/ CreateStage(o) \/ NoStage(o) \/ CopyMain(o) \/ CopyWal(o)
           \/ Validate(o) \/ Unstage(o)
    PROVE  TypeOK'
<1> USE DEF TypeOK, End, Goto, Positions, Calling, Opening, Staging, Preflights, Results,
            disk, budget, call
<1>1. CASE CreateStage(o)
  BY <1>1 DEF CreateStage, FreeSlots
<1>2. CASE NoStage(o)
  BY <1>2 DEF NoStage
<1>3. CASE CopyMain(o)
  BY <1>3 DEF CopyMain
<1>4. CASE CopyWal(o)
  <2>1. copy' \in [Openers -> [pages : Pages, log : Logs]]
    BY <1>4, CopyLogType DEF CopyWal
  <2>2. PICK p \in {"validate", "unstage"} : Goto(o, p)
    BY <1>4 DEF CopyWal
  <2>3. result' \in [Openers -> Results]
    BY <1>4 DEF CopyWal
  <2>4. pc[o] = "copyWal"
    BY <1>4 DEF CopyWal
  <2>5. /\ pc' \in [Openers -> Positions]
        /\ \A q \in Openers : pc'[q] = "cleanup" <=> sweep[q] # {}
    BY <2>2, <2>4
  <2>6. UNCHANGED <<disk, stages, key, snap, pre, fresh, owner, migrated, sweep,
                    accepted, excuse, budget>>
    BY <1>4 DEF CopyWal
  <2>. QED  BY <2>1, <2>3, <2>5, <2>6
<1>5. CASE Validate(o)
  <2>1. Verdict(o) \in Results
    BY DEF Verdict
  <2>2. result' \in [Openers -> Results] /\ pre' \in [Openers -> Preflights]
    BY <1>5, <2>1 DEF Validate
  <2>3. /\ pc[o] = "validate" /\ Goto(o, "unstage")
        /\ UNCHANGED <<disk, stages, key, snap, copy, fresh, owner, migrated, sweep,
                       accepted, excuse, budget>>
    BY <1>5 DEF Validate
  <2>4. /\ pc' \in [Openers -> Positions]
        /\ \A q \in Openers : pc'[q] = "cleanup" <=> sweep[q] # {}
    BY <2>3
  <2>. QED  BY <2>2, <2>3, <2>4
<1>6. CASE Unstage(o)
  <2>1. NoCopy \in [pages : Pages, log : Logs]
    BY DEF NoCopy, Pages, Logs
  <2>2. copy' \in [Openers -> [pages : Pages, log : Logs]]
    BY <1>6, <2>1 DEF Unstage
  <2>3. PICK p \in {"idle", "open"} : Goto(o, p)
    BY <1>6 DEF Unstage
  <2>4. result' \in [Openers -> Results]
    BY <1>6 DEF Unstage
  <2>5. /\ pc[o] = "unstage"
        /\ stages' = [s \in Slots |-> IF stages[s] = o THEN Free ELSE stages[s]]
        /\ UNCHANGED <<disk, key, snap, pre, fresh, owner, migrated, sweep, accepted,
                       excuse, budget>>
    BY <1>6 DEF Unstage
  <2>6. /\ pc' \in [Openers -> Positions]
        /\ \A q \in Openers : pc'[q] = "cleanup" <=> sweep[q] # {}
    BY <2>3, <2>5
  <2>. QED  BY <2>2, <2>4, <2>5, <2>6
<1>. QED  BY <1>1, <1>2, <1>3, <1>4, <1>5, <1>6

LEMMA OpenType ==
    ASSUME TypeOK, NEW o \in Openers,
           \/ Claim(o) \/ Own(o) \/ OpenMoved(o) \/ Open(o) \/ StartJournal(o)
           \/ WriteHeader(o) \/ CreateWal(o) \/ CreateShm(o) \/ Normalize(o)
           \/ Migrate(o) \/ Accept(o) \/ Finish(o)
    PROVE  TypeOK'
<1>1. Leaf = {"main", "journal", "wal", "shm"}
  BY DEF Leaf
<1> USE DEF TypeOK, Goto, Positions, Calling, Opening, Live, disk, budget, call
<1>2. CASE Claim(o)
  BY <1>1, <1>2, CreateType DEF Claim
<1>3. CASE Own(o)
  BY <1>3 DEF Own
<1>4. CASE OpenMoved(o)
  BY <1>4, FailType DEF OpenMoved, Results
<1>5. CASE Open(o)
  <2>1. leaves' \in SUBSET Leaf /\ odd' \in SUBSET Leaf
    BY <1>1, <1>5, CreateType DEF Open
  <2>2. Unclaimed(pages, log) \in BOOLEAN
    BY DEF Unclaimed
  <2>3. CASE KeyFits(o)
    BY <1>5, <2>1, <2>2, <2>3 DEF Open
  <2>4. CASE ~KeyFits(o)
    BY <1>5, <2>1, <2>2, <2>4, FailType DEF Open, Results
  <2>. QED  BY <2>3, <2>4
<1>6. CASE StartJournal(o)
  BY <1>1, <1>6, CreateType DEF StartJournal
<1>7. CASE WriteHeader(o)
  BY <1>7 DEF WriteHeader, Pages
<1>8. CASE CreateWal(o) \/ CreateShm(o)
  <2>1. leaves' \in SUBSET Leaf /\ odd' \in SUBSET Leaf
    BY <1>1, <1>8, CreateType DEF CreateWal, CreateShm
  <2>2. CASE CreateWal(o)
    BY <2>1, <2>2 DEF CreateWal
  <2>3. CASE CreateShm(o)
    BY <2>1, <2>3 DEF CreateShm
  <2>. QED  BY <1>8, <2>2, <2>3
<1>9. CASE Normalize(o)
  BY <1>9 DEF Normalize, Normalized
<1>10. CASE Migrate(o)
  BY <1>10 DEF Migrate, Logs
<1>11. CASE Accept(o)
  BY <1>11 DEF Accept, Normalized
<1>12. CASE Finish(o)
  <2>1. CASE Existing(o) /\ ~WriterState(o)
    BY <1>12, <2>1, FailType DEF Finish, Results
  <2>2. CASE ~(Existing(o) /\ ~WriterState(o))
    BY <1>12, <2>2 DEF Finish, Results
  <2>. QED  BY <2>1, <2>2
<1>. QED
  BY <1>2, <1>3, <1>4, <1>5, <1>6, <1>7, <1>8, <1>9, <1>10, <1>11, <1>12

LEMMA SweepType ==
    ASSUME TypeOK, NEW o \in Openers, Sweep(o)
    PROVE  TypeOK'
  BY DEF TypeOK, Sweep, Goto, Positions, Calling, Pages, Logs, disk, budget, call

LEMMA FaultType ==
    ASSUME TypeOK, NEW o \in Openers, Fault(o)
    PROVE  TypeOK'
<1>1. \A n \in 0..MaxFaults : n < MaxFaults => n + 1 \in 0..MaxFaults
  BY StoreAssumption
<1>2. NoCopy \in [pages : Pages, log : Logs] /\ "fault" \in Excuses
  BY DEF NoCopy, Pages, Logs, Excuses
<1> USE <1>1, <1>2 DEF TypeOK, Faulty, End, Goto, Positions, Calling, Opening, Staging,
                       Results, disk, budget, call
<1>3. CASE FaultEarly(o)
  BY <1>3 DEF FaultEarly
<1>4. CASE FaultInStage(o)
  BY <1>4 DEF FaultInStage, FreeSlots
<1>5. CASE FaultInCopy(o)
  BY <1>5 DEF FaultInCopy
<1>6. CASE FaultInUnstage(o)
  BY <1>6 DEF FaultInUnstage
<1>7. CASE FaultInOpen(o)
  BY <1>7, FailType DEF FaultInOpen
<1>8. CASE FaultInCleanup(o)
  BY <1>8 DEF FaultInCleanup
<1>. QED  BY <1>3, <1>4, <1>5, <1>6, <1>7, <1>8 DEF Fault

LEMMA WorldType ==
    ASSUME TypeOK, Crash \/ LoseShm \/ LosePair
    PROVE  TypeOK'
<1>1. \A n \in 0..MaxCrashes : n < MaxCrashes => n + 1 \in 0..MaxCrashes
  BY StoreAssumption
<1>2. \A n \in 0..MaxLosses : n < MaxLosses => n + 1 \in 0..MaxLosses
  BY StoreAssumption
<1>3. NoCopy \in [pages : Pages, log : Logs]
  BY DEF NoCopy, Pages, Logs
<1>. QED
  BY <1>1, <1>2, <1>3 DEF TypeOK, Crash, LoseShm, LosePair, Lose, Positions, Results,
                          disk, budget, call

LEMMA LiveType ==
    ASSUME TypeOK, NEW o \in Openers,
           Write(o) \/ StartCheckpoint(o) \/ EndCheckpoint(o) \/ Close(o)
    PROVE  TypeOK'
<1> USE DEF TypeOK, Goto, Positions, Live, Pages, Logs, disk, budget, call
<1>1. CASE Write(o)
  BY <1>1 DEF Write
<1>2. CASE StartCheckpoint(o)
  BY <1>2 DEF StartCheckpoint
<1>3. CASE EndCheckpoint(o)
  BY <1>3 DEF EndCheckpoint
<1>4. CASE Close(o)
  BY <1>4 DEF Close
<1>. QED
  BY <1>1, <1>2, <1>3, <1>4

-----------------------------------------------------------------------------
(* The steps. Each leaves the disk in order, the call where it belongs, and  *)
(* the other calls alone.                                                   *)

Kept(o) == DiskInv' /\ Local(o)' /\ StagesHeld' /\ OneCall(o)

\* A call that goes on reading, or is over, on an unchanged disk.
LEMMA ReadingOn ==
    ASSUME IInv, NEW o \in Openers, pc[o] \in Reading,
           UNCHANGED <<disk, accepted, owner, migrated, snap, key>>,
           pc'[o] \in Reading \cup {"idle"},
           ("key" \in excuse'[o]) = ("key" \in excuse[o]),
           pc'[o] = "unstage" => result'[o] # "none" \/ KeyFits(o),
           \A p \in Openers \ {o} : SameCall(p),
           StagesHeld'
    PROVE  Kept(o)
<1>1. Local(o) /\ DiskInv /\ Alone
  BY DEF IInv
<1>2. DiskInv'
  BY <1>1 DEF DiskInv, NoOrphans, disk
<1>3. OneCall(o)
  BY <1>1 DEF OneCall, Alone, Grown, DiskInv, disk, Reading, Staging
<1>4. CallInv(o)' /\ Private(o)'
  BY DEF CallInv, Private, AfterHeader, AfterWal, AfterShm, Reading, Staging, Live
<1>5. OwnerInv(o)'
  BY <1>1 DEF Local, OwnerInv, Existing, Reading, Staging, Opening
<1>6. KeyInv(o)'
  BY <1>1 DEF Local, KeyInv, KeyFits, Reading, Staging, Opening, Calling, disk
<1>. QED  BY <1>2, <1>3, <1>4, <1>5, <1>6 DEF Kept, Local

LEMMA BeginKept ==
    ASSUME IInv, NEW o \in Openers, NEW k \in Keys, Begin(o, k)
    PROVE  Kept(o)
<1>1. Local(o) /\ DiskInv /\ Alone /\ TypeOK /\ StagesHeld
  BY DEF IInv
<1>2. DiskInv'
  BY <1>1 DEF DiskInv, NoOrphans, Begin, disk
<1>3. pc'[o] = "claim" => leaves = {}
  BY <1>1 DEF Begin, Goto, Admission, TypeOK
<1>4. pc'[o] \in {"idle", "preflight", "claim"} /\ (pc'[o] = "preflight" => "main" \in leaves)
  BY <1>1 DEF Begin, Goto, TypeOK
<1>5. snap'[o] = leaves /\ ~owner'[o] /\ ~migrated'[o] /\ key'[o] = k
  BY <1>1 DEF Begin, TypeOK
<1>6. ~accepted \/ leaves # {}
  BY <1>1 DEF DiskInv
<1>7. "key" \in excuse'[o] => pages # "none" /\ pageKey # k
  BY <1>1 DEF Begin, TypeOK, Reasons
<1>8. Local(o)'
  <2>1. CallInv(o)' /\ Private(o)'
    BY <1>3, <1>4, <1>5, <1>6
       DEF CallInv, Private, Begin, AfterHeader, AfterWal, AfterShm, Live, disk
  <2>2. OwnerInv(o)'
    BY <1>4, <1>5 DEF OwnerInv, Existing, Reading, Staging, Opening
  <2>3. KeyInv(o)'
    <3>1. pages' = pages /\ pageKey' = pageKey
      BY DEF Begin, disk
    <3>2. "key" \in excuse'[o] => pc'[o] # "claim"
      BY <1>1, <1>3, <1>7 DEF DiskInv
    <3>. QED
      BY <1>4, <1>5, <1>7, <3>1, <3>2
         DEF KeyInv, KeyFits, Reading, Calling, Opening, Staging
  <2>. QED  BY <2>1, <2>2, <2>3 DEF Local
<1>9. StagesHeld'
  <2>1. ASSUME NEW s \in Slots, stages[s] \in Openers PROVE stages[s] # o
    BY <1>1, <2>1 DEF StagesHeld, Begin, Staging
  <2>. QED
    BY <1>1, <2>1 DEF StagesHeld, Begin, Goto, TypeOK
<1>10. OneCall(o)
  <2>1. \A p \in Openers \ {o} : SameCall(p)
    BY <1>1 DEF Begin, Goto, TypeOK, SameCall
  <2>2. ~accepted => \A p \in Openers \ {o} : pc[p] = "idle"
    BY DEF Begin
  <2>3. accepted => accepted' /\ Grown
    BY <1>1 DEF Begin, Grown, DiskInv, disk
  <2>. QED  BY <2>1, <2>2, <2>3 DEF OneCall
<1>. QED  BY <1>2, <1>8, <1>9, <1>10 DEF Kept

\* A stage stays with a call that stays at it.
LEMMA StagesStay ==
    ASSUME IInv, NEW o \in Openers, stages' = stages,
           pc[o] \in Staging => pc'[o] \in Staging,
           \A p \in Openers \ {o} : pc'[p] = pc[p]
    PROVE  StagesHeld'
  BY DEF IInv, StagesHeld

LEMMA PreflightKept ==
    ASSUME IInv, NEW o \in Openers,
           RefuseShape(o) \/ Inspect(o) \/ InspectFails(o) \/ NeedStage(o)
    PROVE  Kept(o)
<1>1. Local(o) /\ DiskInv /\ Alone /\ TypeOK
  BY DEF IInv
<1>2. pc[o] = "preflight" /\ \A p \in Openers \ {o} : SameCall(p)
  BY <1>1 DEF RefuseShape, Inspect, InspectFails, NeedStage, InPlace, End, Goto, TypeOK,
              SameCall, call
<1>3. StagesHeld'
  BY <1>2, StagesStay DEF RefuseShape, Inspect, InspectFails, NeedStage, Staging, SameCall
<1>4. UNCHANGED <<disk, accepted, owner, migrated, snap, key>>
  BY DEF RefuseShape, Inspect, InspectFails, NeedStage, call
<1>5. ("key" \in excuse'[o]) = ("key" \in excuse[o])
  BY <1>1 DEF RefuseShape, Inspect, InspectFails, NeedStage, TypeOK
<1>6. CASE pc'[o] \in Reading \cup {"idle"}
  BY <1>2, <1>3, <1>4, <1>5, <1>6, ReadingOn, <1>1
     DEF RefuseShape, Inspect, InspectFails, NeedStage, Reading, Staging, InPlace, End, Goto, TypeOK
<1>7. CASE pc'[o] \notin Reading \cup {"idle"}
  <2>1. Inspect(o) /\ pc'[o] = "open" /\ KeyFits(o)
    BY <1>1, <1>7 DEF RefuseShape, Inspect, InspectFails, NeedStage, Reading, End, Goto, TypeOK
  <2>2. DiskInv'
    BY <1>1, <1>4 DEF DiskInv, NoOrphans, disk
  <2>3. OneCall(o)
    BY <1>1, <1>2, <1>4 DEF OneCall, Alone, Grown, DiskInv, disk
  <2>4. CallInv(o)' /\ Private(o)'
    BY <2>1 DEF CallInv, Private, AfterHeader, AfterWal, AfterShm, Live
  <2>5. OwnerInv(o)'
    BY <1>1, <1>2, <1>4, <2>1 DEF Local, OwnerInv, Existing, Reading, Staging, Opening
  <2>6. KeyInv(o)'
    BY <1>1, <1>2, <1>4, <1>5, <2>1 DEF Local, KeyInv, KeyFits, Calling, disk
  <2>. QED  BY <1>3, <2>2, <2>3, <2>4, <2>5, <2>6 DEF Kept, Local
<1>. QED  BY <1>6, <1>7

\* The stage a call gives back, or leaves behind, is no longer anyone's.
LEMMA StageGone ==
    ASSUME IInv, NEW o \in Openers, NEW mark \in {Free, Left},
           stages' = [s \in Slots |-> IF stages[s] = o THEN mark ELSE stages[s]],
           \A p \in Openers \ {o} : pc'[p] = pc[p]
    PROVE  StagesHeld'
<1>1. mark \notin Openers
  BY StoreAssumption
<1>2. ASSUME NEW s \in Slots, stages'[s] \in Openers
      PROVE  stages'[s] = stages[s] /\ stages[s] # o
  BY <1>1, <1>2
<1>. QED
  BY <1>1, <1>2 DEF IInv, StagesHeld

LEMMA CreateStageKept ==
    ASSUME IInv, NEW o \in Openers, CreateStage(o)
    PROVE  Kept(o)
<1>1. TypeOK /\ StagesHeld /\ pc[o] = "stage" /\ pc'[o] = "copyMain"
  BY DEF IInv, CreateStage, Goto, TypeOK
<1>2. \A p \in Openers \ {o} : SameCall(p)
  BY <1>1 DEF CreateStage, Goto, TypeOK, SameCall, call
<1>3. StagesHeld'
  <2>1. PICK s \in Slots : stages' = [stages EXCEPT ![s] = o]
    BY DEF CreateStage, FreeSlots
  <2>2. \A t \in Slots : stages[t] # o
    BY <1>1 DEF StagesHeld, Staging
  <2>3. \A t \in Slots \ {s} : stages'[t] = stages[t]
    BY <1>1, <2>1 DEF TypeOK
  <2>4. stages'[s] = o
    BY <1>1, <2>1 DEF TypeOK
  <2>. QED
    BY <1>1, <1>2, <2>2, <2>3, <2>4 DEF StagesHeld, Staging, SameCall
<1>. QED
  BY <1>1, <1>2, <1>3, ReadingOn DEF CreateStage, Reading, Staging, call

LEMMA CopyKept ==
    ASSUME IInv, NEW o \in Openers,
           NoStage(o) \/ CopyMain(o) \/ CopyWal(o) \/ Validate(o)
    PROVE  Kept(o)
<1>1. Local(o) /\ TypeOK
  BY DEF IInv
<1>2. pc[o] \in {"stage", "copyMain", "copyWal", "validate"}
      /\ pc'[o] \in Staging \cup {"idle"} /\ (pc'[o] = "idle" => pc[o] = "stage")
  BY <1>1 DEF NoStage, CopyMain, CopyWal, Validate, Staging, End, Goto, TypeOK
<1>3. \A p \in Openers \ {o} : SameCall(p)
  BY <1>1 DEF NoStage, CopyMain, CopyWal, Validate, End, Goto, TypeOK, SameCall, call
<1>4. stages' = stages /\ UNCHANGED <<disk, accepted, owner, migrated, snap, key, excuse>>
  BY DEF NoStage, CopyMain, CopyWal, Validate, call
<1>5. StagesHeld'
  BY <1>2, <1>3, <1>4, StagesStay DEF Staging, SameCall
<1>6. pc'[o] = "unstage" => result'[o] # "none" \/ KeyFits(o)
  <2>1. CASE CopyWal(o)
    BY <1>1, <2>1 DEF CopyWal, Goto, TypeOK
  <2>2. CASE Validate(o)
    BY <1>1, <2>2 DEF Validate, Verdict, TypeOK
  <2>3. CASE NoStage(o) \/ CopyMain(o)
    BY <1>1, <2>3 DEF NoStage, CopyMain, End, Goto, TypeOK
  <2>. QED  BY <2>1, <2>2, <2>3
<1>. QED
  BY <1>2, <1>3, <1>4, <1>5, <1>6, ReadingOn DEF Reading, Staging

LEMMA UnstageKept ==
    ASSUME IInv, NEW o \in Openers, Unstage(o)
    PROVE  Kept(o)
<1>1. Local(o) /\ DiskInv /\ Alone /\ TypeOK /\ pc[o] = "unstage"
  BY DEF IInv, Unstage
<1>2. pc'[o] \in {"idle", "open"} /\ (pc'[o] = "open" => result[o] = "none")
  BY <1>1 DEF Unstage, End, Goto, TypeOK
<1>3. \A p \in Openers \ {o} : SameCall(p)
  BY <1>1 DEF Unstage, End, Goto, TypeOK, SameCall
<1>4. StagesHeld'
  BY <1>3, StageGone DEF Unstage, SameCall
<1>5. UNCHANGED <<disk, accepted, owner, migrated, snap, key, excuse>>
  BY DEF Unstage
<1>6. CASE pc'[o] = "idle"
  BY <1>1, <1>3, <1>4, <1>5, <1>6, ReadingOn DEF Reading, Staging
<1>7. CASE pc'[o] = "open"
  <2>1. DiskInv'
    BY <1>1, <1>5 DEF DiskInv, NoOrphans, disk
  <2>2. OneCall(o)
    BY <1>1, <1>3, <1>5 DEF OneCall, Alone, Grown, DiskInv, disk
  <2>3. CallInv(o)' /\ Private(o)'
    BY <1>7 DEF CallInv, Private, AfterHeader, AfterWal, AfterShm, Live
  <2>4. OwnerInv(o)'
    BY <1>1, <1>5, <1>7 DEF Local, OwnerInv, Existing, Reading, Staging, Opening
  <2>5. KeyInv(o)'
    BY <1>1, <1>2, <1>5, <1>7 DEF Local, KeyInv, Calling, Staging
  <2>. QED  BY <1>4, <2>1, <2>2, <2>3, <2>4, <2>5 DEF Kept, Local
<1>. QED  BY <1>2, <1>6, <1>7

\* A step of a call that neither had a stage nor takes one.
LEMMA NoStageMoves ==
    ASSUME IInv, NEW o \in Openers, stages' = stages, pc[o] \notin Staging,
           \A p \in Openers \ {o} : SameCall(p)
    PROVE  StagesHeld'
  BY StagesStay DEF SameCall

LEMMA ClaimKept ==
    ASSUME IInv, NEW o \in Openers, Claim(o) \/ Own(o)
    PROVE  Kept(o)
<1>1. Local(o) /\ DiskInv /\ Alone /\ TypeOK /\ pc[o] \in {"claim", "own"} /\ ~accepted
  BY DEF IInv, Claim, Own, Local, CallInv
<1>2. \A p \in Openers \ {o} : SameCall(p)
  BY <1>1 DEF Claim, Own, Goto, TypeOK, SameCall, call
<1>3. OneCall(o)
  BY <1>1, <1>2 DEF OneCall, Alone
<1>4. StagesHeld'
  BY <1>1, <1>2, NoStageMoves DEF Claim, Own, Staging
<1>5. CASE Claim(o)
  <2>1. pc[o] = "claim" /\ pc'[o] = "own" /\ leaves' = {"main"}
    BY <1>1, <1>5 DEF Claim, Goto, TypeOK, Create, Local, CallInv
  <2>2. pages = "none" /\ log = "none" /\ snap[o] = {} /\ ~owner[o] /\ ~migrated[o]
    BY <1>1, <2>1 DEF Local, CallInv, OwnerInv, DiskInv, TypeOK, Logs
  <2>3. DiskInv'
    BY <1>1, <1>5, <2>1, <2>2 DEF DiskInv, NoOrphans, Claim
  <2>4. Local(o)'
    BY <1>1, <1>5, <2>1, <2>2
       DEF Local, CallInv, OwnerInv, KeyInv, Private, Claim, AfterHeader, AfterWal, AfterShm,
           Live, Reading, Staging, Opening, Calling, call
  <2>. QED  BY <1>3, <1>4, <2>3, <2>4 DEF Kept
<1>6. CASE Own(o)
  <2>1. pc[o] = "own" /\ pc'[o] = "open" /\ owner'[o] /\ leaves' = leaves /\ pages' = pages
    BY <1>1, <1>6 DEF Own, Goto, TypeOK
  <2>2. pages = "none" /\ leaves = {"main"} /\ snap[o] = {} /\ ~migrated[o]
    BY <1>1, <2>1 DEF Local, CallInv, OwnerInv
  <2>3. DiskInv'
    BY <1>1, <1>6 DEF DiskInv, NoOrphans, Own
  <2>4. Local(o)'
    BY <1>1, <1>6, <2>1, <2>2
       DEF Local, CallInv, OwnerInv, KeyInv, Private, Own, AfterHeader, AfterWal, AfterShm,
           Live, Reading, Staging, Opening, Calling
  <2>. QED  BY <1>3, <1>4, <2>3, <2>4 DEF Kept
<1>. QED  BY <1>5, <1>6 DEF Claim, Own

\* A call whose connection fails is over, or cleans up what it made.
LEMMA FailLocal ==
    ASSUME IInv, NEW o \in Openers, NEW r \in Results, pc[o] \in Opening, Fail(o, r),
           TypeOK', UNCHANGED <<owner, migrated, accepted>>,
           ("key" \in excuse'[o]) = ("key" \in excuse[o])
    PROVE  Local(o)'
<1>1. Local(o) /\ TypeOK
  BY DEF IInv
<1>2. "key" \notin excuse'[o]
  BY <1>1 DEF Local, KeyInv, Opening, Calling, Reading, Staging
<1>3. CASE Authority(o)
  <2>1. pc'[o] = "cleanup" /\ sweep'[o] = Leaf
    BY <1>1, <1>3 DEF Fail, Goto, TypeOK
  <2>2. ~accepted /\ leaves' \subseteq Leaf
    BY <1>1, <1>3 DEF Local, OwnerInv, Authority, TypeOK
  <2>. QED
    BY <1>2, <1>3, <2>1, <2>2
       DEF Local, CallInv, OwnerInv, KeyInv, Private, Authority, AfterHeader, AfterWal,
           AfterShm, Live, Reading, Staging, Opening
<1>4. CASE ~Authority(o)
  <2>1. pc'[o] = "idle"
    BY <1>1, <1>4 DEF Fail, Goto, TypeOK
  <2>. QED
    BY <2>1
       DEF Local, CallInv, OwnerInv, KeyInv, Private, AfterHeader, AfterWal, AfterShm,
           Live, Reading, Staging, Opening, Calling
<1>. QED  BY <1>3, <1>4

LEMMA OpenMovedKept ==
    ASSUME IInv, NEW o \in Openers, OpenMoved(o)
    PROVE  Kept(o)
<1>1. DiskInv /\ Alone /\ TypeOK /\ pc[o] = "open"
  BY DEF IInv, OpenMoved
<1>2. \A p \in Openers \ {o} : SameCall(p)
  BY <1>1 DEF OpenMoved, Fail, Goto, TypeOK, SameCall, call
<1>3. OneCall(o) /\ DiskInv'
  BY <1>1, <1>2 DEF OneCall, Alone, Grown, DiskInv, NoOrphans, OpenMoved, disk
<1>4. StagesHeld'
  BY <1>1, <1>2, NoStageMoves DEF OpenMoved, Staging
<1>5. Local(o)'
  BY <1>1, FailLocal, OpenType DEF OpenMoved, Opening, Results, call
<1>. QED  BY <1>3, <1>4, <1>5 DEF Kept

LEMMA OpenKept ==
    ASSUME IInv, NEW o \in Openers, Open(o)
    PROVE  Kept(o)
<1>1. Local(o) /\ DiskInv /\ Alone /\ TypeOK /\ pc[o] = "open"
  BY DEF IInv, Open
<1>2. \A p \in Openers \ {o} : SameCall(p)
  BY <1>1 DEF Open, Fail, Goto, TypeOK, SameCall
<1>3. /\ leaves \subseteq leaves' /\ leaves' \subseteq leaves \cup {"shm"}
      /\ "shm" \in leaves' => "wal" \in leaves
      /\ odd' \subseteq odd \cup {"shm"} /\ ("shm" \in odd' \ odd => "shm" \notin leaves)
  BY <1>1 DEF Open, Create, NeedsStage, DiskInv, NoOrphans
<1>4. UNCHANGED <<pages, log, pageKey, stages, owner, migrated, snap, key, accepted, excuse>>
  BY DEF Open
<1>5. "main" \in leaves
  BY <1>1 DEF Open, Local, OwnerInv, Existing, Unchanged, Opening
<1>6. DiskInv'
  BY <1>1, <1>3, <1>4, <1>5 DEF DiskInv, NoOrphans
<1>7. OneCall(o)
  BY <1>1, <1>2, <1>3, <1>4 DEF OneCall, Alone, Grown, DiskInv
<1>8. StagesHeld'
  BY <1>1, <1>2, <1>4, NoStageMoves DEF Staging
<1>9. Local(o)'
  <2>1. CASE ~KeyFits(o)
    BY <1>1, <1>4, <2>1, FailLocal, OpenType DEF Open, Opening, Results
  <2>2. CASE KeyFits(o)
    <3>1. pc'[o] = IF pages = "none" THEN "journal" ELSE "wal"
      BY <1>1, <2>2 DEF Open, Goto, TypeOK
    <3>2. fresh'[o] = Unclaimed(pages, log)
      BY <1>1 DEF Open, TypeOK
    <3>3. CallInv(o)' /\ Private(o)'
      BY <1>1, <1>3, <1>4, <1>5, <3>1, <3>2
         DEF CallInv, Private, DiskInv, AfterHeader, AfterWal, AfterShm, Live, Unclaimed
    <3>4. OwnerInv(o)'
      BY <1>1, <1>3, <1>4, <1>5, <3>1, <3>2
         DEF Local, OwnerInv, DiskInv, Existing, Reading, Staging, Opening, Unclaimed
    <3>5. KeyInv(o)'
      BY <1>1, <1>4 DEF Local, KeyInv, Reading, Staging, Opening, Calling
    <3>. QED  BY <3>3, <3>4, <3>5 DEF Local
  <2>. QED  BY <2>1, <2>2
<1>. QED  BY <1>6, <1>7, <1>8, <1>9 DEF Kept

LEMMA JournalKept ==
    ASSUME IInv, NEW o \in Openers, StartJournal(o) \/ WriteHeader(o)
    PROVE  Kept(o)
<1>1. Local(o) /\ DiskInv /\ Alone /\ TypeOK /\ pc[o] \in {"journal", "header"}
  BY DEF IInv, StartJournal, WriteHeader
<1>2. "main" \in leaves /\ pages = "none" /\ ~accepted /\ "key" \notin excuse[o]
  BY <1>1 DEF Local, CallInv, KeyInv, Reading, Staging, Opening, Calling
<1>3. \A p \in Openers \ {o} : SameCall(p)
  BY <1>1 DEF StartJournal, WriteHeader, Goto, TypeOK, SameCall, call
<1>4. OneCall(o)
  BY <1>1, <1>2, <1>3 DEF OneCall, Alone
<1>5. StagesHeld'
  BY <1>1, <1>3, NoStageMoves DEF StartJournal, WriteHeader, Staging
<1>6. DiskInv'
  BY <1>1, <1>2 DEF DiskInv, NoOrphans, StartJournal, WriteHeader, Create
<1>7. pc'[o] = IF pc[o] = "journal" THEN "header" ELSE "wal"
  BY <1>1 DEF StartJournal, WriteHeader, Goto, TypeOK
<1>8. UNCHANGED <<owner, migrated, snap, key, fresh, accepted, excuse, log>>
      /\ "main" \in leaves' /\ (pc'[o] = "wal" => pages' # "none") /\ (pc'[o] = "header" => pages' = "none")
  BY <1>1, <1>2, <1>7 DEF StartJournal, WriteHeader, Create, call
<1>9. fresh[o]
  BY <1>1 DEF Local, CallInv
<1>10. CallInv(o)' /\ Private(o)' /\ KeyInv(o)'
  BY <1>2, <1>7, <1>8, <1>9 DEF CallInv, Private, KeyInv, AfterHeader, AfterWal, AfterShm, Live
<1>11. OwnerInv(o)'
  BY <1>1, <1>7, <1>8, <1>9 DEF Local, OwnerInv, Existing, Reading, Staging, Opening
<1>. QED  BY <1>4, <1>5, <1>6, <1>10, <1>11 DEF Kept, Local

\* Where a call is that opens with no fault: its key is the store's.
LEMMA OpeningKey ==
    ASSUME IInv, NEW o \in Openers, pc[o] \in Opening, excuse' = excuse,
           pc'[o] \in Opening \cup Live
    PROVE  KeyInv(o)'
  BY DEF IInv, Local, KeyInv, Reading, Staging, Opening, Calling, Live

LEMMA SidecarKept ==
    ASSUME IInv, NEW o \in Openers, CreateWal(o) \/ CreateShm(o)
    PROVE  Kept(o)
<1>1. Local(o) /\ DiskInv /\ Alone /\ TypeOK /\ pc[o] \in {"wal", "shm"}
  BY DEF IInv, CreateWal, CreateShm
<1>2. \A p \in Openers \ {o} : SameCall(p)
  BY <1>1 DEF CreateWal, CreateShm, Goto, TypeOK, SameCall, call
<1>3. UNCHANGED <<pages, log, pageKey, stages, accepted, excuse, snap, owner, migrated, fresh>>
  BY DEF CreateWal, CreateShm, call
<1>4. pc'[o] = IF pc[o] = "wal" THEN "shm" ELSE "normalize"
  BY <1>1 DEF CreateWal, CreateShm, Goto, TypeOK
<1>5. leaves' = leaves \cup {pc[o]} /\ odd' \subseteq odd \cup {pc[o]}
      /\ (pc[o] \in odd' \ odd => pc[o] \notin leaves)
  BY <1>1 DEF CreateWal, CreateShm, Create
<1>6. "main" \in leaves /\ (pc[o] = "shm" => "wal" \in leaves)
  BY <1>1 DEF Local, CallInv, AfterHeader, AfterWal
<1>7. DiskInv'
  BY <1>1, <1>3, <1>5, <1>6 DEF DiskInv, NoOrphans
<1>8. OneCall(o)
  BY <1>1, <1>2, <1>3, <1>5 DEF OneCall, Alone, Grown, DiskInv
<1>9. StagesHeld'
  BY <1>1, <1>2, <1>3, NoStageMoves DEF Staging
<1>10. CallInv(o)' /\ Private(o)'
  BY <1>1, <1>3, <1>4, <1>5, <1>6
     DEF Local, CallInv, Private, AfterHeader, AfterWal, AfterShm, Live
<1>11. OwnerInv(o)'
  BY <1>1, <1>3, <1>4 DEF Local, OwnerInv, Existing, Reading, Staging, Opening
<1>12. KeyInv(o)'
  BY <1>1, <1>3, <1>4, OpeningKey DEF Opening
<1>. QED  BY <1>7, <1>8, <1>9, <1>10, <1>11, <1>12 DEF Kept, Local

LEMMA MigrationKept ==
    ASSUME IInv, NEW o \in Openers, Normalize(o) \/ Migrate(o) \/ Accept(o)
    PROVE  Kept(o)
<1>1. Local(o) /\ DiskInv /\ Alone /\ TypeOK /\ pc[o] \in {"normalize", "migrate", "accept"}
  BY DEF IInv, Normalize, Migrate, Accept
<1>2. \A p \in Openers \ {o} : SameCall(p)
  BY <1>1 DEF Normalize, Migrate, Accept, Goto, TypeOK, SameCall, call
<1>3. UNCHANGED <<leaves, pages, pageKey, stages, excuse, snap, owner, fresh>>
      /\ odd' \subseteq odd /\ (accepted => accepted') /\ (log = "schema" => log' = "schema")
  BY DEF Normalize, Migrate, Accept, Normalized, call
<1>4. "main" \in leaves /\ "wal" \in leaves /\ "shm" \in leaves /\ pages # "none"
  BY <1>1 DEF Local, CallInv, AfterHeader, AfterWal, AfterShm, Live
<1>5. DiskInv'
  BY <1>1, <1>3, <1>4 DEF DiskInv, NoOrphans, Normalize, Migrate, Accept, Local, CallInv
<1>6. OneCall(o)
  BY <1>1, <1>2, <1>3 DEF OneCall, Alone, Grown, DiskInv
<1>7. StagesHeld'
  BY <1>1, <1>2, <1>3, NoStageMoves DEF Staging
<1>8. CASE Normalize(o)
  <2>1. pc[o] = "normalize" /\ pc'[o] = IF fresh[o] THEN "migrate" ELSE "finish"
    BY <1>1, <1>8 DEF Normalize, Goto, TypeOK
  <2>2. UNCHANGED <<log, accepted, migrated>>
    BY <1>8 DEF Normalize, call
  <2>3. CallInv(o)' /\ Private(o)'
    BY <1>1, <1>3, <1>4, <2>1, <2>2
       DEF Local, CallInv, Private, AfterHeader, AfterWal, AfterShm, Live
  <2>4. OwnerInv(o)'
    BY <1>1, <1>3, <2>1, <2>2 DEF Local, OwnerInv, Existing, Reading, Staging, Opening
  <2>5. KeyInv(o)'
    BY <1>1, <1>3, <2>1, OpeningKey DEF Opening
  <2>. QED  BY <1>5, <1>6, <1>7, <2>3, <2>4, <2>5 DEF Kept, Local
<1>9. CASE Migrate(o)
  <2>1. pc[o] = "migrate" /\ pc'[o] = "accept" /\ log' = "schema"
    BY <1>1, <1>9 DEF Migrate, Goto, TypeOK
  <2>2. UNCHANGED <<accepted, migrated>>
    BY <1>9 DEF Migrate, call
  <2>3. CallInv(o)' /\ Private(o)'
    BY <1>1, <1>3, <1>4, <2>1
       DEF Local, CallInv, Private, AfterHeader, AfterWal, AfterShm, Live
  <2>4. OwnerInv(o)'
    BY <1>1, <1>3, <2>1, <2>2 DEF Local, OwnerInv, Existing, Reading, Staging, Opening
  <2>5. KeyInv(o)'
    BY <1>1, <1>3, <2>1, OpeningKey DEF Opening
  <2>. QED  BY <1>5, <1>6, <1>7, <2>3, <2>4, <2>5 DEF Kept, Local
<1>10. CASE Accept(o)
  <2>1. pc[o] = "accept" /\ pc'[o] = "finish" /\ migrated'[o] /\ accepted'
    BY <1>1, <1>10 DEF Accept, Goto, TypeOK
  <2>2. odd' = Normalized(o)
    BY <1>10 DEF Accept
  <2>3. CallInv(o)' /\ Private(o)'
    BY <1>1, <1>3, <1>4, <2>1
       DEF Local, CallInv, Private, AfterHeader, AfterWal, AfterShm, Live
  <2>4. owner[o] => odd' = {}
    BY <1>1, <2>1, <2>2 DEF Local, OwnerInv, Normalized, Opening
  <2>5. OwnerInv(o)'
    BY <1>1, <1>3, <2>1, <2>4 DEF Local, OwnerInv, Existing, Reading, Staging, Opening
  <2>6. KeyInv(o)'
    BY <1>1, <1>3, <2>1, OpeningKey DEF Opening
  <2>. QED  BY <1>5, <1>6, <1>7, <2>3, <2>5, <2>6 DEF Kept, Local
<1>. QED  BY <1>8, <1>9, <1>10

LEMMA FinishKept ==
    ASSUME IInv, NEW o \in Openers, Finish(o)
    PROVE  Kept(o)
<1>1. Local(o) /\ DiskInv /\ Alone /\ TypeOK /\ pc[o] = "finish"
  BY DEF IInv, Finish
<1>2. \A p \in Openers \ {o} : SameCall(p)
  BY <1>1 DEF Finish, Fail, Goto, TypeOK, SameCall, call
<1>3. UNCHANGED <<leaves, odd, pages, log, pageKey, stages, excuse, snap, owner, migrated>>
      /\ (accepted => accepted')
  BY DEF Finish, disk, call
<1>4. accepted \/ log = "schema"
  BY <1>1 DEF Local, CallInv
<1>5. DiskInv'
  BY <1>1, <1>3, <1>4 DEF DiskInv, NoOrphans
<1>6. OneCall(o)
  BY <1>1, <1>2, <1>3 DEF OneCall, Alone, Grown, DiskInv
<1>7. StagesHeld'
  BY <1>1, <1>2, <1>3, NoStageMoves DEF Staging
<1>8. CASE Existing(o) /\ ~WriterState(o)
  <2>1. Local(o)'
    BY <1>1, <1>8, FailLocal, OpenType DEF Finish, Opening, Results, call
  <2>. QED  BY <1>5, <1>6, <1>7, <2>1 DEF Kept
<1>9. CASE ~(Existing(o) /\ ~WriterState(o))
  <2>1. pc'[o] = "ready" /\ accepted'
    BY <1>1, <1>9 DEF Finish, Goto, TypeOK
  <2>2. odd \cap {"main", "wal", "shm"} = {}
    BY <1>1, <1>9 DEF WriterState, Local, OwnerInv, Opening
  <2>3. Private(o)'
    BY <1>3, <2>2 DEF Private
  <2>4. CallInv(o)'
    BY <1>1, <1>3, <2>1 DEF Local, CallInv, AfterHeader, AfterWal, AfterShm, Live
  <2>5. OwnerInv(o)' /\ KeyInv(o)'
    BY <2>1 DEF OwnerInv, KeyInv, Reading, Staging, Opening, Calling
  <2>. QED  BY <1>5, <1>6, <1>7, <2>3, <2>4, <2>5 DEF Kept, Local
<1>. QED  BY <1>8, <1>9

\* The order of the cleanup: sidecars that need another go before it.
LEMMA SweepKept ==
    ASSUME IInv, NEW o \in Openers, Sweep(o)
    PROVE  Kept(o)
<1>1. Local(o) /\ DiskInv /\ Alone /\ TypeOK /\ pc[o] = "cleanup"
  BY DEF IInv, Sweep
<1>2. ~accepted /\ Authority(o) /\ leaves \subseteq sweep[o] /\ "key" \notin excuse[o]
  BY <1>1 DEF Local, OwnerInv, KeyInv, Calling, Reading, Staging
<1>3. \A p \in Openers \ {o} : SameCall(p)
  BY <1>1 DEF Sweep, Goto, TypeOK, SameCall, call
<1>4. OneCall(o)
  BY <1>1, <1>2, <1>3 DEF OneCall, Alone
<1>5. StagesHeld'
  BY <1>1, <1>3, NoStageMoves DEF Sweep, Staging
<1>6. UNCHANGED <<owner, migrated, accepted, excuse>>
  BY DEF Sweep, call
<1>7. PICK l \in Leaf :
        /\ First(o, l)
        /\ IF "main" \in leaves /\ l \notin odd
           THEN /\ leaves' = leaves \ {l}
                /\ log' = IF l = "wal" THEN "none" ELSE log
                /\ pages' = IF l = "main" THEN "none" ELSE pages
                /\ sweep'[o] = sweep[o] \ {l}
           ELSE sweep'[o] = {} /\ UNCHANGED <<leaves, log, pages>>
  BY <1>1 DEF Sweep, TypeOK
<1>8. pc'[o] = IF sweep'[o] = {} THEN "idle" ELSE "cleanup"
  BY <1>1 DEF Sweep, Goto, TypeOK
<1>9. /\ l = "wal" => "shm" \notin leaves
      /\ l = "main" => leaves \subseteq {"main"}
  BY <1>1, <1>2, <1>7 DEF First, Rank, Leaf, TypeOK
<1>10. DiskInv'
  BY <1>1, <1>2, <1>6, <1>7, <1>9 DEF DiskInv, NoOrphans, Leaf
<1>11. pc'[o] = "cleanup" => leaves' \subseteq sweep'[o]
  BY <1>2, <1>7, <1>8
<1>12. Local(o)'
  BY <1>2, <1>6, <1>8, <1>11
     DEF Local, CallInv, OwnerInv, KeyInv, Private, Authority, AfterHeader, AfterWal,
         AfterShm, Live, Reading, Staging, Opening, Calling
<1>. QED  BY <1>4, <1>5, <1>10, <1>12 DEF Kept

-----------------------------------------------------------------------------
(* What goes wrong, and a live store.                                       *)

LEMMA FaultyKey ==
    ASSUME TypeOK, NEW o \in Openers, Faulty(o)
    PROVE  /\ ("key" \in excuse'[o]) = ("key" \in excuse[o])
           /\ \A p \in Openers \ {o} : excuse'[p] = excuse[p]
  BY DEF Faulty, TypeOK

\* A call that is over, on an unchanged disk.
LEMMA Over ==
    ASSUME IInv, NEW o \in Openers, pc[o] # "idle", pc'[o] = "idle",
           UNCHANGED <<disk, accepted>>,
           \A p \in Openers \ {o} : SameCall(p),
           StagesHeld'
    PROVE  Kept(o)
<1>1. DiskInv' /\ OneCall(o)
  BY DEF IInv, DiskInv, NoOrphans, OneCall, Alone, Grown, disk
<1>2. Local(o)'
  BY DEF Local, CallInv, OwnerInv, KeyInv, Private, AfterHeader, AfterWal, AfterShm,
         Live, Reading, Staging, Opening, Calling
<1>. QED  BY <1>1, <1>2 DEF Kept

LEMMA FaultOver ==
    ASSUME IInv, NEW o \in Openers, FaultEarly(o) \/ FaultInCleanup(o)
    PROVE  Kept(o)
<1>1. TypeOK /\ pc[o] \notin Staging \cup {"idle"} /\ Faulty(o)
  BY DEF IInv, FaultEarly, FaultInCleanup, Staging
<1>2. pc'[o] = "idle" /\ \A p \in Openers \ {o} : SameCall(p)
  BY <1>1, FaultyKey DEF FaultEarly, FaultInCleanup, End, Goto, TypeOK, SameCall, call
<1>3. StagesHeld'
  BY <1>1, <1>2, NoStageMoves DEF FaultEarly, FaultInCleanup
<1>. QED
  BY <1>1, <1>2, <1>3, Over DEF FaultEarly, FaultInCleanup

LEMMA FaultInStageKept ==
    ASSUME IInv, NEW o \in Openers, FaultInStage(o)
    PROVE  Kept(o)
<1>1. TypeOK /\ pc[o] = "stage" /\ Faulty(o)
  BY DEF IInv, FaultInStage
<1>2. pc'[o] = "idle" /\ \A p \in Openers \ {o} : SameCall(p)
  BY <1>1, FaultyKey DEF FaultInStage, End, Goto, TypeOK, SameCall, call
<1>3. StagesHeld'
  <2>1. \A t \in Slots : stages'[t] \in Openers => stages'[t] = stages[t]
    BY <1>1, StoreAssumption DEF FaultInStage, FreeSlots, TypeOK
  <2>2. \A t \in Slots : stages[t] # o
    BY <1>1 DEF IInv, StagesHeld, Staging
  <2>. QED  BY <1>2, <2>1, <2>2 DEF IInv, StagesHeld, SameCall
<1>. QED
  BY <1>1, <1>2, <1>3, Over DEF FaultInStage

LEMMA FaultInCopyKept ==
    ASSUME IInv, NEW o \in Openers, FaultInCopy(o)
    PROVE  Kept(o)
<1>1. TypeOK /\ pc[o] \in {"copyMain", "copyWal", "validate"} /\ Faulty(o)
  BY DEF IInv, FaultInCopy
<1>2. pc'[o] = "unstage" /\ result'[o] = "Storage" /\ \A p \in Openers \ {o} : SameCall(p)
  BY <1>1, FaultyKey DEF FaultInCopy, Goto, TypeOK, SameCall, call
<1>3. StagesHeld'
  BY <1>1, <1>2, StagesStay DEF FaultInCopy, Staging, SameCall
<1>. QED
  BY <1>1, <1>2, <1>3, FaultyKey, ReadingOn DEF FaultInCopy, Reading, Staging, call

LEMMA FaultInUnstageKept ==
    ASSUME IInv, NEW o \in Openers, FaultInUnstage(o)
    PROVE  Kept(o)
<1>1. TypeOK /\ pc[o] = "unstage" /\ Faulty(o)
  BY DEF IInv, FaultInUnstage
<1>2. pc'[o] = "idle" /\ \A p \in Openers \ {o} : SameCall(p)
  BY <1>1, FaultyKey DEF FaultInUnstage, End, Goto, TypeOK, SameCall
<1>3. StagesHeld'
  BY <1>2, StageGone DEF FaultInUnstage, SameCall
<1>. QED
  BY <1>1, <1>2, <1>3, Over DEF FaultInUnstage

LEMMA FaultInOpenKept ==
    ASSUME IInv, NEW o \in Openers, FaultInOpen(o)
    PROVE  Kept(o)
<1>1. DiskInv /\ Alone /\ TypeOK /\ pc[o] \in Opening /\ Faulty(o)
  BY DEF IInv, FaultInOpen
<1>2. \A p \in Openers \ {o} : SameCall(p)
  BY <1>1, FaultyKey DEF FaultInOpen, Fail, Goto, TypeOK, SameCall, call
<1>3. /\ UNCHANGED <<pages, log, pageKey, stages, accepted, owner, migrated>>
      /\ leaves \ {"journal"} \subseteq leaves' /\ leaves' \subseteq leaves
      /\ odd' \subseteq odd
  BY DEF FaultInOpen, call
<1>4. DiskInv'
  BY <1>1, <1>3 DEF DiskInv, NoOrphans
<1>5. OneCall(o)
  BY <1>1, <1>2, <1>3 DEF OneCall, Alone, Grown, DiskInv, Opening
<1>6. StagesHeld'
  BY <1>1, <1>2, <1>3, NoStageMoves DEF Opening, Staging
<1>7. Local(o)'
  <2>1. TypeOK'
    BY <1>1, FaultType DEF Fault
  <2>. QED
    BY <1>1, <1>3, <2>1, FaultyKey, FailLocal DEF FaultInOpen, Results
<1>. QED  BY <1>4, <1>5, <1>6, <1>7 DEF Kept

LEMMA LiveKept ==
    ASSUME IInv, NEW o \in Openers,
           Write(o) \/ StartCheckpoint(o) \/ EndCheckpoint(o) \/ Close(o)
    PROVE  Kept(o)
<1>1. Local(o) /\ DiskInv /\ Alone /\ TypeOK /\ pc[o] \in Live
  BY DEF IInv, Write, StartCheckpoint, EndCheckpoint, Close, Live
<1>2. /\ accepted /\ pages # "none"
      /\ "main" \in leaves /\ "wal" \in leaves /\ "shm" \in leaves
  BY <1>1 DEF Local, CallInv, AfterHeader, AfterWal, AfterShm, Live
<1>3. \A p \in Openers \ {o} : SameCall(p)
  BY <1>1 DEF Write, StartCheckpoint, EndCheckpoint, Close, Goto, TypeOK, SameCall, call
<1>4. UNCHANGED <<leaves, odd, pageKey, stages, accepted, excuse>> /\ pages' # "none"
  BY <1>2 DEF Write, StartCheckpoint, EndCheckpoint, Close, disk
<1>5. pc'[o] \in Live \cup {"idle"}
  BY <1>1 DEF Write, StartCheckpoint, EndCheckpoint, Close, Goto, TypeOK, Live
<1>6. DiskInv'
  BY <1>1, <1>2, <1>4
     DEF DiskInv, NoOrphans, Write, StartCheckpoint, EndCheckpoint, Close, disk
<1>7. OneCall(o)
  BY <1>2, <1>3, <1>4 DEF OneCall, Grown
<1>8. StagesHeld'
  BY <1>1, <1>3, <1>4, NoStageMoves DEF Live, Staging
<1>9. Local(o)'
  BY <1>1, <1>2, <1>4, <1>5
     DEF Local, CallInv, OwnerInv, KeyInv, Private, AfterHeader, AfterWal, AfterShm,
         Live, Reading, Staging, Opening, Calling
<1>. QED  BY <1>6, <1>7, <1>8, <1>9 DEF Kept

\* Nothing is known of calls when none is under way.
LEMMA AllIdle ==
    ASSUME \A o \in Openers : pc'[o] = "idle"
    PROVE  Alone' /\ \A o \in Openers : Local(o)'
  BY DEF Alone, Local, CallInv, OwnerInv, KeyInv, Private, AfterHeader, AfterWal,
         AfterShm, Live, Reading, Staging, Opening, Calling

LEMMA CrashKept ==
    ASSUME IInv, Crash
    PROVE  IInv'
<1>1. TypeOK'
  BY WorldType DEF IInv
<1>2. DiskInv'
  BY DEF IInv, DiskInv, NoOrphans, Crash, disk
<1>3. StagesHeld'
  BY StoreAssumption DEF Crash, StagesHeld
<1>. QED  BY <1>1, <1>2, <1>3, AllIdle DEF IInv, Crash

LEMMA LossKept ==
    ASSUME IInv, LoseShm \/ LosePair
    PROVE  IInv'
<1>1. TypeOK'
  BY WorldType DEF IInv
<1>2. DiskInv'
  BY DEF IInv, DiskInv, NoOrphans, LoseShm, LosePair, Lose
<1>3. StagesHeld'
  BY DEF IInv, StagesHeld, LoseShm, LosePair, Lose
<1>. QED  BY <1>1, <1>2, <1>3, AllIdle DEF IInv, LoseShm, LosePair, Lose

-----------------------------------------------------------------------------
(* The theorems.                                                            *)

LEMMA StepKept ==
    ASSUME IInv, NEW o \in Openers, Step(o)
    PROVE  IInv'
<1>1. TypeOK
  BY DEF IInv
<1>2. CASE RefuseShape(o) \/ Inspect(o) \/ InspectFails(o) \/ NeedStage(o)
  BY <1>1, <1>2, PreflightType, PreflightKept, Together DEF Kept
<1>3. CASE CreateStage(o)
  BY <1>1, <1>3, StageType, CreateStageKept, Together DEF Kept
<1>4. CASE NoStage(o) \/ CopyMain(o) \/ CopyWal(o) \/ Validate(o)
  BY <1>1, <1>4, StageType, CopyKept, Together DEF Kept
<1>5. CASE Unstage(o)
  BY <1>1, <1>5, StageType, UnstageKept, Together DEF Kept
<1>6. CASE Claim(o) \/ Own(o)
  BY <1>1, <1>6, OpenType, ClaimKept, Together DEF Kept
<1>7. CASE OpenMoved(o) \/ Open(o)
  BY <1>1, <1>7, OpenType, OpenMovedKept, OpenKept, Together DEF Kept
<1>8. CASE StartJournal(o) \/ WriteHeader(o)
  BY <1>1, <1>8, OpenType, JournalKept, Together DEF Kept
<1>9. CASE CreateWal(o) \/ CreateShm(o)
  BY <1>1, <1>9, OpenType, SidecarKept, Together DEF Kept
<1>10. CASE Normalize(o) \/ Migrate(o) \/ Accept(o)
  BY <1>1, <1>10, OpenType, MigrationKept, Together DEF Kept
<1>11. CASE Finish(o)
  BY <1>1, <1>11, OpenType, FinishKept, Together DEF Kept
<1>12. CASE Sweep(o)
  BY <1>1, <1>12, SweepType, SweepKept, Together DEF Kept
<1>. QED
  BY <1>2, <1>3, <1>4, <1>5, <1>6, <1>7, <1>8, <1>9, <1>10, <1>11, <1>12 DEF Step

LEMMA FaultKept ==
    ASSUME IInv, NEW o \in Openers, Fault(o)
    PROVE  IInv'
<1>1. TypeOK'
  BY FaultType DEF IInv
<1>2. Kept(o)
  BY FaultOver, FaultInStageKept, FaultInCopyKept, FaultInUnstageKept, FaultInOpenKept
     DEF Fault
<1>. QED  BY <1>1, <1>2, Together DEF Kept

LEMMA NextIInv == IInv /\ [Next]_vars => IInv'
<1> SUFFICES ASSUME IInv, [Next]_vars PROVE IInv'
  OBVIOUS
<1>1. ASSUME NEW o \in Openers, NEW k \in Keys, Begin(o, k) PROVE IInv'
  <2>1. TypeOK'
    BY <1>1, BeginType DEF IInv
  <2>. QED  BY <1>1, <2>1, BeginKept, Together DEF Kept
<1>2. ASSUME NEW o \in Openers, Step(o) \/ Fault(o) PROVE IInv'
  BY <1>2, StepKept, FaultKept
<1>3. ASSUME NEW o \in Openers,
             Write(o) \/ StartCheckpoint(o) \/ EndCheckpoint(o) \/ Close(o)
      PROVE  IInv'
  <2>1. TypeOK'
    BY <1>3, LiveType DEF IInv
  <2>. QED  BY <1>3, <2>1, LiveKept, Together DEF Kept
<1>4. CASE UNCHANGED vars
  BY <1>4 DEF vars, disk, call, budget, IInv, TypeOK, DiskInv, NoOrphans, Alone, Local,
              CallInv, OwnerInv, KeyInv, Private, KeyFits, Existing, Authority, StagesHeld
<1>. QED
  BY <1>1, <1>2, <1>3, <1>4, CrashKept, LossKept DEF Next

\* The invariant holds throughout, for any number of calls, crashes and faults.
THEOREM Invariance == Spec => []IInv
<1>. QED  BY InitIInv, NextIInv, PTL DEF Spec

\* Every variable of a store and its calls keeps its type, and a call is at
\* its cleanup exactly as long as it has entries to look at.
THEOREM TypeCorrect == Spec => []TypeOK
<1>1. IInv => TypeOK
  BY DEF IInv
<1>. QED  BY <1>1, Invariance, PTL

\* Crashes, failures and cleanups leave no sidecar without the main file, and
\* no index without its WAL (cleanup_fresh_candidates, claim_fresh_main).
THEOREM EntriesTogether == Spec => []NoOrphans
<1>1. IInv => NoOrphans
  BY DEF IInv, DiskInv
<1>. QED  BY <1>1, Invariance, PTL

\* No cleanup, crash or checkpoint takes the schema of an accepted store: the
\* authority to remove files ends with the migration.
THEOREM AcceptedStays == Spec => []AcceptedKept
<1>1. IInv => AcceptedKept
  BY DEF IInv, DiskInv, AcceptedKept, TypeOK, Pages, Logs
<1>. QED  BY <1>1, Invariance, PTL

\* A recovery stage in use belongs to one call, which is still at it
\* (validate_wal_without_shm_from_private_copy).
THEOREM StagesReturned == Spec => []StagesHeld
<1>1. IInv => StagesHeld
  BY DEF IInv
<1>. QED  BY <1>1, Invariance, PTL

\* Every store handed out has its entries at mode 0600, whatever the umask
\* (normalize_fresh_leaves, require_existing_writer_state).
THEOREM HandedOutPrivate == Spec => []ReadyIsPrivate
<1>1. IInv => ReadyIsPrivate
  BY DEF IInv, Local, Private, ReadyIsPrivate
<1>. QED  BY <1>1, Invariance, PTL

\* A step of a call that is still under way is its own, or leaves the disk.
LEMMA OwnSteps ==
    ASSUME IInv, Next, NEW o \in Openers, pc'[o] # pc[o]
    PROVE  \/ UNCHANGED disk
           \/ pc[o] \in Calling \ Reading
           \/ pc[o] \notin Calling
<1>1. TypeOK
  BY DEF IInv
<1>2. ASSUME NEW p \in Openers, Kept(p), p # o PROVE FALSE
  BY <1>2 DEF Kept, OneCall, SameCall
<1>3. ASSUME NEW p \in Openers, NEW k \in Keys, Begin(p, k) PROVE UNCHANGED disk
  BY <1>3 DEF Begin
<1>4. ASSUME NEW p \in Openers,
             \/ RefuseShape(p) \/ Inspect(p) \/ InspectFails(p) \/ NeedStage(p)
             \/ CreateStage(p) \/ NoStage(p) \/ CopyMain(p) \/ CopyWal(p)
             \/ Validate(p) \/ Unstage(p) \/ OpenMoved(p)
      PROVE  UNCHANGED disk
  BY <1>4 DEF RefuseShape, Inspect, InspectFails, NeedStage, CreateStage, NoStage,
              CopyMain, CopyWal, Validate, Unstage, OpenMoved
<1>5. ASSUME NEW p \in Openers,
             \/ Claim(p) \/ Own(p) \/ Open(p) \/ StartJournal(p) \/ WriteHeader(p)
             \/ CreateWal(p) \/ CreateShm(p) \/ Normalize(p) \/ Migrate(p) \/ Accept(p)
             \/ Finish(p) \/ Sweep(p)
      PROVE  pc[o] \in Calling \ Reading
  <2>1. Kept(p)
    BY <1>5, ClaimKept, OpenKept, JournalKept, SidecarKept, MigrationKept, FinishKept,
       SweepKept
  <2>2. p = o
    BY <1>2, <2>1
  <2>. QED
    BY <1>5, <2>2 DEF Claim, Own, Open, StartJournal, WriteHeader, CreateWal, CreateShm,
                      Normalize, Migrate, Accept, Finish, Sweep, Calling, Reading, Staging,
                      Opening
<1>6. ASSUME NEW p \in Openers, Fault(p)
      PROVE  UNCHANGED disk \/ pc[o] \in Calling \ Reading
  <2>1. CASE FaultInOpen(p)
    <3>1. p = o
      BY <1>2, <2>1, FaultInOpenKept
    <3>. QED
      BY <2>1, <3>1 DEF FaultInOpen, Calling, Reading, Staging, Opening
  <2>2. CASE ~FaultInOpen(p)
    BY <1>6, <2>2 DEF Fault, FaultEarly, FaultInStage, FaultInCopy, FaultInUnstage,
                      FaultInCleanup
  <2>. QED  BY <2>1, <2>2
<1>7. ASSUME NEW p \in Openers,
             Write(p) \/ StartCheckpoint(p) \/ EndCheckpoint(p) \/ Close(p)
      PROVE  pc[o] \notin Calling
  <2>1. p = o
    BY <1>2, <1>7, LiveKept
  <2>. QED
    BY <1>7, <2>1 DEF Write, StartCheckpoint, EndCheckpoint, Close, Calling, Staging, Opening
<1>8. CASE Crash
  BY <1>8 DEF Crash
<1>9. CASE LoseShm \/ LosePair
  BY <1>9 DEF LoseShm, LosePair, Lose
<1>. QED
  BY <1>3, <1>4, <1>5, <1>6, <1>7, <1>8, <1>9 DEF Next, Step

\* A call with a key that is not the store's changes no entry and no content:
\* it is refused by its preflight (preflight_existing).
THEOREM ForeignReadsOnly == Spec => ForeignUntouched
<1>1. IInv /\ [Next]_vars =>
        [\A o \in Openers :
            pc[o] \in Calling /\ pc'[o] # pc[o] /\ "key" \in excuse[o] => UNCHANGED disk]_vars
  <2> SUFFICES ASSUME IInv, Next, NEW o \in Openers,
                      pc[o] \in Calling, pc'[o] # pc[o], "key" \in excuse[o]
               PROVE  UNCHANGED disk
    OBVIOUS
  <2>1. pc[o] \in Reading
    BY DEF IInv, Local, KeyInv
  <2>. QED  BY <2>1, OwnSteps
<1>. QED  BY <1>1, Invariance, PTL DEF Spec, ForeignUntouched

-----------------------------------------------------------------------------
(* Why a call fails. What may keep it from succeeding it knows before: from *)
(* its snapshot, or because another call came. Nothing else then stands     *)
(* between its steps.                                                       *)

\* Whoever has company during its call knows it; what the shape of the
\* snapshot says against the call is known, too.
Company(o) ==
    pc[o] \in Calling /\ (\E p \in Openers \ {o} : pc[p] \in Calling) => "other" \in excuse[o]

Shape(o) ==
    pc[o] \in Calling =>
        /\ "journal" \in snap[o] => "journal" \in excuse[o]
        /\ "shm" \in snap[o] => "wal" \in snap[o]
        /\ pre[o] \in {"Stable", "FreshWal"} => {"wal", "shm"} \subseteq snap[o]

\* So is a key that does not fit; and only a WAL without its index is copied.
Told(o) ==
    /\ pc[o] \in Reading \cup {"open"} /\ ~KeyFits(o) => "key" \in excuse[o]
    /\ pc[o] \in {"stage"} \cup Staging => NeedsStage(snap[o])

\* With nobody else the disk is the one of the snapshot, with room for a stage.
Still(o) ==
    /\ pc[o] \in Reading \cup {"open"} /\ Existing(o) /\ excuse[o] \cap {"other", "mode"} = {}
           => leaves = snap[o] /\ odd = {}
    /\ pc[o] \in {"preflight", "stage"} /\ NeedsStage(snap[o])
           /\ excuse[o] \cap {"other", "slots"} = {}
           => FreeSlots # {}

\* As long as the index is missing, the copy of the main file is the file.
Copied(o) ==
    /\ pc[o] = "copyWal" /\ "shm" \notin leaves => copy[o].pages = pages
    /\ pc[o] = "validate" => Sound(copy[o].pages, copy[o].log)

\* A store that was found is opened only after its preflight.
Seen(o) ==
    /\ pc[o] \in Opening /\ Existing(o) => pre[o] # "none"
    /\ pc[o] = "unstage" /\ result[o] = "none" => pre[o] # "none"

\* A call that has no excuse finds the entries it expects at every step.
Orderly(o) ==
    pc[o] \in Opening \ {"open"} /\ Existing(o) /\ excuse[o] = {} =>
        /\ snap[o] \subseteq leaves
        /\ odd \cap snap[o] = {}
        /\ pc[o] # "header" => "journal" \notin leaves \cup odd
        /\ pc[o] \in {"migrate", "accept", "finish"} => odd = {}

Blamed(o) ==
    /\ result[o] = "Corrupted" => excuse[o] \cap {"key", "journal", "torn"} # {}
    /\ result[o] = "Storage" => excuse[o] # {}

Why(o) ==
    /\ Company(o) /\ Shape(o) /\ Told(o) /\ Still(o) /\ Copied(o) /\ Seen(o)
    /\ Orderly(o) /\ Blamed(o)

WhyInv == IInv /\ \A o \in Openers : Why(o)

\* A step of one call lets the others know that it comes, and changes the
\* disk only during the call, and what the main file holds only with the index
\* there.
Aside(o) ==
    /\ \A p \in Openers \ {o} :
          /\ pre'[p] = pre[p] /\ copy'[p] = copy[p]
          /\ \/ excuse'[p] = excuse[p]
             \/ pc[p] \in Calling /\ excuse'[p] = excuse[p] \cup {"other"}
          /\ pc[p] \in Calling /\ pc'[o] \in Calling => pc[o] \in Calling \/ "other" \in excuse'[p]
    /\ pc[o] \notin Calling => UNCHANGED <<leaves, odd, stages>>
    /\ pages' # pages => "shm" \in leaves \/ ~accepted

LEMMA OthersWhy ==
    ASSUME WhyInv, NEW o \in Openers, OneCall(o), Aside(o), NEW p \in Openers \ {o}
    PROVE  Why(p)'
<1>1. Why(p) /\ SameCall(p) /\ DiskInv /\ Alone
  BY DEF WhyInv, IInv, OneCall
<1>2. pre'[p] = pre[p] /\ copy'[p] = copy[p]
  BY DEF Aside
<1>3. /\ excuse[p] \subseteq excuse'[p]
      /\ excuse'[p] \subseteq excuse[p] \cup {"other"}
      /\ pc[p] \notin Calling => excuse'[p] = excuse[p]
  BY DEF Aside
<1>4. Blamed(p)'
  BY <1>1, <1>3 DEF Why, Blamed, SameCall
<1>5. CASE pc[p] = "idle"
  BY <1>1, <1>4, <1>5 DEF Why, Company, Shape, Told, Still, Copied, Seen, Orderly, SameCall,
     Calling, Reading, Staging, Opening
<1>6. CASE pc[p] # "idle"
  <2>1. accepted /\ accepted' /\ Grown /\ pages # "none"
    BY <1>1, <1>6 DEF OneCall, DiskInv
  <2>2. pc[p] \in Calling /\ "other" \notin excuse'[p] =>
            /\ pc[o] \notin Calling /\ pc'[o] \notin Calling
            /\ UNCHANGED <<leaves, odd, stages>>
    BY <1>1, <1>3 DEF Aside, Why, Company
  <2>3. Company(p)'
    <3> SUFFICES ASSUME pc'[p] \in Calling, NEW q \in Openers \ {p}, pc'[q] \in Calling,
                        "other" \notin excuse'[p]
                 PROVE  FALSE
      BY DEF Company
    <3>1. q # o
      BY <1>1, <2>2 DEF SameCall
    <3>2. pc[q] \in Calling /\ pc[p] \in Calling /\ "other" \notin excuse[p]
      BY <1>1, <1>3, <3>1 DEF OneCall, SameCall
    <3>. QED  BY <1>1, <3>2 DEF Why, Company
  <2>4. Shape(p)'
    BY <1>1, <1>2, <1>3 DEF Why, Shape, SameCall
  <2>5. Told(p)'
    BY <1>1, <2>1 DEF Why, Told, SameCall, Grown, KeyFits
  <2>6. Still(p)'
    BY <1>1, <1>3, <2>2 DEF Why, Still, SameCall, Existing, FreeSlots, Calling, Reading, Opening
  <2>7. Copied(p)'
    BY <1>1, <1>2, <2>1 DEF Why, Copied, SameCall, Grown, Aside
  <2>8. Seen(p)'
    BY <1>1, <1>2 DEF Why, Seen, SameCall, Existing
  <2>9. Orderly(p)'
    BY <1>1, <1>3, <2>2 DEF Why, Orderly, SameCall, Existing, Calling
  <2>. QED  BY <1>4, <2>3, <2>4, <2>5, <2>6, <2>7, <2>8, <2>9 DEF Why
<1>. QED  BY <1>5, <1>6

\* What a call knows stays with it as long as it runs.
LEMMA Remembered ==
    ASSUME WhyInv, NEW o \in Openers, OneCall(o), pc[o] \in Calling,
           snap'[o] = snap[o], excuse[o] \subseteq excuse'[o],
           \/ pre'[o] = pre[o]
           \/ pre'[o] \notin {"Stable", "FreshWal"}
           \/ {"wal", "shm"} \subseteq snap[o]
    PROVE  Company(o)' /\ Shape(o)'
<1>1. Company(o) /\ Shape(o)
  BY DEF WhyInv, Why
<1>2. Company(o)'
  BY <1>1 DEF Company, OneCall, SameCall
<1>3. Shape(o)'
  BY <1>1 DEF Shape
<1>. QED  BY <1>2, <1>3

\* A call that is neither reading nor opening has nothing more to know.
LEMMA Elsewhere ==
    ASSUME NEW o \in Openers, pc'[o] \notin Reading \cup Opening,
           Company(o)', Shape(o)', Blamed(o)'
    PROVE  Why(o)'
  BY DEF Why, Told, Still, Copied, Seen, Orderly, Reading, Staging, Opening

LEMMA Returned ==
    ASSUME NEW o \in Openers, pc'[o] \in {"idle"} \cup Live, Blamed(o)'
    PROVE  Why(o)'
  BY DEF Why, Company, Shape, Told, Still, Copied, Seen, Orderly, Calling, Reading, Staging,
         Opening, Live

LEMMA BeginWhy ==
    ASSUME WhyInv, NEW o \in Openers, NEW k \in Keys, Begin(o, k)
    PROVE  Aside(o) /\ Why(o)'
<1>1. TypeOK /\ DiskInv /\ pc[o] = "idle"
  BY DEF WhyInv, IInv, Begin
<1>2. \A p \in Openers \ {o} :
          /\ pc'[p] = pc[p] /\ pre'[p] = pre[p] /\ copy'[p] = copy[p]
          /\ excuse'[p] = IF pc[p] \in Calling THEN excuse[p] \cup {"other"} ELSE excuse[p]
  BY <1>1 DEF Begin, Goto, TypeOK
<1>3. Aside(o)
  BY <1>1, <1>2 DEF Begin, Aside, disk
<1>4. /\ snap'[o] = leaves /\ pre'[o] = "none" /\ key'[o] = k /\ result'[o] = Admission
      /\ excuse'[o] = Reasons(o, k)
      /\ pc'[o] \in {"idle", "preflight", "claim"}
      /\ Admission # "none" => pc'[o] = "idle"
      /\ UNCHANGED <<leaves, odd, pages, pageKey, stages>>
  BY <1>1 DEF Begin, Goto, TypeOK, disk
<1>5. /\ pages # "none" /\ pageKey # k => "key" \in Reasons(o, k)
      /\ "journal" \in leaves => "journal" \in Reasons(o, k)
      /\ odd # {} => "mode" \in Reasons(o, k)
      /\ NeedsStage(leaves) /\ FreeSlots = {} => "slots" \in Reasons(o, k)
      /\ (\E p \in Openers \ {o} : pc[p] \in Calling) => "other" \in Reasons(o, k)
  BY DEF Reasons, Excuses
<1>6. Company(o)'
  BY <1>2, <1>4, <1>5 DEF Company
<1>7. Shape(o)'
  BY <1>1, <1>4, <1>5 DEF Shape, DiskInv, NoOrphans
<1>8. Told(o)'
  BY <1>4, <1>5 DEF Told, KeyFits, Staging
<1>9. Still(o)'
  BY <1>4, <1>5 DEF Still, Existing, FreeSlots
<1>10. Copied(o)' /\ Seen(o)' /\ Orderly(o)'
  BY <1>4 DEF Copied, Seen, Orderly, Opening
<1>11. Blamed(o)'
  BY <1>1, <1>4, <1>5 DEF Blamed, Admission, DiskInv, NoOrphans
<1>. QED  BY <1>3, <1>6, <1>7, <1>8, <1>9, <1>10, <1>11 DEF Why

\* A step of a call in progress that touches no other's record, and changes
\* the main file only before the store is accepted, is aside.
LEMMA AsideStep ==
    ASSUME NEW o \in Openers, pc[o] \in Calling,
           \A p \in Openers \ {o} :
               pre'[p] = pre[p] /\ copy'[p] = copy[p] /\ excuse'[p] = excuse[p],
           pages' = pages \/ ~accepted
    PROVE  Aside(o)
  BY DEF Aside

LEMMA PreflightWhy ==
    ASSUME WhyInv, NEW o \in Openers,
           RefuseShape(o) \/ Inspect(o) \/ InspectFails(o) \/ NeedStage(o)
    PROVE  Aside(o) /\ Why(o)'
<1>1. TypeOK /\ Why(o) /\ pc[o] = "preflight" /\ pc[o] \in Calling /\ Existing(o)
  BY DEF WhyInv, IInv, Local, OwnerInv, RefuseShape, Inspect, InspectFails, NeedStage, InPlace,
         Calling, Reading
<1>2. OneCall(o)
  BY PreflightKept DEF WhyInv, Kept
<1>3. /\ UNCHANGED <<leaves, odd, pages, pageKey, stages, key, snap, copy>>
      /\ \A p \in Openers \ {o} : pre'[p] = pre[p] /\ excuse'[p] = excuse[p]
      /\ excuse[o] \subseteq excuse'[o]
  BY <1>1 DEF RefuseShape, Inspect, InspectFails, NeedStage, TypeOK, disk, call
<1>4. Aside(o)
  BY <1>1, <1>3, AsideStep
<1>5. CASE RefuseShape(o) \/ InspectFails(o)
  <2>1. pc'[o] = "idle" /\ result'[o] = "Corrupted"
    BY <1>1, <1>5 DEF RefuseShape, InspectFails, End, Goto, TypeOK
  <2>2. CASE RefuseShape(o)
    <3>1. "journal" \in excuse'[o]
      BY <1>1, <1>3, <2>2 DEF RefuseShape, Why, Shape
    <3>. QED  BY <1>4, <2>1, <3>1, Returned DEF Blamed
  <2>3. CASE InspectFails(o)
    <3>1. "key" \in excuse'[o] \/ "torn" \in excuse'[o]
      BY <1>1, <1>3, <2>3 DEF InspectFails, Why, Told, Reading, TypeOK
    <3>. QED  BY <1>4, <2>1, <3>1, Returned DEF Blamed
  <2>. QED  BY <1>5, <2>2, <2>3
<1>6. CASE NeedStage(o)
  <2>1. pc'[o] = "stage" /\ result' = result /\ pre' = pre /\ excuse' = excuse /\ NeedsStage(snap[o])
    BY <1>1, <1>6 DEF NeedStage, Goto, TypeOK, call
  <2>2. Company(o)' /\ Shape(o)'
    BY <1>1, <1>2, <1>3, <2>1, Remembered
  <2>3. Told(o)' /\ Still(o)'
    BY <1>1, <1>3, <2>1 DEF Why, Told, Still, Existing, KeyFits, FreeSlots, Reading
  <2>4. Copied(o)' /\ Seen(o)' /\ Orderly(o)' /\ Blamed(o)'
    BY <1>1, <2>1 DEF Why, Copied, Seen, Orderly, Blamed, Opening
  <2>. QED  BY <1>4, <2>2, <2>3, <2>4 DEF Why
<1>7. CASE Inspect(o)
  <2>1. CASE ~Unchanged(o)
    <3>1. pc'[o] = "idle" /\ result'[o] = "Storage"
      BY <1>1, <1>7, <2>1 DEF Inspect, End, Goto, TypeOK
    <3>2. excuse'[o] # {}
      BY <1>1, <1>3, <2>1 DEF Why, Still, Unchanged, Reading
    <3>. QED  BY <1>4, <3>1, <3>2, Returned DEF Blamed
  <2>2. CASE Unchanged(o)
    <3>1. pc'[o] = "open" /\ result' = result /\ excuse' = excuse /\ KeyFits(o)
      BY <1>1, <1>7, <2>2 DEF Inspect, Goto, TypeOK
    <3>2. /\ pre'[o] # "none"
          /\ pre'[o] \in {"Stable", "FreshWal"} => {"wal", "shm"} \subseteq snap[o]
      BY <1>1, <1>7 DEF Inspect, InPlace, TypeOK
    <3>3. Company(o)' /\ Shape(o)'
      BY <1>1, <1>2, <1>3, <3>1, <3>2, Remembered
    <3>4. Told(o)' /\ Still(o)'
      BY <1>1, <1>3, <3>1 DEF Why, Told, Still, Existing, KeyFits, Reading, Staging
    <3>5. Copied(o)' /\ Seen(o)' /\ Orderly(o)' /\ Blamed(o)'
      BY <1>1, <3>1, <3>2 DEF Why, Copied, Seen, Orderly, Blamed
    <3>. QED  BY <1>4, <3>3, <3>4, <3>5 DEF Why
  <2>. QED  BY <2>1, <2>2
<1>. QED  BY <1>5, <1>6, <1>7

\* A call at its private copy goes on, or is over with a reason.
LEMMA StagingWhy ==
    ASSUME WhyInv, NEW o \in Openers, pc[o] \in {"stage"} \cup Staging, OneCall(o),
           pc'[o] \in Staging,
           UNCHANGED <<leaves, odd, pages, pageKey, key, snap>>, excuse[o] \subseteq excuse'[o],
           pre'[o] \in {pre[o], "WalWithoutShm", "FreshWalWithoutShm"},
           Copied(o)', Seen(o)', Blamed(o)'
    PROVE  Why(o)'
<1>1. Why(o) /\ pc[o] \in Calling
  BY DEF WhyInv, Calling
<1>2. Company(o)' /\ Shape(o)'
  BY <1>1, Remembered
<1>3. Told(o)' /\ Still(o)'
  BY <1>1 DEF Why, Told, Still, Existing, KeyFits, Reading, Staging
<1>4. Orderly(o)'
  BY DEF Orderly, Opening, Staging
<1>. QED  BY <1>2, <1>3, <1>4 DEF Why

LEMMA StageWhy ==
    ASSUME WhyInv, NEW o \in Openers, CreateStage(o) \/ NoStage(o) \/ CopyMain(o)
    PROVE  Aside(o) /\ Why(o)'
<1>1. TypeOK /\ Why(o) /\ pc[o] \in {"stage"} \cup Staging /\ pc[o] \in Calling
  BY DEF WhyInv, IInv, CreateStage, NoStage, CopyMain, Calling, Staging
<1>2. OneCall(o)
  BY CreateStageKept, CopyKept DEF WhyInv, Kept
<1>3. /\ UNCHANGED <<leaves, odd, pages, pageKey, key, snap, pre, excuse>>
      /\ \A p \in Openers \ {o} : copy'[p] = copy[p]
  BY <1>1 DEF CreateStage, NoStage, CopyMain, TypeOK, disk, call
<1>4. Aside(o)
  BY <1>1, <1>3, AsideStep
<1>5. CASE NoStage(o)
  <2>1. pc[o] = "stage" /\ pc'[o] = "idle" /\ result'[o] = "Storage" /\ FreeSlots = {}
    BY <1>1, <1>5 DEF NoStage, End, Goto, TypeOK
  <2>2. excuse'[o] # {}
    BY <1>1, <1>3, <2>1 DEF Why, Told, Still
  <2>. QED  BY <1>4, <2>1, <2>2, Returned DEF Blamed
<1>6. CASE CreateStage(o) \/ CopyMain(o)
  <2>1. pc'[o] \in {"copyMain", "copyWal"} /\ result' = result
        /\ (pc'[o] = "copyWal" => copy'[o].pages = pages)
    BY <1>1, <1>6 DEF CreateStage, CopyMain, Goto, TypeOK
  <2>2. Copied(o)' /\ Seen(o)' /\ Blamed(o)'
    BY <1>1, <1>3, <2>1 DEF Why, Copied, Seen, Blamed, Opening
  <2>. QED  BY <1>1, <1>2, <1>3, <1>4, <2>1, <2>2, StagingWhy DEF Staging
<1>. QED  BY <1>5, <1>6

LEMMA CopyWalWhy ==
    ASSUME WhyInv, NEW o \in Openers, CopyWal(o)
    PROVE  Aside(o) /\ Why(o)'
<1>1. TypeOK /\ DiskInv /\ Why(o) /\ pc[o] = "copyWal" /\ pc[o] \in Staging /\ pc[o] \in Calling
      /\ Existing(o)
  BY DEF WhyInv, IInv, Local, OwnerInv, CopyWal, Calling, Staging, Reading
<1>2. OneCall(o)
  BY CopyKept DEF WhyInv, Kept
<1>3. /\ UNCHANGED <<leaves, odd, pages, pageKey, key, snap, pre, excuse>>
      /\ \A p \in Openers \ {o} : copy'[p] = copy[p]
      /\ copy'[o].pages = copy[o].pages /\ copy'[o].log = log
  BY <1>1 DEF CopyWal, TypeOK, disk, budget
<1>4. Aside(o)
  BY <1>1, <1>3, AsideStep
<1>5. CASE Unchanged(o)
  <2>1. pc'[o] = "validate" /\ result' = result
    BY <1>1, <1>5 DEF CopyWal, Goto, TypeOK
  <2>2. copy[o].pages = pages
    BY <1>1, <1>5 DEF Why, Told, Copied, NeedsStage, Unchanged
  <2>3. Copied(o)'
    BY <1>1, <1>3, <2>1, <2>2 DEF Copied, Sound, DiskInv
  <2>4. Seen(o)' /\ Blamed(o)'
    BY <1>1, <1>3, <2>1 DEF Why, Seen, Blamed, Opening
  <2>. QED  BY <1>1, <1>2, <1>3, <1>4, <2>1, <2>3, <2>4, StagingWhy DEF Staging
<1>6. CASE ~Unchanged(o)
  <2>1. pc'[o] = "unstage" /\ result'[o] = "Storage"
    BY <1>1, <1>6 DEF CopyWal, Goto, TypeOK
  <2>2. excuse[o] # {}
    BY <1>1, <1>6 DEF Why, Still, Unchanged, Reading
  <2>3. Copied(o)' /\ Seen(o)' /\ Blamed(o)'
    BY <1>3, <2>1, <2>2 DEF Copied, Seen, Blamed, Opening
  <2>. QED  BY <1>1, <1>2, <1>3, <1>4, <2>1, <2>3, StagingWhy DEF Staging
<1>. QED  BY <1>5, <1>6

LEMMA ValidateWhy ==
    ASSUME WhyInv, NEW o \in Openers, Validate(o)
    PROVE  Aside(o) /\ Why(o)'
<1>1. TypeOK /\ Why(o) /\ pc[o] = "validate" /\ pc[o] \in Staging /\ pc[o] \in Calling
      /\ Existing(o) /\ pc[o] \in Reading
  BY DEF WhyInv, IInv, Local, OwnerInv, Validate, Calling, Staging, Reading
<1>2. OneCall(o)
  BY CopyKept DEF WhyInv, Kept
<1>3. /\ UNCHANGED <<leaves, odd, pages, pageKey, key, snap, copy, excuse>>
      /\ \A p \in Openers \ {o} : pre'[p] = pre[p]
      /\ pre'[o] \in {"WalWithoutShm", "FreshWalWithoutShm"}
      /\ pc'[o] = "unstage" /\ result'[o] = Verdict(o)
  BY <1>1 DEF Validate, Goto, TypeOK, disk
<1>4. Aside(o)
  BY <1>1, <1>3, AsideStep
<1>5. Verdict(o) = "Corrupted" => "key" \in excuse[o]
  BY <1>1 DEF Verdict, Why, Told, Copied
<1>6. Verdict(o) = "Storage" => excuse[o] # {}
  BY <1>1 DEF Verdict, Why, Still, Unchanged
<1>7. Copied(o)' /\ Seen(o)' /\ Blamed(o)'
  BY <1>3, <1>5, <1>6 DEF Copied, Seen, Blamed, Opening
<1>. QED  BY <1>1, <1>2, <1>3, <1>4, <1>7, StagingWhy DEF Staging

LEMMA UnstageWhy ==
    ASSUME WhyInv, NEW o \in Openers, Unstage(o)
    PROVE  Aside(o) /\ Why(o)'
<1>1. TypeOK /\ Why(o) /\ pc[o] = "unstage" /\ pc[o] \in Calling /\ pc[o] \in Reading /\ Existing(o)
  BY DEF WhyInv, IInv, Local, OwnerInv, Unstage, Calling, Staging, Reading
<1>2. OneCall(o)
  BY UnstageKept DEF WhyInv, Kept
<1>3. /\ UNCHANGED <<leaves, odd, pages, pageKey, key, snap, pre, excuse>>
      /\ \A p \in Openers \ {o} : copy'[p] = copy[p]
  BY <1>1 DEF Unstage, TypeOK, disk
<1>4. Aside(o)
  BY <1>1, <1>3, AsideStep
<1>5. CASE result[o] # "none"
  <2>1. pc'[o] = "idle" /\ result' = result
    BY <1>1, <1>5 DEF Unstage, Goto, TypeOK
  <2>. QED  BY <1>1, <1>3, <1>4, <2>1, Returned DEF Why, Blamed
<1>6. CASE result[o] = "none" /\ ~Unchanged(o)
  <2>1. pc'[o] = "idle" /\ result'[o] = "Storage"
    BY <1>1, <1>6 DEF Unstage, End, Goto, TypeOK
  <2>2. excuse[o] # {}
    BY <1>1, <1>6 DEF Why, Still, Unchanged
  <2>. QED  BY <1>3, <1>4, <2>1, <2>2, Returned DEF Blamed
<1>7. CASE result[o] = "none" /\ Unchanged(o)
  <2>1. pc'[o] = "open" /\ result' = result
    BY <1>1, <1>7 DEF Unstage, Goto, TypeOK
  <2>2. Company(o)' /\ Shape(o)'
    BY <1>1, <1>2, <1>3, Remembered
  <2>3. Told(o)' /\ Still(o)'
    BY <1>1, <1>3, <2>1 DEF Why, Told, Still, Existing, KeyFits, Staging
  <2>4. Copied(o)' /\ Seen(o)' /\ Orderly(o)' /\ Blamed(o)'
    BY <1>1, <1>3, <1>7, <2>1 DEF Why, Copied, Seen, Orderly, Blamed
  <2>. QED  BY <1>4, <2>2, <2>3, <2>4 DEF Why
<1>. QED  BY <1>5, <1>6, <1>7

\* A call whose connection goes on.
LEMMA OpeningWhy ==
    ASSUME WhyInv, NEW o \in Openers, pc[o] \in Opening, OneCall(o),
           pc'[o] \in Opening \ {"open"}, result'[o] = result[o],
           UNCHANGED <<snap, pre, excuse>>,
           Orderly(o)'
    PROVE  Why(o)'
<1>1. Why(o) /\ pc[o] \in Calling
  BY DEF WhyInv, Calling
<1>2. Company(o)' /\ Shape(o)'
  BY <1>1, Remembered
<1>3. Told(o)' /\ Still(o)' /\ Copied(o)'
  BY DEF Told, Still, Copied, Reading, Staging, Opening
<1>4. Seen(o)' /\ Blamed(o)'
  BY <1>1 DEF Why, Seen, Blamed, Existing, Opening
<1>. QED  BY <1>2, <1>3, <1>4 DEF Why

\* A call whose connection fails.
LEMMA FailWhy ==
    ASSUME WhyInv, NEW o \in Openers, NEW r \in Results, pc[o] \in Opening, OneCall(o),
           Fail(o, r), UNCHANGED <<snap, pre>>, excuse[o] \subseteq excuse'[o],
           r = "Corrupted" => excuse'[o] \cap {"key", "journal", "torn"} # {},
           r = "Storage" => excuse'[o] # {}
    PROVE  Why(o)'
<1>1. TypeOK /\ pc[o] \in Calling
  BY DEF WhyInv, IInv, Calling
<1>2. pc'[o] \in {"idle", "cleanup"} /\ result'[o] = r
  BY <1>1 DEF Fail, Goto, TypeOK
<1>3. Company(o)' /\ Shape(o)'
  BY <1>1, Remembered
<1>4. Blamed(o)'
  BY <1>2 DEF Blamed
<1>. QED  BY <1>2, <1>3, <1>4, Elsewhere DEF Reading, Staging, Opening

LEMMA ClaimWhy ==
    ASSUME WhyInv, NEW o \in Openers, Claim(o) \/ Own(o)
    PROVE  Aside(o) /\ Why(o)'
<1>1. TypeOK /\ Why(o) /\ pc[o] \in {"claim", "own"} /\ pc[o] \in Calling /\ ~Existing(o)
      /\ (pc[o] = "own" => pages = "none")
  BY DEF WhyInv, IInv, Local, CallInv, Claim, Own, Calling, Existing
<1>2. OneCall(o)
  BY ClaimKept DEF WhyInv, Kept
<1>3. UNCHANGED <<pages, snap, pre, copy, result, excuse>>
      /\ pc'[o] = IF pc[o] = "claim" THEN "own" ELSE "open"
  BY <1>1 DEF Claim, Own, Goto, TypeOK, call
<1>4. Aside(o)
  BY <1>1, <1>3, AsideStep
<1>5. Company(o)' /\ Shape(o)'
  BY <1>1, <1>2, <1>3, Remembered
<1>6. Told(o)' /\ Still(o)' /\ Copied(o)' /\ Seen(o)' /\ Orderly(o)' /\ Blamed(o)'
  BY <1>1, <1>3 DEF Why, Told, Still, Copied, Seen, Orderly, Blamed, Existing, KeyFits,
                    Reading, Staging, Opening
<1>. QED  BY <1>4, <1>5, <1>6 DEF Why

LEMMA OpenWhy ==
    ASSUME WhyInv, NEW o \in Openers, OpenMoved(o) \/ Open(o)
    PROVE  Aside(o) /\ Why(o)'
<1>1. TypeOK /\ Why(o) /\ pc[o] = "open" /\ pc[o] \in Opening /\ pc[o] \in Calling
  BY DEF WhyInv, IInv, OpenMoved, Open, Calling, Opening
<1>2. OneCall(o)
  BY OpenMovedKept, OpenKept DEF WhyInv, Kept
<1>3. UNCHANGED <<pages, snap, pre, copy, excuse>>
  BY DEF OpenMoved, Open, disk, call
<1>4. Aside(o)
  BY <1>1, <1>3, AsideStep
<1>5. CASE OpenMoved(o)
  <2>1. excuse[o] # {}
    BY <1>1, <1>5 DEF OpenMoved, Why, Still, Unchanged
  <2>. QED
    BY <1>1, <1>2, <1>3, <1>4, <1>5, <2>1, FailWhy DEF OpenMoved, Results
<1>6. CASE Open(o) /\ ~KeyFits(o)
  <2>1. "key" \in excuse[o]
    BY <1>1, <1>6 DEF Why, Told
  <2>. QED
    BY <1>1, <1>2, <1>3, <1>4, <1>6, <2>1, FailWhy DEF Open, Results
<1>7. CASE Open(o) /\ KeyFits(o)
  <2>1. pc'[o] \in {"journal", "wal"} /\ result' = result
    BY <1>1, <1>7 DEF Open, Goto, TypeOK
  <2>2. \/ UNCHANGED <<leaves, odd>>
        \/ /\ leaves' = leaves \cup {"shm"} /\ "shm" \notin leaves
           /\ odd' \subseteq odd \cup {"shm"}
    BY <1>7 DEF Open, Create, NeedsStage
  <2>3. Orderly(o)'
    <3> SUFFICES ASSUME Existing(o), excuse[o] = {}
                 PROVE  /\ snap[o] \subseteq leaves'
                        /\ odd' \cap snap[o] = {}
                        /\ "journal" \notin leaves' \cup odd'
      BY <1>3, <2>1 DEF Orderly, Existing
    <3>1. leaves = snap[o] /\ odd = {} /\ "journal" \notin snap[o]
      BY <1>1 DEF Why, Still, Shape
    <3>. QED  BY <2>2, <3>1
  <2>. QED  BY <1>1, <1>2, <1>3, <1>4, <2>1, <2>3, OpeningWhy DEF Opening
<1>. QED  BY <1>5, <1>6, <1>7

\* Each step of a connection finds the entries the one before it left.
LEMMA ConnectionWhy ==
    ASSUME WhyInv, NEW o \in Openers,
           \/ StartJournal(o) \/ WriteHeader(o) \/ CreateWal(o) \/ CreateShm(o)
           \/ Normalize(o) \/ Migrate(o) \/ Accept(o)
    PROVE  Aside(o) /\ Why(o)'
<1>1. /\ TypeOK /\ Why(o) /\ pc[o] \in Opening \ {"open"} /\ pc[o] \in Calling
      /\ pc[o] = "header" => ~accepted
      /\ pc[o] \in AfterHeader => "main" \in leaves
      /\ pc[o] \in AfterWal => "wal" \in leaves
      /\ pc[o] \in AfterShm => "shm" \in leaves
  BY DEF WhyInv, IInv, Local, CallInv, StartJournal, WriteHeader, CreateWal, CreateShm,
         Normalize, Migrate, Accept, Calling, Opening
<1>2. OneCall(o)
  BY JournalKept, SidecarKept, MigrationKept DEF WhyInv, Kept
<1>3. UNCHANGED <<snap, pre, copy, excuse>> /\ result' = result /\ (pages' = pages \/ ~accepted)
  BY <1>1 DEF StartJournal, WriteHeader, CreateWal, CreateShm, Normalize, Migrate, Accept, call
<1>4. Aside(o)
  BY <1>1, <1>3, AsideStep
<1>5. pc'[o] \in Opening \ {"open"}
  BY <1>1 DEF StartJournal, WriteHeader, CreateWal, CreateShm, Normalize, Migrate, Accept,
              Goto, TypeOK, Opening
<1>6. Orderly(o)'
  <2> SUFFICES ASSUME Existing(o), excuse[o] = {}
               PROVE  /\ snap[o] \subseteq leaves'
                      /\ odd' \cap snap[o] = {}
                      /\ pc'[o] # "header" => "journal" \notin leaves' \cup odd'
                      /\ pc'[o] \in {"migrate", "accept", "finish"} => odd' = {}
    BY <1>3 DEF Orderly, Existing
  <2>1. /\ snap[o] \subseteq leaves /\ odd \cap snap[o] = {}
        /\ pc[o] # "header" => "journal" \notin leaves \cup odd
        /\ pc[o] \in {"migrate", "accept", "finish"} => odd = {}
        /\ "main" \in snap[o] /\ "journal" \notin snap[o] /\ pre[o] # "none"
        /\ pre[o] \in {"Stable", "FreshWal"} => {"wal", "shm"} \subseteq snap[o]
    BY <1>1 DEF Why, Orderly, Shape, Seen, Existing
  <2>2. CASE StartJournal(o) \/ CreateWal(o) \/ CreateShm(o)
    <3>1. PICK l \in {"journal", "wal", "shm"} :
             /\ leaves' = leaves \cup {l}
             /\ odd' \subseteq odd \cup {l} /\ (l \in odd' \ odd => l \notin leaves)
             /\ l = "journal" <=> pc'[o] = "header"
             /\ pc[o] # "header"
      BY <1>1, <2>2 DEF StartJournal, CreateWal, CreateShm, Create, Goto, TypeOK
    <3>2. pc'[o] \notin {"migrate", "accept", "finish"}
      BY <1>1, <2>2 DEF StartJournal, CreateWal, CreateShm, Goto, TypeOK
    <3>. QED  BY <2>1, <3>1, <3>2
  <2>3. CASE WriteHeader(o)
    <3>1. leaves' = leaves \ {"journal"} /\ odd' = odd \ {"journal"} /\ pc'[o] = "wal"
      BY <1>1, <2>3 DEF WriteHeader, Goto, TypeOK
    <3>. QED  BY <2>1, <3>1
  <2>4. CASE Normalize(o)
    <3>1. leaves' = leaves /\ odd' = Normalized(o) /\ pc[o] = "normalize"
          /\ pc'[o] \in {"migrate", "finish"}
      BY <1>1, <2>4 DEF Normalize, Goto, TypeOK
    <3>2. CASE PermitsNewSidecars(o) \/ fresh[o]
      BY <2>1, <3>1, <3>2 DEF Normalized
    <3>3. CASE ~PermitsNewSidecars(o)
      <4>1. pre[o] \in {"Stable", "FreshWal"}
        BY <1>1, <2>1, <3>3 DEF PermitsNewSidecars, TypeOK, Preflights
      <4>2. odd = {}
        BY <1>1, <2>1, <3>1, <4>1 DEF TypeOK, Leaf
      <4>. QED  BY <2>1, <3>1, <4>2 DEF Normalized
    <3>. QED  BY <3>2, <3>3
  <2>5. CASE Migrate(o) \/ Accept(o)
    <3>1. leaves' = leaves /\ odd' \subseteq odd /\ pc[o] \in {"migrate", "accept"}
      BY <2>5 DEF Migrate, Accept, Normalized
    <3>. QED  BY <2>1, <3>1
  <2>. QED  BY <2>2, <2>3, <2>4, <2>5
<1>. QED  BY <1>1, <1>2, <1>3, <1>4, <1>5, <1>6, OpeningWhy

LEMMA FinishWhy ==
    ASSUME WhyInv, NEW o \in Openers, Finish(o)
    PROVE  Aside(o) /\ Why(o)'
<1>1. /\ TypeOK /\ Why(o) /\ pc[o] = "finish" /\ pc[o] \in Opening /\ pc[o] \in Calling
      /\ {"main", "wal", "shm"} \subseteq leaves
  BY DEF WhyInv, IInv, Local, CallInv, AfterHeader, AfterWal, AfterShm, Finish, Calling, Opening
<1>2. OneCall(o)
  BY FinishKept DEF WhyInv, Kept
<1>3. UNCHANGED <<pages, snap, pre, copy, excuse>>
  BY DEF Finish, disk, call
<1>4. Aside(o)
  BY <1>1, <1>3, AsideStep
<1>5. CASE Existing(o) /\ ~WriterState(o)
  <2>1. excuse[o] # {}
    <3> SUFFICES ASSUME excuse[o] = {} PROVE WriterState(o)
      BY <1>5
    <3>1. /\ snap[o] \subseteq leaves /\ odd = {} /\ "journal" \notin leaves
          /\ "main" \in snap[o]
          /\ pre[o] \in {"Stable", "FreshWal"} => {"wal", "shm"} \subseteq snap[o]
      BY <1>1, <1>5 DEF Why, Orderly, Shape, Existing, Opening
    <3>2. leaves \in SUBSET Leaf
      BY <1>1 DEF TypeOK
    <3>3. leaves = {"main", "wal", "shm"}
      BY <1>1, <3>1, <3>2 DEF Leaf
    <3>. QED  BY <3>1, <3>3 DEF WriterState
  <2>. QED
    BY <1>1, <1>2, <1>3, <1>4, <1>5, <2>1, FailWhy DEF Finish, Results
<1>6. CASE ~(Existing(o) /\ ~WriterState(o))
  <2>1. pc'[o] = "ready" /\ result'[o] = "Ready"
    BY <1>1, <1>6 DEF Finish, Goto, TypeOK
  <2>. QED  BY <1>4, <2>1, Returned DEF Blamed, Live
<1>. QED  BY <1>5, <1>6

LEMMA SweepWhy ==
    ASSUME WhyInv, NEW o \in Openers, Sweep(o)
    PROVE  Aside(o) /\ Why(o)'
<1>1. TypeOK /\ Why(o) /\ pc[o] = "cleanup" /\ pc[o] \in Calling /\ ~accepted
  BY DEF WhyInv, IInv, Local, OwnerInv, Sweep, Calling
<1>2. OneCall(o)
  BY SweepKept DEF WhyInv, Kept
<1>3. UNCHANGED <<snap, pre, copy, excuse, result>> /\ pc'[o] \in {"idle", "cleanup"}
  BY <1>1 DEF Sweep, Goto, TypeOK, call
<1>4. Aside(o)
  BY <1>1, <1>3, AsideStep
<1>5. Company(o)' /\ Shape(o)' /\ Blamed(o)'
  BY <1>1, <1>2, <1>3, Remembered DEF Why, Blamed
<1>. QED  BY <1>3, <1>4, <1>5, Elsewhere DEF Reading, Staging, Opening

\* A fault is an excuse, and the end of what the call was about.
LEMMA FaultWhy ==
    ASSUME WhyInv, NEW o \in Openers, Fault(o)
    PROVE  Aside(o) /\ Why(o)'
<1>1. TypeOK /\ Why(o) /\ pc[o] \in Calling
  BY DEF WhyInv, IInv, Fault, FaultEarly, FaultInStage, FaultInCopy, FaultInUnstage,
         FaultInOpen, FaultInCleanup, Calling, Staging
<1>2. OneCall(o)
  BY FaultOver, FaultInStageKept, FaultInCopyKept, FaultInUnstageKept, FaultInOpenKept
     DEF WhyInv, Kept, Fault
<1>3. Faulty(o) /\ UNCHANGED <<pages, snap, pre>>
      /\ \A p \in Openers \ {o} : copy'[p] = copy[p]
  BY <1>1 DEF Fault, FaultEarly, FaultInStage, FaultInCopy, FaultInUnstage, FaultInOpen,
              FaultInCleanup, TypeOK, disk, call
<1>4. excuse'[o] = excuse[o] \cup {"fault"} /\ \A p \in Openers \ {o} : excuse'[p] = excuse[p]
  BY <1>1, <1>3 DEF Faulty, TypeOK
<1>5. Aside(o)
  BY <1>1, <1>3, <1>4, AsideStep
<1>6. Company(o)' /\ Shape(o)'
  BY <1>1, <1>2, <1>3, <1>4, Remembered
<1>7. result'[o] \in {result[o], "Storage"}
  BY <1>1 DEF Fault, FaultEarly, FaultInStage, FaultInCopy, FaultInUnstage, FaultInOpen,
              FaultInCleanup, Fail, End, TypeOK
<1>8. Blamed(o)'
  BY <1>1, <1>4, <1>7 DEF Why, Blamed
<1>9. CASE FaultInCopy(o)
  <2>1. /\ pc'[o] = "unstage" /\ result'[o] = "Storage" /\ pc[o] \in Staging
        /\ UNCHANGED <<leaves, odd, pages, pageKey, key, snap>>
    BY <1>1, <1>9 DEF FaultInCopy, Goto, TypeOK, Staging, disk, call
  <2>2. Copied(o)' /\ Seen(o)'
    BY <2>1 DEF Copied, Seen, Opening
  <2>. QED  BY <1>2, <1>3, <1>4, <1>5, <1>8, <2>1, <2>2, StagingWhy DEF Staging
<1>10. CASE ~FaultInCopy(o)
  <2>1. pc'[o] \in {"idle", "cleanup"}
    BY <1>1, <1>10 DEF Fault, FaultEarly, FaultInStage, FaultInUnstage, FaultInOpen,
                       FaultInCleanup, Fail, End, Goto, TypeOK
  <2>. QED  BY <1>5, <1>6, <1>8, <2>1, Elsewhere DEF Reading, Staging, Opening
<1>. QED  BY <1>9, <1>10

LEMMA LiveWhy ==
    ASSUME WhyInv, NEW o \in Openers,
           Write(o) \/ StartCheckpoint(o) \/ EndCheckpoint(o) \/ Close(o)
    PROVE  Aside(o) /\ Why(o)'
<1>1. TypeOK /\ Why(o) /\ pc[o] \in Live /\ "shm" \in leaves
  BY DEF WhyInv, IInv, Local, CallInv, AfterHeader, AfterWal, AfterShm, Write,
         StartCheckpoint, EndCheckpoint, Close, Live
<1>2. /\ UNCHANGED <<leaves, odd, stages, pre, copy, excuse, result>>
      /\ pc'[o] \in {"idle"} \cup Live
  BY <1>1 DEF Write, StartCheckpoint, EndCheckpoint, Close, Goto, TypeOK, Live, disk, call
<1>3. Aside(o)
  BY <1>1, <1>2 DEF Aside, Live, Calling, Staging, Opening
<1>. QED  BY <1>1, <1>2, <1>3, Returned DEF Why, Blamed

LEMMA InitWhy == Init => WhyInv
<1> SUFFICES ASSUME Init PROVE WhyInv
  OBVIOUS
<1>1. IInv
  BY InitIInv
<1>2. \A o \in Openers : Why(o)
  BY DEF Init, Why, Company, Shape, Told, Still, Copied, Seen, Orderly, Blamed, Calling,
         Reading, Staging, Opening
<1>. QED  BY <1>1, <1>2 DEF WhyInv

LEMMA NextWhy == WhyInv /\ [Next]_vars => WhyInv'
<1> SUFFICES ASSUME WhyInv, [Next]_vars PROVE WhyInv'
  OBVIOUS
<1>1. IInv'
  BY NextIInv DEF WhyInv
<1>2. ASSUME NEW o \in Openers, Kept(o), Aside(o), Why(o)' PROVE \A p \in Openers : Why(p)'
  BY <1>2, OthersWhy DEF Kept
<1>3. ASSUME NEW o \in Openers, NEW k \in Keys, Begin(o, k) PROVE \A p \in Openers : Why(p)'
  BY <1>2, <1>3, BeginKept, BeginWhy DEF WhyInv
<1>4. ASSUME NEW o \in Openers, Step(o) PROVE \A p \in Openers : Why(p)'
  <2>1. CASE RefuseShape(o) \/ Inspect(o) \/ InspectFails(o) \/ NeedStage(o)
    BY <1>2, <2>1, PreflightKept, PreflightWhy DEF WhyInv
  <2>2. CASE CreateStage(o) \/ NoStage(o) \/ CopyMain(o)
    BY <1>2, <2>2, CreateStageKept, CopyKept, StageWhy DEF WhyInv
  <2>3. CASE CopyWal(o) \/ Validate(o)
    BY <1>2, <2>3, CopyKept, CopyWalWhy, ValidateWhy DEF WhyInv
  <2>4. CASE Unstage(o)
    BY <1>2, <2>4, UnstageKept, UnstageWhy DEF WhyInv
  <2>5. CASE Claim(o) \/ Own(o)
    BY <1>2, <2>5, ClaimKept, ClaimWhy DEF WhyInv
  <2>6. CASE OpenMoved(o) \/ Open(o)
    BY <1>2, <2>6, OpenMovedKept, OpenKept, OpenWhy DEF WhyInv
  <2>7. CASE \/ StartJournal(o) \/ WriteHeader(o) \/ CreateWal(o) \/ CreateShm(o)
             \/ Normalize(o) \/ Migrate(o) \/ Accept(o)
    BY <1>2, <2>7, JournalKept, SidecarKept, MigrationKept, ConnectionWhy DEF WhyInv
  <2>8. CASE Finish(o)
    BY <1>2, <2>8, FinishKept, FinishWhy DEF WhyInv
  <2>9. CASE Sweep(o)
    BY <1>2, <2>9, SweepKept, SweepWhy DEF WhyInv
  <2>. QED  BY <1>4, <2>1, <2>2, <2>3, <2>4, <2>5, <2>6, <2>7, <2>8, <2>9 DEF Step
<1>5. ASSUME NEW o \in Openers, Fault(o) PROVE \A p \in Openers : Why(p)'
  <2>1. Kept(o)
    BY <1>5, FaultOver, FaultInStageKept, FaultInCopyKept, FaultInUnstageKept,
       FaultInOpenKept DEF WhyInv, Fault
  <2>. QED  BY <1>2, <1>5, <2>1, FaultWhy
<1>6. ASSUME NEW o \in Openers,
             Write(o) \/ StartCheckpoint(o) \/ EndCheckpoint(o) \/ Close(o)
      PROVE  \A p \in Openers : Why(p)'
  BY <1>2, <1>6, LiveKept, LiveWhy DEF WhyInv
<1>7. CASE Crash
  <2>1. \A p \in Openers : pc'[p] = "idle" /\ result'[p] = "none"
    BY <1>7 DEF Crash
  <2>. QED  BY <1>1, <2>1, Returned DEF WhyInv, Blamed
<1>8. CASE LoseShm \/ LosePair
  <2>1. \A p \in Openers : pc'[p] = "idle" /\ result'[p] = result[p] /\ excuse'[p] = excuse[p]
    BY <1>8 DEF LoseShm, LosePair, Lose
  <2>. QED  BY <1>1, <2>1, Returned DEF WhyInv, Why, Blamed
<1>9. CASE UNCHANGED vars
  BY <1>1, <1>9 DEF WhyInv, vars, disk, call, Why, Company, Shape, Told, Still, Copied, Seen, Orderly,
              Blamed, KeyFits, Existing, FreeSlots
<1>. QED
  BY <1>1, <1>3, <1>4, <1>5, <1>6, <1>7, <1>8, <1>9 DEF Next, WhyInv

\* Why a call fails is known throughout.
LEMMA WhyKnown == Spec => []WhyInv
<1>. QED  BY InitWhy, NextWhy, PTL DEF Spec

\* Corruption is reported only for a foreign key, a rollback journal or a
\* main file in the middle of a checkpoint, never for a half created store or
\* a copy another connection tore (preflight_existing, validate_identity,
\* validate_wal_without_shm_from_private_copy).
THEOREM CorruptionIsDamage == Spec => []CorruptedMeansDamage
<1>1. WhyInv => CorruptedMeansDamage
  BY DEF WhyInv, Why, Blamed, CorruptedMeansDamage
<1>. QED  BY <1>1, WhyKnown, PTL

\* Whatever an interruption left, an open that nothing outside of it keeps
\* from succeeding does not fail (LeafGuard::open, open_writer).
THEOREM ReopensCorrect == Spec => []Reopens
<1>1. WhyInv => Reopens
  BY DEF WhyInv, Why, Blamed, Reopens
<1>. QED  BY <1>1, WhyKnown, PTL

-----------------------------------------------------------------------------
(* The store as its callers see it (AccountStore).                          *)

\* Whose key the store is under: nobody's as long as it has no page, and that
\* of every call that is past the first page. A call that is under way came
\* with a key.
KeyKnown ==
    /\ pages = "none" <=> pageKey = NoKey
    /\ \A o \in Openers : pc[o] \in AfterHeader => key[o] = pageKey
    /\ \A o \in Openers : pc[o] # "idle" => key[o] \in Keys

StoreInv == IInv /\ KeyKnown

\* What is shown of the disk: an accepted store always has its schema.
View ==
    IF accepted THEN "kept" ELSE IF pages = "none" THEN "absent" ELSE "unfinished"

LEMMA ContentIsView ==
    /\ IInv => Content = View
    /\ IInv' => Content' = View'
<1>1. IInv => AcceptedKept
  BY DEF IInv, DiskInv, AcceptedKept, TypeOK, Pages, Logs
<1>2. IInv' => AcceptedKept'
  BY DEF IInv, DiskInv, AcceptedKept, TypeOK, Pages, Logs
<1>. QED  BY <1>1, <1>2 DEF Content, View

Refined == KeyKnown' /\ [Store!Next]_(Store!vars)

\* A step of a call, or of nobody, of which the callers see nothing.
LEMMA Unseen ==
    ASSUME StoreInv, IInv', UNCHANGED <<pages, pageKey, accepted>>,
           \A p \in Openers :
               \/ pc'[p] = pc[p] /\ key'[p] = key[p]
               \/ /\ pc[p] \notin Live /\ pc'[p] \notin Live
                  /\ pc'[p] \in AfterHeader => key'[p] = pageKey
                  /\ pc'[p] # "idle" => key'[p] \in Keys
    PROVE  Refined
<1>1. KeyKnown'
  BY DEF StoreInv, KeyKnown
<1>2. Content' = Content
  BY ContentIsView DEF StoreInv, View
<1>3. Held' = Held
  BY DEF Held
<1>. QED  BY <1>1, <1>2, <1>3 DEF Refined, Store!vars

\* The same, for one call that keeps its key.
LEMMA UnseenStep ==
    ASSUME StoreInv, IInv', NEW o \in Openers, OneCall(o),
           UNCHANGED <<pages, pageKey, accepted, key>>,
           pc[o] \notin Live \cup {"idle"}, pc'[o] \notin Live,
           pc'[o] \in AfterHeader => pc[o] \in AfterHeader \/ key[o] = pageKey
    PROVE  Refined
<1>1. /\ pc[o] \in AfterHeader => key[o] = pageKey
      /\ key[o] \in Keys
  BY DEF StoreInv, KeyKnown
<1>. QED  BY <1>1, Unseen DEF OneCall, SameCall

LEMMA BeginRefines ==
    ASSUME StoreInv, NEW o \in Openers, NEW k \in Keys, Begin(o, k), IInv'
    PROVE  Refined
<1>1. OneCall(o)
  BY BeginKept DEF StoreInv, Kept
<1>2. /\ pc[o] = "idle" /\ pc'[o] \in {"idle", "preflight", "claim"} /\ key'[o] = k
      /\ UNCHANGED <<pages, pageKey, accepted>>
  BY DEF StoreInv, IInv, TypeOK, Begin, Goto, disk
<1>. QED
  BY <1>1, <1>2, Unseen DEF OneCall, SameCall, AfterHeader, Live

\* Before the connection nothing is written.
LEMMA ReadingRefines ==
    ASSUME StoreInv, NEW o \in Openers, IInv',
           \/ RefuseShape(o) \/ Inspect(o) \/ InspectFails(o) \/ NeedStage(o)
           \/ CreateStage(o) \/ NoStage(o) \/ CopyMain(o) \/ CopyWal(o) \/ Validate(o)
           \/ Unstage(o)
    PROVE  Refined
<1>1. OneCall(o)
  BY PreflightKept, CreateStageKept, CopyKept, UnstageKept DEF StoreInv, Kept
<1>2. UNCHANGED <<pages, pageKey, accepted, key>>
  BY DEF RefuseShape, Inspect, InspectFails, NeedStage, CreateStage, NoStage, CopyMain,
         CopyWal, Validate, Unstage, disk, call
<1>3. pc[o] \in Reading
  BY DEF RefuseShape, Inspect, InspectFails, InPlace, NeedStage, CreateStage, NoStage,
         CopyMain, CopyWal, Validate, Unstage, Reading, Staging
<1>4. pc'[o] \in Reading \cup {"idle", "open"}
  BY DEF StoreInv, IInv, TypeOK, RefuseShape, Inspect, InspectFails, NeedStage, CreateStage,
         NoStage, CopyMain, CopyWal, Validate, Unstage, End, Goto, Reading, Staging
<1>. QED
  BY <1>1, <1>2, <1>3, <1>4, UnseenStep DEF Reading, Staging, AfterHeader, Live

\* From the exclusive create to the migration only WriteHeader is seen.
LEMMA OpeningRefines ==
    ASSUME StoreInv, NEW o \in Openers, IInv',
           \/ Claim(o) \/ Own(o) \/ OpenMoved(o) \/ Open(o) \/ StartJournal(o)
           \/ CreateWal(o) \/ CreateShm(o) \/ Normalize(o) \/ Migrate(o)
    PROVE  Refined
<1>1. OneCall(o)
  BY ClaimKept, OpenMovedKept, OpenKept, JournalKept, SidecarKept, MigrationKept
     DEF StoreInv, Kept
<1>2. UNCHANGED <<pages, pageKey, accepted, key>>
  BY DEF Claim, Own, OpenMoved, Open, StartJournal, CreateWal, CreateShm, Normalize, Migrate,
         disk, call
<1>3. pc[o] \in {"claim", "own", "open", "journal", "wal", "shm", "normalize", "migrate"}
  BY DEF Claim, Own, OpenMoved, Open, StartJournal, CreateWal, CreateShm, Normalize, Migrate
<1>4. pc'[o] \notin Live
  BY DEF StoreInv, IInv, TypeOK, Claim, Own, OpenMoved, Open, StartJournal, CreateWal,
         CreateShm, Normalize, Migrate, Fail, Goto, Live
<1>5. ASSUME pc'[o] \in AfterHeader, pc[o] \notin AfterHeader PROVE key[o] = pageKey
  <2>1. Open(o) /\ KeyFits(o) /\ pages # "none"
    BY <1>5 DEF StoreInv, IInv, TypeOK, Claim, Own, OpenMoved, Open, StartJournal, CreateWal,
                CreateShm, Normalize, Migrate, Fail, Goto, AfterHeader, Live
  <2>. QED  BY <2>1 DEF KeyFits
<1>. QED
  BY <1>1, <1>2, <1>3, <1>4, <1>5, UnseenStep DEF Live

\* The first page makes the store.
LEMMA WriteHeaderRefines ==
    ASSUME StoreInv, NEW o \in Openers, WriteHeader(o), IInv'
    PROVE  Refined
<1>1. /\ pc[o] = "header" /\ pages = "none" /\ ~accepted
      /\ pageKey' = key[o] /\ pages' = "header" /\ UNCHANGED <<accepted, key>>
  BY DEF WriteHeader, StoreInv, IInv, Local, CallInv, call
<1>2. /\ key[o] \in Keys
      /\ \A p \in Openers \ {o} : pc[p] = "idle" /\ pc'[p] = "idle"
  BY <1>1, JournalKept DEF StoreInv, KeyKnown, Kept, OneCall, SameCall
<1>3. pc'[o] = "wal"
  BY DEF StoreInv, IInv, TypeOK, WriteHeader, Goto
<1>4. KeyKnown'
  BY <1>1, <1>2, <1>3, StoreAssumption DEF KeyKnown, AfterHeader, Live
<1>5. Content = "absent" /\ Content' = "unfinished"
  BY <1>1, ContentIsView DEF StoreInv, View
<1>6. Held' = Held
  BY <1>1, <1>2, <1>3 DEF Held, Live
<1>7. Store!Make(key[o])
  BY <1>1, <1>5, <1>6 DEF Store!Make
<1>. QED  BY <1>2, <1>4, <1>7 DEF Refined, Store!Next

\* The migration keeps it.
LEMMA AcceptRefines ==
    ASSUME StoreInv, NEW o \in Openers, Accept(o), IInv'
    PROVE  Refined
<1>1. /\ pc[o] = "accept" /\ pages # "none" /\ accepted'
      /\ UNCHANGED <<pages, pageKey, key>>
  BY DEF Accept, StoreInv, IInv, Local, CallInv, AfterHeader
<1>2. pc'[o] = "finish" /\ \A p \in Openers \ {o} : pc'[p] = pc[p]
  BY DEF StoreInv, IInv, TypeOK, Accept, Goto
<1>3. KeyKnown'
  BY <1>1, <1>2 DEF StoreInv, KeyKnown, AfterHeader
<1>4. Held' = Held
  BY <1>1, <1>2 DEF Held, Live
<1>5. Content \in {"kept", "unfinished"} /\ Content' = "kept"
  BY <1>1, ContentIsView DEF StoreInv, View
<1>. QED
  BY <1>1, <1>3, <1>4, <1>5 DEF Refined, Store!Next, Store!Keep, Store!vars

\* A call that succeeds has the key; one that fails shows nothing.
LEMMA FinishRefines ==
    ASSUME StoreInv, NEW o \in Openers, Finish(o), IInv'
    PROVE  Refined
<1>1. /\ pc[o] = "finish" /\ pages # "none" /\ key[o] = pageKey
      /\ UNCHANGED <<pages, pageKey, key>>
  BY DEF Finish, StoreInv, KeyKnown, IInv, Local, CallInv, AfterHeader, disk, call
<1>2. OneCall(o)
  BY FinishKept DEF StoreInv, Kept
<1>3. CASE Existing(o) /\ ~WriterState(o)
  <2>1. pc'[o] \in {"cleanup", "idle"} /\ accepted' = accepted
    BY <1>3 DEF StoreInv, IInv, TypeOK, Finish, Fail, Goto
  <2>. QED
    BY <1>1, <1>2, <2>1, UnseenStep DEF AfterHeader, Live
<1>4. CASE ~(Existing(o) /\ ~WriterState(o))
  <2>1. /\ pc'[o] = "ready" /\ accepted'
        /\ \A p \in Openers \ {o} : pc'[p] = pc[p]
    BY <1>4 DEF StoreInv, IInv, TypeOK, Finish, Goto
  <2>2. KeyKnown'
    BY <1>1, <2>1 DEF StoreInv, KeyKnown
  <2>3. Content # "absent" /\ Content' = "kept"
    BY <1>1, <2>1, ContentIsView DEF StoreInv, View
  <2>4. Held' = [Held EXCEPT ![o] = pageKey]
    BY <1>1, <2>1 DEF Held, Live
  <2>5. Store!HandOut(o)
    BY <1>1, <2>3, <2>4 DEF Store!HandOut
  <2>. QED  BY <2>2, <2>5 DEF Refined, Store!Next
<1>. QED  BY <1>3, <1>4

\* A cleanup takes back what nobody was given.
LEMMA SweepRefines ==
    ASSUME StoreInv, NEW o \in Openers, Sweep(o), IInv'
    PROVE  Refined
<1>1. /\ pc[o] = "cleanup" /\ ~accepted /\ UNCHANGED <<accepted, key>>
  BY DEF Sweep, StoreInv, IInv, Local, OwnerInv, call
<1>2. OneCall(o)
  BY SweepKept DEF StoreInv, Kept
<1>3. pc'[o] \in {"idle", "cleanup"}
  BY DEF StoreInv, IInv, TypeOK, Sweep, Goto
<1>4. CASE UNCHANGED <<pages, pageKey>>
  BY <1>1, <1>2, <1>3, <1>4, UnseenStep DEF AfterHeader, Live
<1>5. CASE ~UNCHANGED <<pages, pageKey>>
  <2>1. pages' = "none" /\ pageKey' = NoKey
    BY <1>5 DEF Sweep
  <2>2. pages # "none"
    BY <1>5, <2>1 DEF StoreInv, KeyKnown
  <2>3. \A p \in Openers \ {o} : pc[p] = "idle" /\ pc'[p] = "idle"
    BY <1>1, <1>2 DEF OneCall, SameCall
  <2>4. KeyKnown'
    BY <1>1, <1>3, <2>1, <2>3 DEF StoreInv, KeyKnown, AfterHeader, Live
  <2>5. Content = "unfinished" /\ Content' = "absent"
    BY <1>1, <2>1, <2>2, ContentIsView DEF StoreInv, View
  <2>6. Held' = Held
    BY <1>1, <1>3, <2>3 DEF Held, Live
  <2>. QED  BY <2>1, <2>4, <2>5, <2>6 DEF Refined, Store!Next, Store!Discard
<1>. QED  BY <1>4, <1>5

\* No failure shows, whatever it leaves.
LEMMA FaultRefines ==
    ASSUME StoreInv, NEW o \in Openers, Fault(o), IInv'
    PROVE  Refined
<1>1. OneCall(o)
  BY FaultOver, FaultInStageKept, FaultInCopyKept, FaultInUnstageKept, FaultInOpenKept
     DEF Fault, StoreInv, Kept
<1>2. UNCHANGED <<pages, pageKey, accepted, key>>
  BY DEF Fault, FaultEarly, FaultInStage, FaultInCopy, FaultInUnstage, FaultInOpen,
         FaultInCleanup, disk, call
<1>3. pc[o] \in Calling
  BY DEF Fault, FaultEarly, FaultInStage, FaultInCopy, FaultInUnstage, FaultInOpen,
         FaultInCleanup, Calling, Staging, Opening
<1>4. pc'[o] \in {"idle", "unstage", "cleanup"}
  BY DEF StoreInv, IInv, TypeOK, Fault, FaultEarly, FaultInStage, FaultInCopy, FaultInUnstage,
         FaultInOpen, FaultInCleanup, End, Fail, Goto
<1>. QED
  BY <1>1, <1>2, <1>3, <1>4, UnseenStep DEF Calling, Staging, Opening, AfterHeader, Live

\* A live store changes only inside; closing it lets it go.
LEMMA LiveRefines ==
    ASSUME StoreInv, NEW o \in Openers, IInv',
           Write(o) \/ StartCheckpoint(o) \/ EndCheckpoint(o) \/ Close(o)
    PROVE  Refined
<1>1. /\ pc[o] \in Live /\ accepted /\ pages # "none" /\ pages' # "none"
      /\ UNCHANGED <<pageKey, accepted, key>>
  BY DEF Write, StartCheckpoint, EndCheckpoint, Close, StoreInv, IInv, Local, CallInv,
         AfterHeader, Live, disk, call
<1>2. /\ pc'[o] \in Live \cup {"idle"}
      /\ \A p \in Openers \ {o} : pc'[p] = pc[p]
  BY DEF Write, StartCheckpoint, EndCheckpoint, Close, StoreInv, IInv, TypeOK, Goto, Live
<1>3. KeyKnown'
  BY <1>1, <1>2 DEF StoreInv, KeyKnown, AfterHeader, Live
<1>4. Content' = Content
  BY <1>1, ContentIsView DEF StoreInv, View
<1>5. CASE pc'[o] \in Live
  <2>1. Held' = Held
    BY <1>1, <1>2, <1>5 DEF Held
  <2>. QED  BY <1>1, <1>3, <1>4, <2>1 DEF Refined, Store!vars
<1>6. CASE pc'[o] = "idle"
  <2>1. Held' = [p \in Openers |-> IF p \in {o} THEN NoKey ELSE Held[p]]
    BY <1>1, <1>2, <1>6 DEF Held, Live
  <2>2. Store!Release
    BY <1>1, <1>4, <2>1 DEF Store!Release
  <2>. QED  BY <1>3, <2>2 DEF Refined, Store!Next
<1>. QED  BY <1>2, <1>5, <1>6

\* A crash lets everybody go; nothing of the store is lost with it.
LEMMA WorldRefines ==
    ASSUME StoreInv, Crash \/ LoseShm \/ LosePair, IInv'
    PROVE  Refined
<1>1. CASE Crash
  <2>1. /\ \A p \in Openers : pc'[p] = "idle"
        /\ UNCHANGED <<pages, pageKey, accepted>>
    BY <1>1 DEF Crash, disk
  <2>2. KeyKnown'
    BY <2>1 DEF StoreInv, KeyKnown, AfterHeader, Live
  <2>3. Content' = Content
    BY <2>1, ContentIsView DEF StoreInv, View
  <2>4. Held' = [p \in Openers |-> IF p \in Openers THEN NoKey ELSE Held[p]]
    BY <2>1 DEF Held, Live
  <2>5. Store!Release
    BY <2>1, <2>3, <2>4 DEF Store!Release
  <2>. QED  BY <2>2, <2>5 DEF Refined, Store!Next
<1>2. CASE LoseShm \/ LosePair
  BY <1>2, Unseen DEF LoseShm, LosePair, Lose, call
<1>. QED  BY <1>1, <1>2

LEMMA InitRefines == Init => StoreInv /\ Store!Init
<1> SUFFICES ASSUME Init PROVE StoreInv /\ Store!Init
  OBVIOUS
<1>1. KeyKnown
  BY DEF Init, KeyKnown, AfterHeader, Live
<1>2. Held = [o \in Openers |-> NoKey]
  BY DEF Init, Held, Live
<1>. QED  BY <1>1, <1>2, InitIInv DEF Init, StoreInv, Store!Init, Content

LEMMA NextRefines == StoreInv /\ [Next]_vars => StoreInv' /\ [Store!Next]_(Store!vars)
<1> SUFFICES ASSUME StoreInv, [Next]_vars PROVE StoreInv' /\ [Store!Next]_(Store!vars)
  OBVIOUS
<1>1. IInv'
  BY NextIInv DEF StoreInv
<1>2. ASSUME NEW o \in Openers, Step(o) PROVE Refined
  BY <1>1, <1>2, ReadingRefines, OpeningRefines, WriteHeaderRefines, AcceptRefines,
     FinishRefines, SweepRefines DEF Step
<1>3. ASSUME UNCHANGED vars PROVE Refined
  BY <1>1, <1>3, Unseen DEF vars, disk, call
<1>4. Refined
  BY <1>1, <1>2, <1>3, BeginRefines, FaultRefines, LiveRefines, WorldRefines DEF Next
<1>. QED  BY <1>1, <1>4 DEF Refined, StoreInv

\* The open of a store, entry by entry, implements what it promises its
\* callers: one key for good, taken back only before anybody was given it,
\* given only whole and to its key (open_inner_impl).
THEOREM OpenImplementsStore == Spec => RefinesStore
<1>. QED  BY InitRefines, NextRefines, PTL DEF Spec, Store!Spec, RefinesStore
=============================================================================

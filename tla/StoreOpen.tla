----------------------------- MODULE StoreOpen -----------------------------
(***************************************************************************)
(* SqlCipherMailboxStore::open: how an account's encrypted database is     *)
(* created, recovered and refused (adapters/store-sqlcipher/src/lib.rs).   *)
(*                                                                         *)
(* The database is four directory entries, main, -journal, -wal and -shm,  *)
(* and up to SlotCount recovery stages beside them. Every change of a      *)
(* directory entry or of what a file holds is one step, so a crash may     *)
(* come between any two. Calls that find the store absent or unfinished    *)
(* run one at a time (the installation lock and its allocation mutex);     *)
(* once a store was accepted, calls and live connections overlap.          *)
(*                                                                         *)
(* A key stands for the caller's key and account together. Identities of   *)
(* entries are left out: nothing outside the program replaces a file while *)
(* a call runs. Of SQLite only what it does to the entries is modelled.    *)
(***************************************************************************)
EXTENDS Naturals, FiniteSets

CONSTANTS
    Openers,      \* callers of open
    Keys,         \* the keys they come with
    NoKey,        \* the key of a main file without pages
    Free, Left,   \* a recovery stage that is not there, or was left behind
    SlotCount,    \* RECOVERY_STAGE_LIMIT
    OddModes,     \* whether the umask may leave a new entry without its mode
    MaxCrashes,   \* bound: process crashes
    MaxFaults,    \* bound: failing system calls and SQLite operations
    MaxLosses     \* bound: sidecars lost while nobody has the store open

ASSUME StoreAssumption ==
    /\ NoKey \notin Keys
    /\ Openers \cap {Free, Left} = {}
    /\ Free # Left
    /\ SlotCount \in Nat
    /\ OddModes \in BOOLEAN
    /\ MaxCrashes \in Nat
    /\ MaxFaults \in Nat
    /\ MaxLosses \in Nat

Leaf == {"main", "journal", "wal", "shm"}
Slots == 1..SlotCount

\* What the main file holds: no byte, the page that switches it to WAL mode,
\* a checkpoint cut short, the canonical schema. What the WAL adds to it.
Pages == {"none", "header", "torn", "schema"}
Logs == {"none", "schema"}

Staging == {"copyMain", "copyWal", "validate", "unstage"}
Opening == {"open", "journal", "header", "wal", "shm", "normalize", "migrate",
            "accept", "finish"}
Calling == {"preflight", "stage", "claim", "own", "cleanup"} \cup Staging \cup Opening
Live == {"ready", "checkpoint"}
Positions == {"idle"} \cup Calling \cup Live

Preflights == {"none", "Stable", "MainWithoutSidecars", "WalWithoutShm",
               "FreshWal", "FreshWalWithoutShm"}
Results == {"none", "Ready", "Corrupted", "Storage"}
NoCopy == [pages |-> "none", log |-> "none"]
Excuses == {"key", "journal", "mode", "slots", "torn", "fault", "other"}

VARIABLES
    leaves,    \* the entries that exist
    odd,       \* those whose mode is not 0600
    pages,     \* what the main file holds
    log,       \* what the WAL holds
    pageKey,   \* the key the pages are encrypted under
    stages,    \* the recovery stages: not there, left, or a call's
    pc,        \* where each call is
    key,       \* the key of each call
    snap,      \* LeafGuard.snapshot: the entries found at the start
    pre,       \* what the preflight found
    copy,      \* the private copy: its main file and its WAL
    fresh,     \* the schema was empty when the connection first read it
    owner,     \* LeafGuard.fresh_main: this call created the main file
    migrated,  \* LeafGuard.fresh_migration_succeeded
    sweep,     \* entries the cleanup has still to look at
    result,    \* how each call ended, or will once it has cleaned up
    accepted,  \* history: some call was given this store, or finished it
    excuse,    \* history: what may have kept the call from succeeding
    crashes, faults, losses

disk == <<leaves, odd, pages, log, pageKey>>
budget == <<crashes, faults, losses>>
call == <<key, snap, pre, copy, fresh, owner, migrated>>
vars == <<disk, stages, pc, call, sweep, result, accepted, excuse, budget>>

\* The types; and a call cleans up as long as it has entries to look at.
TypeOK ==
    /\ leaves \in SUBSET Leaf
    /\ odd \in SUBSET Leaf
    /\ pages \in Pages
    /\ log \in Logs
    /\ pageKey \in Keys \cup {NoKey}
    /\ stages \in [Slots -> Openers \cup {Free, Left}]
    /\ pc \in [Openers -> Positions]
    /\ key \in [Openers -> Keys \cup {NoKey}]
    /\ snap \in [Openers -> SUBSET Leaf]
    /\ pre \in [Openers -> Preflights]
    /\ copy \in [Openers -> [pages : Pages, log : Logs]]
    /\ fresh \in [Openers -> BOOLEAN]
    /\ owner \in [Openers -> BOOLEAN]
    /\ migrated \in [Openers -> BOOLEAN]
    /\ sweep \in [Openers -> SUBSET Leaf]
    /\ \A o \in Openers : pc[o] = "cleanup" <=> sweep[o] # {}
    /\ result \in [Openers -> Results]
    /\ accepted \in BOOLEAN
    /\ excuse \in [Openers -> SUBSET Excuses]
    /\ crashes \in 0..MaxCrashes
    /\ faults \in 0..MaxFaults
    /\ losses \in 0..MaxLosses

Init ==
    /\ leaves = {} /\ odd = {}
    /\ pages = "none" /\ log = "none" /\ pageKey = NoKey
    /\ stages = [s \in Slots |-> Free]
    /\ pc = [o \in Openers |-> "idle"]
    /\ key = [o \in Openers |-> NoKey]
    /\ snap = [o \in Openers |-> {}]
    /\ pre = [o \in Openers |-> "none"]
    /\ copy = [o \in Openers |-> NoCopy]
    /\ fresh = [o \in Openers |-> FALSE]
    /\ owner = [o \in Openers |-> FALSE]
    /\ migrated = [o \in Openers |-> FALSE]
    /\ sweep = [o \in Openers |-> {}]
    /\ result = [o \in Openers |-> "none"]
    /\ accepted = FALSE
    /\ excuse = [o \in Openers |-> {}]
    /\ crashes = 0 /\ faults = 0 /\ losses = 0

-----------------------------------------------------------------------------
(* What a call reads off the disk.                                          *)

\* An empty main file takes any key.
KeyFits(o) == pages = "none" \/ pageKey = key[o]

\* No schema yet, in the main file nor in the WAL (validate_identity).
Unclaimed(p, l) == p \notin {"torn", "schema"} /\ l # "schema"

\* A checkpoint cut short is mended by the WAL, and only by it.
Sound(p, l) == p = "torn" => l = "schema"

Existing(o) == "main" \in snap[o]

\* require_snapshot_unchanged: the entries are those of the snapshot, whose
\* modes were exact.
Unchanged(o) == leaves = snap[o] /\ odd \cap {"main", "wal", "shm"} = {}

NeedsStage(entries) == "wal" \in entries /\ "shm" \notin entries

FreeSlots == {s \in Slots : stages[s] = Free}

\* (mutant of PermitsNewSidecars: a WAL that lost its index is forgotten)
PermitsOnlyAPair(o) == pre[o] = "MainWithoutSidecars"

PermitsNewSidecars(o) ==
    pre[o] \in {"MainWithoutSidecars", "WalWithoutShm", "FreshWalWithoutShm"}

\* require_existing_writer_state.
WriterState(o) ==
    /\ odd \cap {"main", "wal", "shm"} = {}
    /\ leaves \cap {"main", "journal"} = snap[o] \cap {"main", "journal"}
    /\ CASE pre[o] \in {"Stable", "FreshWal"} -> leaves = snap[o]
         [] OTHER -> {"wal", "shm"} \subseteq leaves

\* SQLite makes an entry with the mode of the main file, less the umask, if
\* the entry is not there yet.
Create(l) ==
    /\ leaves' = leaves \cup {l}
    /\ \E bad \in {FALSE, OddModes} :
           odd' = IF bad /\ l \notin leaves THEN odd \cup {l} ELSE odd

-----------------------------------------------------------------------------
(* How a call moves on, and how it ends.                                    *)

Goto(o, p) == pc' = [pc EXCEPT ![o] = p]
End(o, r) == Goto(o, "idle") /\ result' = [result EXCEPT ![o] = r]

\* (mutant of Authority: the migration does not end it)
AuthorityForGood(o) == owner[o]

\* Only a call that created the main file, and did not finish it, may remove
\* anything (cleanup_fresh_candidates).
Authority(o) == owner[o] /\ ~migrated[o]

\* The connection is dropped; then the call cleans up, if it may.
Fail(o, r) ==
    /\ result' = [result EXCEPT ![o] = r]
    /\ Goto(o, IF Authority(o) THEN "cleanup" ELSE "idle")
    /\ sweep' = [sweep EXCEPT ![o] = IF Authority(o) THEN Leaf ELSE {}]

-----------------------------------------------------------------------------
(* The snapshot.                                                            *)

\* What speaks against a call from its start.
Reasons(o, k) == {e \in Excuses :
    \/ e = "key" /\ pages # "none" /\ pageKey # k
    \/ e = "journal" /\ "journal" \in leaves
    \/ e = "mode" /\ odd # {}
    \/ e = "slots" /\ NeedsStage(leaves) /\ FreeSlots = {}
    \/ e = "other" /\ \E p \in Openers \ {o} : pc[p] \in Calling}

\* What LeafGuard::open makes of the entries it finds.
Admission ==
    CASE odd \cap {"main", "wal", "shm"} # {} -> "Storage"
      [] OTHER -> IF "main" \notin leaves /\ leaves # {} THEN "Corrupted" ELSE "none"

Begin(o, k) ==
    /\ pc[o] = "idle"
    /\ accepted \/ \A p \in Openers : pc[p] = "idle"
    /\ key' = [key EXCEPT ![o] = k]
    /\ snap' = [snap EXCEPT ![o] = leaves]
    /\ pre' = [pre EXCEPT ![o] = "none"]
    /\ fresh' = [fresh EXCEPT ![o] = FALSE]
    /\ owner' = [owner EXCEPT ![o] = FALSE]
    /\ migrated' = [migrated EXCEPT ![o] = FALSE]
    /\ result' = [result EXCEPT ![o] = Admission]
    /\ Goto(o, CASE Admission # "none" -> "idle"
                 [] OTHER -> IF "main" \in leaves THEN "preflight" ELSE "claim")
    /\ excuse' = [p \in Openers |->
            CASE p = o -> Reasons(o, k)
              [] OTHER -> IF pc[p] \in Calling THEN excuse[p] \cup {"other"} ELSE excuse[p]]
    /\ UNCHANGED <<disk, stages, copy, sweep, accepted, budget>>

-----------------------------------------------------------------------------
(* An existing main file: preflight_existing.                               *)

\* A rollback journal, or an index without its WAL.
RefuseShape(o) ==
    /\ pc[o] = "preflight"
    /\ "journal" \in snap[o] \/ ("shm" \in snap[o] /\ "wal" \notin snap[o])
    /\ End(o, "Corrupted")
    /\ UNCHANGED <<disk, stages, call, sweep, accepted, excuse, budget>>

InPlace(o) == pc[o] = "preflight" /\ "journal" \notin snap[o]
              /\ ("wal" \in snap[o] <=> "shm" \in snap[o])

\* The main file is read as it is, without its WAL (immutable=1), then the
\* pair through SQLite.
Inspect(o) ==
    /\ InPlace(o)
    /\ pages # "torn" /\ KeyFits(o)
    /\ pre' = [pre EXCEPT ![o] =
            CASE "wal" \notin snap[o] -> "MainWithoutSidecars"
              [] OTHER -> IF Unclaimed(pages, log) THEN "FreshWal" ELSE "Stable"]
    /\ IF Unchanged(o) THEN Goto(o, "open") /\ UNCHANGED result
                       ELSE End(o, "Storage")
    /\ UNCHANGED <<disk, stages, key, snap, copy, fresh, owner, migrated, sweep,
                   accepted, excuse, budget>>

\* A wrong key, or a main file that makes no sense without the WAL.
InspectFails(o) ==
    /\ InPlace(o)
    /\ pages = "torn" \/ ~KeyFits(o)
    /\ End(o, "Corrupted")
    /\ excuse' = [excuse EXCEPT ![o] = @ \cup IF pages = "torn" THEN {"torn"} ELSE {}]
    /\ UNCHANGED <<disk, stages, call, sweep, accepted, budget>>

\* (mutant of NeedStage: the store is opened without the private copy)
NeedNoStage(o) ==
    /\ pc[o] = "preflight"
    /\ "journal" \notin snap[o] /\ NeedsStage(snap[o])
    /\ Goto(o, "open")
    /\ pre' = [pre EXCEPT ![o] = "WalWithoutShm"]
    /\ UNCHANGED <<disk, stages, key, snap, copy, fresh, owner, migrated, sweep,
                   result, accepted, excuse, budget>>

\* SQLite reads no WAL without its index: a private copy is validated.
NeedStage(o) ==
    /\ pc[o] = "preflight"
    /\ "journal" \notin snap[o] /\ NeedsStage(snap[o])
    /\ Goto(o, "stage")
    /\ UNCHANGED <<disk, stages, call, sweep, result, accepted, excuse, budget>>

-----------------------------------------------------------------------------
(* The private copy: validate_wal_without_shm_from_private_copy.            *)

\* The first free name; what is there is never adopted.
CreateStage(o) ==
    /\ pc[o] = "stage"
    /\ \E s \in FreeSlots :
           /\ \A t \in FreeSlots : s <= t
           /\ stages' = [stages EXCEPT ![s] = o]
    /\ Goto(o, "copyMain")
    /\ UNCHANGED <<disk, call, sweep, result, accepted, excuse, budget>>

NoStage(o) ==
    /\ pc[o] = "stage"
    /\ FreeSlots = {}
    /\ End(o, "Storage")
    /\ UNCHANGED <<disk, stages, call, sweep, accepted, excuse, budget>>

CopyMain(o) ==
    /\ pc[o] = "copyMain"
    /\ copy' = [copy EXCEPT ![o].pages = pages]
    /\ Goto(o, "copyWal")
    /\ UNCHANGED <<disk, stages, key, snap, pre, fresh, owner, migrated, sweep,
                   result, accepted, excuse, budget>>

\* (mutant of CopyWal: the copy is validated whatever happened to the pair)
CopyWalUnchecked(o) ==
    /\ pc[o] = "copyWal"
    /\ copy' = [copy EXCEPT ![o].log = log]
    /\ Goto(o, "validate") /\ UNCHANGED result
    /\ UNCHANGED <<disk, stages, key, snap, pre, fresh, owner, migrated, sweep,
                   accepted, excuse, budget>>

\* (mutant of CopyWal: a pair that is no longer alone ends the call on the spot)
CopyWalAbandons(o) ==
    /\ pc[o] = "copyWal"
    /\ copy' = [copy EXCEPT ![o].log = log]
    /\ IF Unchanged(o) THEN Goto(o, "validate") /\ UNCHANGED result
                       ELSE End(o, "Storage")
    /\ UNCHANGED <<disk, stages, key, snap, pre, fresh, owner, migrated, sweep,
                   accepted, excuse, budget>>

\* The pair must still be alone once both are copied.
CopyWal(o) ==
    /\ pc[o] = "copyWal"
    /\ copy' = [copy EXCEPT ![o].log = log]
    /\ IF Unchanged(o)
       THEN Goto(o, "validate") /\ UNCHANGED result
       ELSE Goto(o, "unstage") /\ result' = [result EXCEPT ![o] = "Storage"]
    /\ UNCHANGED <<disk, stages, key, snap, pre, fresh, owner, migrated, sweep,
                   accepted, excuse, budget>>

Verdict(o) ==
    CASE ~KeyFits(o) \/ ~Sound(copy[o].pages, copy[o].log) -> "Corrupted"
      [] OTHER -> IF Unchanged(o) THEN "none" ELSE "Storage"

Validate(o) ==
    /\ pc[o] = "validate"
    /\ result' = [result EXCEPT ![o] = Verdict(o)]
    /\ pre' = [pre EXCEPT ![o] = IF Unclaimed(copy[o].pages, copy[o].log)
                                 THEN "FreshWalWithoutShm" ELSE "WalWithoutShm"]
    /\ Goto(o, "unstage")
    /\ UNCHANGED <<disk, stages, key, snap, copy, fresh, owner, migrated, sweep,
                   accepted, excuse, budget>>

\* Whatever came out, the call's own stage goes.
Unstage(o) ==
    /\ pc[o] = "unstage"
    /\ stages' = [s \in Slots |-> IF stages[s] = o THEN Free ELSE stages[s]]
    /\ CASE result[o] # "none" -> Goto(o, "idle") /\ UNCHANGED result
         [] OTHER -> IF Unchanged(o) THEN Goto(o, "open") /\ UNCHANGED result
                                     ELSE End(o, "Storage")
    /\ copy' = [copy EXCEPT ![o] = NoCopy]
    /\ UNCHANGED <<disk, key, snap, pre, fresh, owner, migrated, sweep, accepted,
                   excuse, budget>>

-----------------------------------------------------------------------------
(* A new main file: claim_fresh_main.                                       *)

\* O_EXCL: the call makes the entry or fails.
Claim(o) ==
    /\ pc[o] = "claim"
    /\ "main" \notin leaves
    /\ Create("main")
    /\ Goto(o, "own")
    /\ UNCHANGED <<pages, log, pageKey, stages, call, sweep, result, accepted,
                   excuse, budget>>

\* With its mode made exact, the entry is the call's to remove.
Own(o) ==
    /\ pc[o] = "own"
    /\ odd' = odd \ {"main"}
    /\ owner' = [owner EXCEPT ![o] = TRUE]
    /\ Goto(o, "open")
    /\ UNCHANGED <<leaves, pages, log, pageKey, stages, key, snap, pre, copy, fresh,
                   migrated, sweep, result, accepted, excuse, budget>>

-----------------------------------------------------------------------------
(* The connection.                                                          *)

\* The entries changed since the preflight.
OpenMoved(o) ==
    /\ pc[o] = "open"
    /\ Existing(o) /\ ~Unchanged(o)
    /\ Fail(o, "Storage")
    /\ UNCHANGED <<disk, stages, call, accepted, excuse, budget>>

\* The first read of a connection that may write builds a missing index
\* before it finds out about the key.
Open(o) ==
    /\ pc[o] = "open"
    /\ Existing(o) => Unchanged(o)
    /\ fresh' = [fresh EXCEPT ![o] = Unclaimed(pages, log)]
    /\ IF pages # "none" /\ NeedsStage(leaves) THEN Create("shm") ELSE UNCHANGED <<leaves, odd>>
    /\ IF KeyFits(o)
       THEN Goto(o, IF pages = "none" THEN "journal" ELSE "wal") /\ UNCHANGED <<result, sweep>>
       ELSE Fail(o, "Corrupted")
    /\ UNCHANGED <<pages, log, pageKey, stages, key, snap, pre, copy, owner, migrated,
                   accepted, excuse, budget>>

\* journal_mode = WAL on an empty file is a transaction of its own.
StartJournal(o) ==
    /\ pc[o] = "journal"
    /\ Create("journal")
    /\ Goto(o, "header")
    /\ UNCHANGED <<pages, log, pageKey, stages, call, sweep, result, accepted,
                   excuse, budget>>

WriteHeader(o) ==
    /\ pc[o] = "header"
    /\ pages' = "header" /\ pageKey' = key[o]
    /\ leaves' = leaves \ {"journal"} /\ odd' = odd \ {"journal"}
    /\ Goto(o, "wal")
    /\ UNCHANGED <<log, stages, call, sweep, result, accepted, excuse, budget>>

CreateWal(o) ==
    /\ pc[o] = "wal"
    /\ Create("wal")
    /\ Goto(o, "shm")
    /\ UNCHANGED <<pages, log, pageKey, stages, call, sweep, result, accepted,
                   excuse, budget>>

CreateShm(o) ==
    /\ pc[o] = "shm"
    /\ Create("shm")
    /\ Goto(o, "normalize")
    /\ UNCHANGED <<pages, log, pageKey, stages, call, sweep, result, accepted,
                   excuse, budget>>

\* (mutant of Normalized: the call that made the store is forgotten)
NormalizedLater(o) == IF PermitsNewSidecars(o) THEN odd \cap snap[o] ELSE odd

\* Entries the call found keep the mode they have.
Normalized(o) == IF fresh[o] \/ PermitsNewSidecars(o) THEN odd \cap snap[o] ELSE odd

Normalize(o) ==
    /\ pc[o] = "normalize"
    /\ odd' = Normalized(o)
    /\ Goto(o, IF fresh[o] THEN "migrate" ELSE "finish")
    /\ UNCHANGED <<leaves, pages, log, pageKey, stages, call, sweep, result,
                   accepted, excuse, budget>>

\* One transaction, in the WAL.
Migrate(o) ==
    /\ pc[o] = "migrate"
    /\ log' = "schema"
    /\ Goto(o, "accept")
    /\ UNCHANGED <<leaves, odd, pages, pageKey, stages, call, sweep, result,
                   accepted, excuse, budget>>

\* The entries are normalised once more; then the store is there to stay.
Accept(o) ==
    /\ pc[o] = "accept"
    /\ odd' = Normalized(o)
    /\ migrated' = [migrated EXCEPT ![o] = TRUE]
    /\ accepted' = TRUE
    /\ Goto(o, "finish")
    /\ UNCHANGED <<leaves, pages, log, pageKey, stages, key, snap, pre, copy, fresh,
                   owner, sweep, result, excuse, budget>>

\* An existing store must have the entries its preflight allows for.
Finish(o) ==
    /\ pc[o] = "finish"
    /\ IF Existing(o) /\ ~WriterState(o)
       THEN Fail(o, "Storage") /\ UNCHANGED accepted
       ELSE /\ Goto(o, "ready")
            /\ result' = [result EXCEPT ![o] = "Ready"]
            /\ accepted' = TRUE
            /\ UNCHANGED sweep
    /\ UNCHANGED <<disk, stages, call, excuse, budget>>

-----------------------------------------------------------------------------
(* Cleanup after a failed first call.                                       *)

Rank == [shm |-> 1, wal |-> 2, journal |-> 3, main |-> 4]

First(o, l) == l \in sweep[o] /\ \A k \in sweep[o] : Rank[l] <= Rank[k]

\* An entry whose mode is not exact stops the cleanup.
Sweep(o) ==
    /\ pc[o] = "cleanup"
    /\ \E l \in Leaf :
           /\ First(o, l)
           /\ IF "main" \in leaves /\ l \notin odd
              THEN /\ leaves' = leaves \ {l}
                   /\ log' = IF l = "wal" THEN "none" ELSE log
                   /\ pages' = IF l = "main" THEN "none" ELSE pages
                   /\ pageKey' = IF l = "main" THEN NoKey ELSE pageKey
                   /\ sweep' = [sweep EXCEPT ![o] = @ \ {l}]
              ELSE /\ sweep' = [sweep EXCEPT ![o] = {}]
                   /\ UNCHANGED <<leaves, log, pages, pageKey>>
    /\ Goto(o, IF sweep'[o] = {} THEN "idle" ELSE "cleanup")
    /\ UNCHANGED <<odd, stages, call, result, accepted, excuse, budget>>

-----------------------------------------------------------------------------
(* What goes wrong.                                                         *)

Faulty(o) ==
    /\ faults < MaxFaults
    /\ faults' = faults + 1
    /\ excuse' = [excuse EXCEPT ![o] = @ \cup {"fault"}]

\* Before the call owns anything. An entry it just made stays.
FaultEarly(o) ==
    /\ pc[o] \in {"preflight", "claim", "own"}
    /\ Faulty(o)
    /\ End(o, "Storage")
    /\ UNCHANGED <<disk, stages, call, sweep, accepted, crashes, losses>>

\* A stage is made but cannot be used; it is removed, or that fails too.
FaultInStage(o) ==
    /\ pc[o] = "stage"
    /\ Faulty(o)
    /\ End(o, "Storage")
    /\ \/ UNCHANGED stages
       \/ \E s \in FreeSlots : /\ \A t \in FreeSlots : s <= t
                               /\ stages' = [stages EXCEPT ![s] = Left]
    /\ UNCHANGED <<disk, call, sweep, accepted, crashes, losses>>

FaultInCopy(o) ==
    /\ pc[o] \in {"copyMain", "copyWal", "validate"}
    /\ Faulty(o)
    /\ Goto(o, "unstage")
    /\ result' = [result EXCEPT ![o] = "Storage"]
    /\ UNCHANGED <<disk, stages, call, sweep, accepted, crashes, losses>>

\* The stage stays; an earlier verdict is kept (finish_recovery_validation).
FaultInUnstage(o) ==
    /\ pc[o] = "unstage"
    /\ Faulty(o)
    /\ stages' = [s \in Slots |-> IF stages[s] = o THEN Left ELSE stages[s]]
    /\ End(o, IF result[o] = "none" THEN "Storage" ELSE result[o])
    /\ copy' = [copy EXCEPT ![o] = NoCopy]
    /\ UNCHANGED <<disk, key, snap, pre, fresh, owner, migrated, sweep, accepted,
                   crashes, losses>>

\* SQLite may or may not manage to take its journal back.
FaultInOpen(o) ==
    /\ pc[o] \in Opening
    /\ Faulty(o)
    /\ Fail(o, "Storage")
    /\ \E gone \in SUBSET {"journal"} : leaves' = leaves \ gone /\ odd' = odd \ gone
    /\ UNCHANGED <<pages, log, pageKey, stages, call, accepted, crashes, losses>>

FaultInCleanup(o) ==
    /\ pc[o] = "cleanup"
    /\ Faulty(o)
    /\ Goto(o, "idle")
    /\ sweep' = [sweep EXCEPT ![o] = {}]
    /\ UNCHANGED <<disk, stages, call, result, accepted, crashes, losses>>

Fault(o) ==
    \/ FaultEarly(o) \/ FaultInStage(o) \/ FaultInCopy(o)
    \/ FaultInUnstage(o) \/ FaultInOpen(o) \/ FaultInCleanup(o)

\* The process is gone: every call and connection ends, the files stay.
Crash ==
    /\ crashes < MaxCrashes
    /\ \E o \in Openers : pc[o] # "idle"
    /\ crashes' = crashes + 1
    /\ pc' = [o \in Openers |-> "idle"]
    /\ result' = [o \in Openers |-> "none"]
    /\ sweep' = [o \in Openers |-> {}]
    /\ copy' = [o \in Openers |-> NoCopy]
    /\ stages' = [s \in Slots |-> IF stages[s] \in Openers THEN Left ELSE stages[s]]
    /\ UNCHANGED <<disk, key, snap, pre, fresh, owner, migrated, accepted, excuse,
                   faults, losses>>

Lose(lost) ==
    /\ losses < MaxLosses
    /\ losses' = losses + 1
    /\ \A o \in Openers : pc[o] = "idle"
    /\ lost \subseteq leaves
    /\ leaves' = leaves \ lost
    /\ odd' = odd \ lost
    /\ UNCHANGED <<pages, log, pageKey, stages, pc, call, sweep, result, accepted,
                   excuse, crashes, faults>>

\* The index is lost, or the pair is once all of it is in the main file.
LoseShm == Lose({"shm"})
LosePair == pages = "schema" /\ log = "none" /\ Lose({"wal", "shm"})

-----------------------------------------------------------------------------
(* A live store.                                                            *)

Write(o) ==
    /\ pc[o] = "ready"
    /\ log' = "schema"
    /\ UNCHANGED <<leaves, odd, pages, pageKey, stages, pc, call, sweep, result,
                   accepted, excuse, budget>>

\* A commit that fills the WAL copies it into the main file, page by page.
StartCheckpoint(o) ==
    /\ pc[o] = "ready"
    /\ log = "schema"
    /\ \A p \in Openers : pc[p] # "checkpoint"
    /\ pages' = "torn"
    /\ Goto(o, "checkpoint")
    /\ UNCHANGED <<leaves, odd, log, pageKey, stages, call, sweep, result, accepted,
                   excuse, budget>>

EndCheckpoint(o) ==
    /\ pc[o] = "checkpoint"
    /\ pages' = "schema" /\ log' = "none"
    /\ Goto(o, "ready")
    /\ UNCHANGED <<leaves, odd, pageKey, stages, call, sweep, result, accepted,
                   excuse, budget>>

\* Closing neither checkpoints nor removes the pair.
Close(o) ==
    /\ pc[o] = "ready"
    /\ Goto(o, "idle")
    /\ UNCHANGED <<disk, stages, call, sweep, result, accepted, excuse, budget>>

-----------------------------------------------------------------------------
Step(o) ==
    \/ RefuseShape(o) \/ Inspect(o) \/ InspectFails(o) \/ NeedStage(o)
    \/ CreateStage(o) \/ NoStage(o) \/ CopyMain(o) \/ CopyWal(o) \/ Validate(o)
    \/ Unstage(o)
    \/ Claim(o) \/ Own(o)
    \/ OpenMoved(o) \/ Open(o) \/ StartJournal(o) \/ WriteHeader(o) \/ CreateWal(o)
    \/ CreateShm(o) \/ Normalize(o) \/ Migrate(o) \/ Accept(o) \/ Finish(o)
    \/ Sweep(o)

Next ==
    \/ \E o \in Openers, k \in Keys : Begin(o, k)
    \/ \E o \in Openers : Step(o) \/ Fault(o)
    \/ \E o \in Openers : Write(o) \/ StartCheckpoint(o) \/ EndCheckpoint(o) \/ Close(o)
    \/ Crash \/ LoseShm \/ LosePair

Spec == Init /\ [][Next]_vars

-----------------------------------------------------------------------------
(* Properties.                                                              *)

\* Whatever crashes, fails or is cleaned up in between, no sidecar is ever
\* left without the main file, nor an index without its WAL: both are states
\* every later open refuses.
NoOrphans ==
    /\ leaves # {} => "main" \in leaves
    /\ "shm" \in leaves => "wal" \in leaves

\* A store that was accepted once is never removed, emptied or migrated
\* again: its schema is in the main file, or in a WAL that is still there.
AcceptedKept ==
    accepted =>
        /\ "main" \in leaves
        /\ \/ pages = "schema"
           \/ log = "schema" /\ "wal" \in leaves

\* The store as its callers see it: nobody was given one yet, or it is there
\* with its schema.
Content ==
    CASE accepted -> IF AcceptedKept THEN "kept" ELSE "lost"
      [] OTHER -> IF pages = "none" THEN "absent" ELSE "unfinished"

Held == [o \in Openers |-> IF pc[o] \in Live THEN key[o] ELSE NoKey]

Store == INSTANCE AccountStore WITH
    content <- Content,
    storeKey <- pageKey,
    held <- Held

\* Whatever is interrupted, fails or overlaps: a store is made under one key,
\* taken back only while nobody was given it, given only to calls with its
\* key and only when it is whole, and stays under that key from then on.
RefinesStore == Store!Spec

\* A call returns only after it gave its recovery stage back, and no call
\* holds two: only a crash or a failing system call leaves one behind.
StagesHeld ==
    \A s \in Slots : stages[s] \in Openers =>
        /\ pc[stages[s]] \in Staging
        /\ \A t \in Slots : stages[t] = stages[s] => t = s

\* A store handed out has every entry at mode 0600, whatever the umask did.
ReadyIsPrivate ==
    \A o \in Openers : pc[o] \in Live => odd \cap {"main", "wal", "shm"} = {}

\* What a crash, a failed call or a lost index leaves can be opened again:
\* a call fails only for a reason outside of it (a key that is not the
\* store's, a rollback journal, a mode no call put right, a checkpoint cut
\* short, no free stage, a failing system call, another call).
Reopens ==
    \A o \in Openers : pc[o] = "idle" /\ result[o] \in {"Corrupted", "Storage"} => excuse[o] # {}

\* A call reports corruption only for a key that is not the store's, a
\* rollback journal, or a main file read in the middle of a checkpoint:
\* never for a copy torn by another call, nor for a store half created.
CorruptedMeansDamage ==
    \A o \in Openers : result[o] = "Corrupted" => excuse[o] \cap {"key", "journal", "torn"} # {}

\* A call with a key that is not the store's changes nothing of it, not even
\* a missing index: the preflight tells before SQLite may write.
ForeignUntouched ==
    [][\A o \in Openers :
          pc[o] \in Calling /\ pc'[o] # pc[o] /\ "key" \in excuse[o]
              => UNCHANGED disk]_vars
=============================================================================

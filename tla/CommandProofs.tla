---------------------------- MODULE CommandProofs ----------------------------
(***************************************************************************)
(* Proofs about a command of the program. Of RootKeyVault, for any number  *)
(* of commands, directories, keys and passphrases: type correctness and    *)
(* that no key is made over data that needs another; for one data          *)
(* directory, that what is encrypted can be decrypted; and that no two     *)
(* derived keys are ever the same. Of TerminalApp and MessageDisplay, for  *)
(* any words, accounts and mail: that a command works on what it names,    *)
(* that its success is whole, that a client is refused first, what is on   *)
(* the lines of a listing; and the dates of every day there will be.       *)
(***************************************************************************)
EXTENDS RootKeyVault, TerminalApp,
        FiniteSetTheorems, WellFoundedInduction, SequenceTheorems, TLAPS

\* The places of a command that has its slot; that makes a key; that has one.
Making == {"create", "write", "rename", "readBack"}
Holding == {"write", "rename", "readBack", "open", "registry", "ready"}

\* What a command knows of the slot it uses and of the data in its directory.
Local(p) ==
    /\ pc[p] \notin {"idle", "vault"} => kind[p] \in SlotKind
    /\ pc[p] = "rename" => kind[p] = "File"
    /\ pc[p] \in Making => registry[dir[p]] = Nothing
    /\ pc[p] \in Holding => root[p] \in RootKeys

\* Key files are whole.
WholeFiles ==
    /\ \A d \in Dirs : file[d] \in Contents \cup {Nothing}
    /\ NeverMalformed

\* With one directory, nobody else writes the slot meanwhile: it is empty
\* until the key is in it, and then it keeps the key the command has.
SlotLocal(p) ==
    /\ pc[p] \in {"write", "rename"} => Slot(p) = Nothing
    /\ pc[p] \in {"open", "registry", "ready"} =>
         Slot(p) \in Contents /\ Slot(p).key = root[p]

OneDirectory == \A d, e \in Dirs : d = e

IInv ==
    /\ TypeOK /\ WholeFiles
    /\ \A p \in Procs : Local(p)
    /\ OneDirectory => DataStaysReadable /\ \A p \in Procs : SlotLocal(p)

-----------------------------------------------------------------------------
USE NothingAssumption, NoSchemaAssumption
    DEF Goto, command, slots

\* The locks keep commands apart: two in one directory are one.
LEMMA Apart ==
    ASSUME TypeOK, NEW p \in Procs, NEW q \in Procs, pc[p] # "idle", pc[q] # "idle",
           dir[p] = dir[q]
    PROVE  p = q
  BY DEF TypeOK

\* What leaves the places, the slots, the registries and the lock alone that
\* are not of this command leaves the others' part of the invariant alone.
LEMMA OthersStep ==
    ASSUME TypeOK, TypeOK', NEW p \in Procs, pc[p] # "idle" \/ pc'[p] # "idle",
           pc'[p] # "idle" => dir'[p] = dir[p] \/ pc[p] = "idle",
           \A q \in Procs \ {p} :
              pc'[q] = pc[q] /\ kind'[q] = kind[q] /\ root'[q] = root[q] /\ dir'[q] = dir[q],
           \A d \in Dirs : registry'[d] = registry[d] \/ (pc[p] # "idle" /\ d = dir[p]),
           NEW q \in Procs, q # p, Local(q)
    PROVE  Local(q)'
<1>1. pc'[q] # "idle" => dir[q] \in Dirs /\ registry'[dir[q]] = registry[dir[q]]
  BY Apart DEF TypeOK
<1> QED
  BY <1>1 DEF Local, Making, Holding

LEMMA OthersIdle ==
    ASSUME TypeOK', OneDirectory, NEW p \in Procs, pc'[p] # "idle", NEW q \in Procs, q # p
    PROVE  pc'[q] = "idle"
  BY DEF TypeOK, OneDirectory

\* A command that ends.
LEMMA ExitTypes ==
    ASSUME TypeOK, NEW p \in Procs, pc[p] # "idle", NEW what \in Reports,
           Exit(p, what), UNCHANGED <<slots, reachable, registry, made, drawn>>
    PROVE  TypeOK'
<1> USE DEF Exit
<1>1. "idle" \in Places /\ "Auto" \in BackendChoice
  BY DEF Places, BackendChoice
<1>2. /\ pc' \in [Procs -> Places] /\ dir' \in [Procs -> Dirs \cup {Nothing}]
      /\ kind' \in [Procs -> SlotKind \cup BackendChoice]
      /\ create' \in [Procs -> BOOLEAN]
      /\ said' \in [Procs -> Reports]
  BY <1>1 DEF TypeOK
<1>3. /\ lock' \in [Dirs -> Procs \cup {Nothing}]
      /\ phrase' \in [Procs -> Phrases \cup {Nothing}]
      /\ attempts' \in [Procs -> 0..Attempts]
      /\ root' \in [Procs -> RootKeys \cup {Nothing}]
  BY DEF TypeOK, Attempts
<1>4. \A q \in Procs : pc'[q] # "idle" => dir'[q] \in made' /\ lock'[dir'[q]] = q
  BY DEF TypeOK
<1> QED
  BY <1>2, <1>3, <1>4 DEF TypeOK

LEMMA ExitStep ==
    ASSUME IInv, NEW p \in Procs, pc[p] # "idle", NEW what \in Reports \ {"Malformed"},
           Exit(p, what), UNCHANGED <<slots, reachable, registry, made, drawn>>
    PROVE  IInv'
<1>1. TypeOK'
  BY ExitTypes DEF IInv
<1>2. pc' = [pc EXCEPT ![p] = "idle"]
  BY DEF Exit
<1>3. pc'[p] = "idle" /\ said'[p] = what
  BY DEF Exit, IInv, TypeOK
<1>4. \A q \in Procs \ {p} :
         /\ pc'[q] = pc[q] /\ kind'[q] = kind[q] /\ root'[q] = root[q]
         /\ dir'[q] = dir[q] /\ said'[q] = said[q]
  BY DEF Exit, IInv, TypeOK
<1>5. \A q \in Procs : Local(q)'
  <2>1. Local(p)'
    BY <1>3 DEF Local, Making, Holding
  <2>2. \A q \in Procs \ {p} : Local(q)'
    BY <1>1, <1>3, <1>4, OthersStep DEF IInv
  <2> QED
    BY <2>1, <2>2
<1>6. WholeFiles'
  BY <1>3, <1>4 DEF IInv, WholeFiles, NeverMalformed
<1>7. OneDirectory => DataStaysReadable'
  BY <1>6 DEF IInv, DataStaysReadable, WholeFiles
<1>8. OneDirectory => \A q \in Procs : SlotLocal(q)'
  BY <1>3, <1>4 DEF IInv, SlotLocal, Slot
<1> QED
  BY <1>1, <1>5, <1>6, <1>7, <1>8 DEF IInv

\* A step inside a command keeps the invariant if it keeps the types, the
\* files and what the command itself knows.
LEMMA InsideStep ==
    ASSUME IInv, NEW p \in Procs, pc[p] # "idle", pc'[p] # "idle", dir'[p] = dir[p],
           TypeOK', WholeFiles', Local(p)',
           OneDirectory => DataStaysReadable' /\ SlotLocal(p)',
           \A q \in Procs \ {p} :
              pc'[q] = pc[q] /\ kind'[q] = kind[q] /\ root'[q] = root[q] /\ dir'[q] = dir[q],
           \A d \in Dirs \ {dir[p]} : registry'[d] = registry[d]
    PROVE  IInv'
<1>1. \A q \in Procs \ {p} : Local(q)'
  BY OthersStep DEF IInv
<1>2. OneDirectory => \A q \in Procs \ {p} : SlotLocal(q)'
  BY OthersIdle DEF SlotLocal
<1> QED
  BY <1>1, <1>2 DEF IInv

\* A command that moves on under its lock.
LEMMA MoveTypes ==
    ASSUME TypeOK, NEW p \in Procs, pc[p] # "idle", NEW where \in Places \ {"idle"},
           Goto(p, where), UNCHANGED <<lock, dir, made>>
    PROVE  /\ pc' \in [Procs -> Places] /\ pc'[p] = where
           /\ \A q \in Procs \ {p} : pc'[q] = pc[q]
           /\ \A q \in Procs : pc'[q] # "idle" => dir'[q] \in made' /\ lock'[dir'[q]] = q
  BY DEF TypeOK

LEMMA PlacesFacts ==
    /\ Making \cup Holding \cup UnlockPlan \cup {"idle", "vault", "plan"} \subseteq Places
    /\ VaultError \cup {"done", "failed", "Busy", "NothingYet", "MissingKey", "Corrupted"} \subseteq Reports
    /\ "none" \in Reports
  BY DEF Places, Making, Holding, UnlockPlan, Reports

\* A command that starts finds nobody in its directory.
LEMMA StartStep ==
    ASSUME IInv, NEW p \in Procs, NEW d \in Dirs, NEW backend \in BackendChoice,
           NEW mayCreate \in BOOLEAN, Start(p, d, backend, mayCreate)
    PROVE  IInv'
<1> USE DEF Start, Free
<1>1. TypeOK'
  <2>1. /\ pc' \in [Procs -> Places] /\ dir' \in [Procs -> Dirs \cup {Nothing}]
        /\ kind' \in [Procs -> SlotKind \cup BackendChoice]
        /\ create' \in [Procs -> BOOLEAN] /\ said' \in [Procs -> Reports]
        /\ lock' \in [Dirs -> Procs \cup {Nothing}] /\ made' \subseteq Dirs
    BY PlacesFacts DEF IInv, TypeOK
  <2>2. \A q \in Procs : pc'[q] # "idle" => dir'[q] \in made' /\ lock'[dir'[q]] = q
    BY DEF IInv, TypeOK
  <2> QED
    BY <2>1, <2>2 DEF IInv, TypeOK
<1>2. /\ pc'[p] = "vault" /\ said'[p] = "none"
      /\ \A q \in Procs \ {p} :
           /\ pc'[q] = pc[q] /\ kind'[q] = kind[q] /\ root'[q] = root[q]
           /\ dir'[q] = dir[q] /\ said'[q] = said[q]
  BY DEF IInv, TypeOK
<1>3. \A q \in Procs : Local(q)'
  <2>1. Local(p)'
    BY <1>2 DEF Local, Making, Holding
  <2>2. \A q \in Procs \ {p} : Local(q)'
    BY <1>1, <1>2, OthersStep DEF IInv
  <2> QED
    BY <2>1, <2>2
<1>4. WholeFiles'
  BY <1>2 DEF IInv, WholeFiles, NeverMalformed
<1>5. OneDirectory => DataStaysReadable' /\ \A q \in Procs : SlotLocal(q)'
  BY <1>2, <1>4 DEF IInv, DataStaysReadable, WholeFiles, SlotLocal, Slot
<1> QED
  BY <1>1, <1>3, <1>4, <1>5 DEF IInv

\* One that finds somebody there changes nothing.
LEMMA RefusedStep ==
    ASSUME IInv, NEW p \in Procs, NEW d \in Dirs, Refused(p, d)
    PROVE  IInv'
<1>1. TypeOK'
  BY PlacesFacts DEF Refused, IInv, TypeOK
<1>2. WholeFiles'
  BY DEF Refused, IInv, TypeOK, WholeFiles, NeverMalformed
<1>3. \A q \in Procs : Local(q)'
  BY DEF Refused, IInv, Local
<1>4. OneDirectory => DataStaysReadable' /\ \A q \in Procs : SlotLocal(q)'
  BY <1>2 DEF Refused, IInv, DataStaysReadable, WholeFiles, SlotLocal, Slot
<1> QED
  BY <1>1, <1>2, <1>3, <1>4 DEF IInv

\* The slot is one of the two, and stays that one.
LEMMA OpenVaultStep ==
    ASSUME IInv, NEW p \in Procs, OpenVault(p)
    PROVE  IInv'
<1>1. CASE kind[p] = "Keyring" /\ ~reachable
  BY <1>1, PlacesFacts, ExitStep DEF OpenVault, VaultError
<1>2. CASE ~(kind[p] = "Keyring" /\ ~reachable)
  <2> USE <1>2 DEF OpenVault
  <2>1. /\ Goto(p, "plan") /\ "plan" \in Places
        /\ UNCHANGED <<slots, reachable, registry, made, drawn, lock, dir, root, said>>
        /\ pc[p] # "idle"
    BY PlacesFacts
  <2>2. /\ pc' \in [Procs -> Places] /\ pc'[p] = "plan"
        /\ \A q \in Procs \ {p} : pc'[q] = pc[q]
        /\ \A q \in Procs : pc'[q] # "idle" => dir'[q] \in made' /\ lock'[dir'[q]] = q
    BY <2>1, MoveTypes DEF IInv
  <2>3. /\ kind' \in [Procs -> SlotKind \cup BackendChoice] /\ kind'[p] \in SlotKind
        /\ \A q \in Procs \ {p} : kind'[q] = kind[q]
    BY DEF IInv, TypeOK, SlotKind
  <2>4. TypeOK'
    BY <2>1, <2>2, <2>3 DEF IInv, TypeOK
  <2>5. Local(p)' /\ SlotLocal(p)'
    BY <2>2, <2>3 DEF Local, SlotLocal, Making, Holding
  <2>6. WholeFiles' /\ (OneDirectory => DataStaysReadable')
    BY <2>1 DEF IInv, WholeFiles, NeverMalformed, DataStaysReadable
  <2> QED
    BY <2>1, <2>2, <2>3, <2>4, <2>5, <2>6, InsideStep
<1> QED
  BY <1>1, <1>2

\* No slot holds anything but a whole key.
LEMMA SlotWhole ==
    ASSUME IInv, NEW p \in Procs, pc[p] \notin {"idle", "vault"}
    PROVE  Slot(p) \in Contents \cup {Nothing} /\ State(Slot(p)) # "Malformed"
<1>1. Slot(p) \in Contents \cup {Nothing}
  BY DEF IInv, TypeOK, WholeFiles, Slot
<1> QED
  BY <1>1 DEF State

\* A key is planned only where nothing needs another one.
LEMMA PlanStep ==
    ASSUME IInv, NEW p \in Procs, Plan(p)
    PROVE  IInv'
<1> USE DEF Plan
<1>1. pc[p] = "plan" /\ State(Slot(p)) # "Malformed"
  BY SlotWhole
<1>2. CASE RefusesMissingKey(p) \/ (State(Slot(p)) = "Empty" /\ ~create[p])
  <2>1. PICK what \in {"MissingKey", "NothingYet"} : Exit(p, what)
    BY <1>1, <1>2
  <2> QED
    BY <1>1, <2>1, PlacesFacts, ExitStep
<1>3. CASE ~(RefusesMissingKey(p) \/ (State(Slot(p)) = "Empty" /\ ~create[p]))
  <2>1. /\ Goto(p, PlanFor(State(Slot(p))))
        /\ UNCHANGED <<slots, reachable, registry, made, drawn, lock, command, said>>
    BY <1>1, <1>3
  <2>2. PlanFor(State(Slot(p))) \in UnlockPlan
    <3>1. State(Slot(p)) \in {"Empty", "Unprotected", "PassphraseProtected"}
      BY <1>1 DEF State
    <3> QED
      BY <3>1 DEF PlanFor, UnlockPlan
  <2>3. PlanFor(State(Slot(p))) \in Places \ {"idle"}
    BY <2>2, PlacesFacts DEF UnlockPlan
  <2>4. /\ pc' \in [Procs -> Places] /\ pc'[p] = PlanFor(State(Slot(p)))
        /\ \A q \in Procs \ {p} : pc'[q] = pc[q]
        /\ \A q \in Procs : pc'[q] # "idle" => dir'[q] \in made' /\ lock'[dir'[q]] = q
    BY <1>1, <2>1, <2>3, MoveTypes DEF IInv
  <2>5. TypeOK'
    BY <2>1, <2>4 DEF IInv, TypeOK
  <2>6. pc'[p] = "create" => registry[dir[p]] = Nothing
    <3>1. pc'[p] = "create" => State(Slot(p)) = "Empty"
      BY <1>1, <2>4 DEF PlanFor, State
    <3> QED
      BY <1>3, <3>1 DEF RefusesMissingKey, HasLocalData
  <2>7. Local(p)' /\ SlotLocal(p)'
    BY <1>1, <2>1, <2>2, <2>4, <2>6 DEF IInv, Local, SlotLocal, Making, Holding, UnlockPlan
  <2>8. WholeFiles' /\ (OneDirectory => DataStaysReadable')
    BY <2>1 DEF IInv, WholeFiles, NeverMalformed, DataStaysReadable
  <2> QED
    BY <1>1, <2>1, <2>3, <2>4, <2>5, <2>7, <2>8, InsideStep
<1> QED
  BY <1>2, <1>3

\* A key is drawn for an empty slot.
LEMMA GenerateStep ==
    ASSUME IInv, NEW p \in Procs, NEW k \in RootKeys, NEW word \in Phrases \cup {Nothing},
           Generate(p, k, word)
    PROVE  IInv'
<1> USE DEF Generate
<1>1. CASE ~VacantSlot(p)
  BY <1>1, PlacesFacts, ExitStep DEF VaultError
<1>2. CASE VacantSlot(p)
  <2>1. /\ Goto(p, "write") /\ "write" \in Places
        /\ root' = [root EXCEPT ![p] = k] /\ phrase' = [phrase EXCEPT ![p] = word]
        /\ drawn' = drawn \cup {k} /\ pc[p] = "create"
        /\ UNCHANGED <<slots, reachable, registry, made, lock, dir, kind, create, attempts, said>>
    BY <1>2, PlacesFacts DEF Making
  <2>2. /\ pc' \in [Procs -> Places] /\ pc'[p] = "write"
        /\ \A q \in Procs \ {p} : pc'[q] = pc[q]
        /\ \A q \in Procs : pc'[q] # "idle" => dir'[q] \in made' /\ lock'[dir'[q]] = q
    BY <2>1, MoveTypes DEF IInv
  <2>3. /\ root' \in [Procs -> RootKeys \cup {Nothing}] /\ root'[p] = k
        /\ phrase' \in [Procs -> Phrases \cup {Nothing}]
        /\ \A q \in Procs \ {p} : root'[q] = root[q]
    BY <2>1 DEF IInv, TypeOK
  <2>4. TypeOK'
    BY <2>1, <2>2, <2>3 DEF IInv, TypeOK
  <2>5. Slot(p)' = Nothing
    BY <1>2, <2>1 DEF VacantSlot, State, Slot
  <2>6. Local(p)' /\ SlotLocal(p)'
    BY <2>1, <2>2, <2>3, <2>5 DEF IInv, Local, SlotLocal, Making, Holding
  <2>7. WholeFiles' /\ (OneDirectory => DataStaysReadable')
    BY <2>1 DEF IInv, WholeFiles, NeverMalformed, DataStaysReadable
  <2> QED
    BY <2>1, <2>2, <2>3, <2>4, <2>6, <2>7, InsideStep
<1> QED
  BY <1>1, <1>2

\* The key is written to the slot that was empty, where no data is yet.
LEMMA WriteStep ==
    ASSUME IInv, NEW p \in Procs,
           WriteKeyring(p) \/ WriteTemporary(p) \/ Rename(p)
    PROVE  IInv'
<1>1. /\ pc[p] \in {"write", "rename"} /\ registry[dir[p]] = Nothing
      /\ root[p] \in RootKeys /\ dir[p] \in Dirs
      /\ Encoded(p) \in Contents
  BY DEF WriteKeyring, WriteTemporary, Rename, IInv, TypeOK, Local, Making, Holding,
         Encoded, Contents
<1>2. /\ UNCHANGED <<reachable, registry, made, lock, drawn, command, said>>
      /\ keyring' \in {keyring, Encoded(p)}
      /\ file' \in {file, [file EXCEPT ![dir[p]] = Encoded(p)]}
      /\ temporary' \in [Dirs -> BOOLEAN]
  BY DEF WriteKeyring, WriteTemporary, Rename, IInv, TypeOK
<1>3. PICK where \in {"rename", "readBack"} :
        Goto(p, where) /\ (where = "rename" => kind[p] = "File" /\ UNCHANGED <<keyring, file>>)
  BY DEF WriteKeyring, WriteTemporary, Rename
<1>4. /\ pc' \in [Procs -> Places] /\ pc'[p] = where
      /\ \A q \in Procs \ {p} : pc'[q] = pc[q]
      /\ \A q \in Procs : pc'[q] # "idle" => dir'[q] \in made' /\ lock'[dir'[q]] = q
  <2>1. where \in Places \ {"idle"}
    BY PlacesFacts DEF Making
  <2> QED
    BY <1>1, <1>2, <1>3, <2>1, MoveTypes DEF IInv
<1>5. /\ keyring' \in Contents \cup {Nothing}
      /\ file' \in [Dirs -> Contents \cup {Nothing, Torn}]
      /\ \A d \in Dirs : file'[d] \in Contents \cup {Nothing}
  BY <1>1, <1>2 DEF IInv, TypeOK, WholeFiles
<1>6. TypeOK'
  BY <1>2, <1>4, <1>5 DEF IInv, TypeOK
<1>7. Local(p)' /\ (OneDirectory => SlotLocal(p)')
  BY <1>1, <1>2, <1>3, <1>4 DEF IInv, Local, SlotLocal, Slot, Making, Holding
<1>8. WholeFiles'
  BY <1>2, <1>5 DEF IInv, WholeFiles, NeverMalformed
<1>9. OneDirectory => DataStaysReadable'
  BY <1>1, <1>2, <1>8 DEF WholeFiles, OneDirectory, DataStaysReadable
<1> QED
  BY <1>1, <1>2, <1>4, <1>6, <1>7, <1>8, <1>9, InsideStep

\* The command goes on if the slot gives back what was written.
LEMMA ReadBackStep ==
    ASSUME IInv, NEW p \in Procs, ReadBack(p)
    PROVE  IInv'
<1> USE DEF ReadBack
<1>1. CASE ~Confirms(p)
  BY <1>1, PlacesFacts, ExitStep
<1>2. CASE Confirms(p)
  <2>1. /\ Goto(p, "open") /\ "open" \in Places /\ pc[p] = "readBack"
        /\ UNCHANGED <<slots, reachable, registry, made, drawn, lock, command, said>>
    BY <1>2, PlacesFacts DEF Holding
  <2>2. /\ pc' \in [Procs -> Places] /\ pc'[p] = "open"
        /\ \A q \in Procs \ {p} : pc'[q] = pc[q]
        /\ \A q \in Procs : pc'[q] # "idle" => dir'[q] \in made' /\ lock'[dir'[q]] = q
    BY <2>1, MoveTypes DEF IInv
  <2>3. TypeOK'
    BY <2>1, <2>2 DEF IInv, TypeOK
  <2>4. root[p] \in RootKeys /\ phrase[p] \in Phrases \cup {Nothing}
    BY <2>1 DEF IInv, TypeOK, Local, Holding
  <2>5. Slot(p)' \in Contents /\ Slot(p)'.key = root[p]
    BY <1>2, <2>1, <2>4 DEF Confirms, Encoded, Contents, Slot
  <2>6. Local(p)' /\ SlotLocal(p)'
    BY <2>1, <2>2, <2>4, <2>5 DEF IInv, Local, SlotLocal, Making, Holding
  <2>7. WholeFiles' /\ (OneDirectory => DataStaysReadable')
    BY <2>1 DEF IInv, WholeFiles, NeverMalformed, DataStaysReadable
  <2> QED
    BY <2>1, <2>2, <2>3, <2>6, <2>7, InsideStep
<1> QED
  BY <1>1, <1>2

\* A command that unlocks the slot has the key that is in it.
LEMMA UnlockedStep ==
    ASSUME IInv, NEW p \in Procs, pc[p] \in {"unlockPlain", "unlock"}, Slot(p) \in Contents,
           Unlocked(p), UNCHANGED <<slots, reachable, registry, made, drawn>>
    PROVE  IInv'
<1> USE DEF Unlocked
<1>1. /\ Goto(p, "open") /\ "open" \in Places
      /\ UNCHANGED <<lock, dir, kind, create, phrase, attempts, said>>
      /\ Slot(p).key \in RootKeys
  BY PlacesFacts DEF Holding, Contents
<1>2. /\ pc' \in [Procs -> Places] /\ pc'[p] = "open"
      /\ \A q \in Procs \ {p} : pc'[q] = pc[q]
      /\ \A q \in Procs : pc'[q] # "idle" => dir'[q] \in made' /\ lock'[dir'[q]] = q
  BY <1>1, MoveTypes DEF IInv
<1>3. /\ root' \in [Procs -> RootKeys \cup {Nothing}] /\ root'[p] = Slot(p).key
      /\ \A q \in Procs \ {p} : root'[q] = root[q]
  BY <1>1 DEF IInv, TypeOK
<1>4. TypeOK'
  BY <1>1, <1>2, <1>3 DEF IInv, TypeOK
<1>5. Slot(p)' = Slot(p)
  BY <1>1 DEF Slot
<1>6. Local(p)' /\ SlotLocal(p)'
  BY <1>1, <1>2, <1>3, <1>5 DEF IInv, Local, SlotLocal, Making, Holding
<1>7. WholeFiles' /\ (OneDirectory => DataStaysReadable')
  BY <1>1 DEF IInv, WholeFiles, NeverMalformed, DataStaysReadable
<1> QED
  BY <1>1, <1>2, <1>3, <1>4, <1>6, <1>7, InsideStep

\* What unlocks is a key; what does not is never a malformed slot.
LEMMA UnlockErrors ==
    ASSUME IInv, NEW p \in Procs, pc[p] \notin {"idle", "vault"}, NEW word
    PROVE  /\ UnlockError(Slot(p), word) = "none" => Slot(p) \in Contents
           /\ UnlockError(Slot(p), word) # "none" =>
                UnlockError(Slot(p), word) \in VaultError \ {"Malformed"}
<1>1. Slot(p) \in Contents \cup {Nothing} /\ State(Slot(p)) # "Malformed"
  BY SlotWhole
<1>2. CASE Slot(p) = Nothing
  BY <1>1, <1>2 DEF UnlockError, VaultError, State
<1>3. CASE Slot(p) # Nothing
  BY <1>1, <1>3 DEF UnlockError, VaultError
<1> QED
  BY <1>2, <1>3

LEMMA UnlockPlainStep ==
    ASSUME IInv, NEW p \in Procs, UnlockPlain(p)
    PROVE  IInv'
<1> USE DEF UnlockPlain
<1>1. CASE UnlockError(Slot(p), Nothing) = "none"
  BY <1>1, UnlockErrors, UnlockedStep
<1>2. CASE UnlockError(Slot(p), Nothing) # "none"
  BY <1>2, UnlockErrors, PlacesFacts, ExitStep
<1> QED
  BY <1>1, <1>2

\* A wrong passphrase changes nothing but the number of attempts.
LEMMA UnlockStep ==
    ASSUME IInv, NEW p \in Procs, NEW word \in Phrases, Unlock(p, word)
    PROVE  IInv'
<1> USE DEF Unlock
<1> DEFINE error == UnlockError(Slot(p), word)
<1>1. CASE error = "none"
  BY <1>1, UnlockErrors, UnlockedStep
<1>2. CASE error = "WrongPassphrase" /\ attempts[p] + 1 < Attempts
  <2>1. /\ attempts' = [attempts EXCEPT ![p] = @ + 1]
        /\ UNCHANGED <<slots, reachable, registry, made, drawn, pc, lock, dir, kind,
                       create, phrase, root, said>>
    BY <1>2
  <2>2. attempts' \in [Procs -> 0..Attempts]
    BY <1>2, <2>1 DEF IInv, TypeOK, Attempts
  <2>3. TypeOK'
    BY <2>1, <2>2 DEF IInv, TypeOK
  <2>4. WholeFiles' /\ \A q \in Procs : Local(q)'
    BY <2>1 DEF IInv, WholeFiles, NeverMalformed, Local
  <2>5. OneDirectory => DataStaysReadable' /\ \A q \in Procs : SlotLocal(q)'
    BY <2>1, <2>4 DEF IInv, WholeFiles, DataStaysReadable, SlotLocal, Slot
  <2> QED
    BY <2>3, <2>4, <2>5 DEF IInv
<1>3. CASE error # "none" /\ ~(error = "WrongPassphrase" /\ attempts[p] + 1 < Attempts)
  BY <1>3, UnlockErrors, PlacesFacts, ExitStep
<1> QED
  BY <1>1, <1>2, <1>3

\* A directory's registry is made, or given the key of the slot, by the command
\* that holds the directory.
LEMMA OpenStep ==
    ASSUME IInv, NEW p \in Procs, OpenInstallation(p) \/ OpenRegistry(p)
    PROVE  IInv'
<1>1. CASE OpenRegistry(p) /\ registry[dir[p]] \notin {NoSchema, root[p]}
  BY <1>1, PlacesFacts, ExitStep DEF OpenRegistry
<1>2. CASE ~(OpenRegistry(p) /\ registry[dir[p]] \notin {NoSchema, root[p]})
  <2>1. PICK where \in {"registry", "ready"}, r \in {NoSchema, registry[dir[p]], root[p]} :
          /\ Goto(p, where) /\ registry' = [registry EXCEPT ![dir[p]] = r]
          /\ UNCHANGED <<slots, reachable, made, drawn, lock, command, said>>
    BY <1>2 DEF OpenInstallation, OpenRegistry
  <2>2. /\ pc[p] \in {"open", "registry"} /\ dir[p] \in Dirs
        /\ root[p] \in RootKeys /\ where \in Places \ {"idle"}
    BY PlacesFacts DEF OpenInstallation, OpenRegistry, IInv, TypeOK, Local, Holding
  <2>3. /\ pc' \in [Procs -> Places] /\ pc'[p] = where
        /\ \A q \in Procs \ {p} : pc'[q] = pc[q]
        /\ \A q \in Procs : pc'[q] # "idle" => dir'[q] \in made' /\ lock'[dir'[q]] = q
    BY <2>1, <2>2, MoveTypes DEF IInv
  <2>4. registry' \in [Dirs -> RootKeys \cup {Nothing, NoSchema}]
    BY <2>1, <2>2 DEF IInv, TypeOK
  <2>5. TypeOK'
    BY <2>1, <2>3, <2>4 DEF IInv, TypeOK
  <2>6. Local(p)' /\ (OneDirectory => SlotLocal(p)')
    BY <2>1, <2>2, <2>3 DEF IInv, Local, SlotLocal, Slot, Making, Holding
  <2>7. WholeFiles'
    BY <2>1 DEF IInv, WholeFiles, NeverMalformed
  <2>8. OneDirectory => DataStaysReadable'
    <3> SUFFICES ASSUME OneDirectory, NEW d \in Dirs, registry'[d] \in RootKeys
                 PROVE  \E content \in {keyring', file'[d]} \cap Contents :
                          content.key = registry'[d]
      BY <2>7 DEF DataStaysReadable, WholeFiles
    <3>1. d = dir[p] /\ registry'[d] = r
      BY <2>1, <2>2 DEF OneDirectory, IInv, TypeOK
    <3>2. CASE r = registry[dir[p]]
      BY <2>1, <3>1, <3>2 DEF IInv, DataStaysReadable
    <3>3. CASE r = root[p]
      <4>1. Slot(p) \in Contents /\ Slot(p).key = root[p]
        BY <2>2 DEF IInv, SlotLocal
      <4> QED
        BY <2>1, <3>1, <3>3, <4>1 DEF Slot
    <3> QED
      BY <3>1, <3>2, <3>3
  <2>9. \A d \in Dirs \ {dir[p]} : registry'[d] = registry[d]
    BY <2>1 DEF IInv, TypeOK
  <2> QED
    BY <2>1, <2>2, <2>3, <2>5, <2>6, <2>7, <2>8, <2>9, InsideStep
<1> QED
  BY <1>1, <1>2

\* The keyring comes or goes with what it holds.
LEMMA KeyringStep ==
    ASSUME IInv, KeyringComesOrGoes
    PROVE  IInv'
<1> USE DEF KeyringComesOrGoes
<1>1. TypeOK'
  BY DEF IInv, TypeOK
<1>2. WholeFiles' /\ \A q \in Procs : Local(q)'
  BY DEF IInv, WholeFiles, NeverMalformed, Local
<1>3. OneDirectory => DataStaysReadable' /\ \A q \in Procs : SlotLocal(q)'
  BY <1>2 DEF IInv, WholeFiles, DataStaysReadable, SlotLocal, Slot
<1> QED
  BY <1>1, <1>2, <1>3 DEF IInv

-----------------------------------------------------------------------------
(* The theorems.                                                           *)

\* No command runs at first, and nothing is stored.
LEMMA InitIInv == Init => IInv
<1> SUFFICES ASSUME Init PROVE IInv
  OBVIOUS
<1> USE DEF Init
<1>1. TypeOK
  <2>1. "idle" \in Places /\ "Auto" \in BackendChoice
    BY PlacesFacts DEF BackendChoice
  <2> QED
    BY <2>1, PlacesFacts DEF TypeOK, Attempts
<1>2. WholeFiles /\ \A q \in Procs : Local(q)
  BY DEF WholeFiles, NeverMalformed, Local, Making, Holding
<1>3. OneDirectory => DataStaysReadable /\ \A q \in Procs : SlotLocal(q)
  BY <1>2 DEF WholeFiles, DataStaysReadable, SlotLocal
<1> QED
  BY <1>1, <1>2, <1>3 DEF IInv

\* Every step keeps the invariant.
LEMMA NextIInv == IInv /\ [Next]_vars => IInv'
<1> SUFFICES ASSUME IInv, [Next]_vars PROVE IInv'
  OBVIOUS
<1>1. ASSUME NEW p \in Procs, NEW d \in Dirs,
             \/ Refused(p, d)
             \/ \E backend \in BackendChoice, mayCreate \in BOOLEAN : Start(p, d, backend, mayCreate)
      PROVE  IInv'
  BY <1>1, RefusedStep, StartStep
<1>2. ASSUME NEW p \in Procs, OpenVault(p) \/ Plan(p)
      PROVE  IInv'
  BY <1>2, OpenVaultStep, PlanStep
<1>3. ASSUME NEW p \in Procs, NEW k \in RootKeys, NEW word \in Phrases \cup {Nothing},
             Generate(p, k, word)
      PROVE  IInv'
  BY <1>3, GenerateStep
<1>4. ASSUME NEW p \in Procs,
             WriteKeyring(p) \/ WriteTemporary(p) \/ Rename(p) \/ ReadBack(p)
      PROVE  IInv'
  BY <1>4, WriteStep, ReadBackStep
<1>5. ASSUME NEW p \in Procs, UnlockPlain(p) \/ \E word \in Phrases : Unlock(p, word)
      PROVE  IInv'
  BY <1>5, UnlockPlainStep, UnlockStep
<1>6. ASSUME NEW p \in Procs,
             OpenInstallation(p) \/ OpenRegistry(p) \/ Finish(p) \/ Cancel(p) \/ Fail(p)
      PROVE  IInv'
  <2>1. CASE OpenInstallation(p) \/ OpenRegistry(p)
    BY <2>1, OpenStep
  <2>2. CASE Finish(p) \/ Cancel(p) \/ Fail(p)
    BY <2>2, PlacesFacts, ExitStep DEF Finish, Cancel, Fail, UnlockPlan
  <2> QED
    BY <1>6, <2>1, <2>2
<1>7. CASE KeyringComesOrGoes
  BY <1>7, KeyringStep
<1>8. CASE UNCHANGED vars
  <2> USE <1>8 DEF vars
  <2>1. TypeOK'
    BY DEF IInv, TypeOK
  <2>2. WholeFiles' /\ \A q \in Procs : Local(q)'
    BY DEF IInv, WholeFiles, NeverMalformed, Local
  <2>3. OneDirectory => DataStaysReadable' /\ \A q \in Procs : SlotLocal(q)'
    BY <2>2 DEF IInv, WholeFiles, DataStaysReadable, SlotLocal, Slot
  <2> QED
    BY <2>1, <2>2, <2>3 DEF IInv
<1> QED
  BY <1>1, <1>2, <1>3, <1>4, <1>5, <1>6, <1>7, <1>8 DEF Next

\* The inductive invariant holds throughout.
THEOREM Inductive == Spec => []IInv
  BY InitIInv, NextIInv, PTL DEF Spec

\* Every variable keeps its type, and commands in one directory exclude one
\* another.
THEOREM TypeCorrect == Spec => []TypeOK
<1>1. IInv => TypeOK
  BY DEF IInv
<1> QED
  BY <1>1, Inductive, PTL

\* No key is made where there is data that needs another one, whatever other
\* directories share the keyring.
THEOREM NoKeyOverDataCorrect == Spec => NoKeyOverData
<1>1. IInv /\ [Next]_vars =>
        [\A p \in Procs : pc[p] \in {"write", "rename"} /\ pc'[p] \notin {"idle", pc[p]}
            => ~HasLocalData(dir[p])]_vars
  BY DEF IInv, Local, Making, HasLocalData
<1> QED
  BY <1>1, Inductive, PTL DEF Spec, NoKeyOverData

\* As long as one directory is in use, what is encrypted can be decrypted,
\* whatever was interrupted, fell back, failed or was dropped on the way.
THEOREM ReadableCorrect ==
    ASSUME OneDirectory
    PROVE  Spec => []DataStaysReadable
<1>1. IInv => DataStaysReadable
  BY DEF IInv
<1> QED
  BY <1>1, Inductive, PTL

-----------------------------------------------------------------------------
(* Key separation.                                                         *)

\* A frame ends where its length says: two that begin alike are alike.
LEMMA FramesApart ==
    ASSUME NEW a \in Seq(Nat), NEW b \in Seq(Nat), NEW r \in Seq(Nat), NEW s \in Seq(Nat),
           Framed(a) \o r = Framed(b) \o s
    PROVE  a = b /\ r = s
<1> DEFINE A == Framed(a) \o r
           B == Framed(b) \o s
<1>1. /\ Len(A) = 1 + Len(a) + Len(r) /\ A[1] = Len(a)
      /\ \A i \in 1..Len(a) : A[1 + i] = a[i]
      /\ \A i \in 1..Len(r) : A[1 + Len(a) + i] = r[i]
  BY DEF Framed
<1>2. /\ Len(B) = 1 + Len(b) + Len(s) /\ B[1] = Len(b)
      /\ \A i \in 1..Len(b) : B[1 + i] = b[i]
      /\ \A i \in 1..Len(s) : B[1 + Len(b) + i] = s[i]
  BY DEF Framed
<1>3. A = B
  OBVIOUS
<1> HIDE DEF A, B
<1>4. Len(a) = Len(b) /\ Len(r) = Len(s)
  BY <1>1, <1>2, <1>3
<1>5. \A i \in 1..Len(a) : a[i] = b[i]
  BY <1>1, <1>2, <1>3, <1>4
<1>6. \A i \in 1..Len(r) : r[i] = s[i]
  BY <1>1, <1>2, <1>3, <1>4
<1> QED
  BY <1>4, <1>5, <1>6, SeqEqual

\* What follows the prefix and the account of a derivation for an account.
Rest(d) ==
    IF d.use = "database" THEN Framed(AccountDatabasePurpose)
    ELSE Framed(AccountIdentityPurpose) \o Framed(d.subject)

OfAccount == {d \in Derivations : d.use \in {"database", "identity"}}

LEMMA FramedSeq == \A a \in Seq(Nat) : Framed(a) \in Seq(Nat)
  BY DEF Framed

LEMMA PurposesFramed ==
    /\ Framed(AccountDatabasePurpose) \in Seq(Nat)
    /\ Framed(AccountIdentityPurpose) \in Seq(Nat)
<1>1. AccountDatabasePurpose \in Seq(Nat) /\ AccountIdentityPurpose \in Seq(Nat)
  BY DEF AccountDatabasePurpose, AccountIdentityPurpose
<1> QED
  BY <1>1, FramedSeq

Associate(s, t, u) == (s \o t) \o u = s \o (t \o u)

LEMMA Associates ==
    ASSUME NEW s \in Seq(Nat), NEW t \in Seq(Nat), NEW u \in Seq(Nat)
    PROVE  Associate(s, t, u)
<1> DEFINE a == (s \o t) \o u
           b == s \o (t \o u)
<1>1. s \o t \in Seq(Nat) /\ t \o u \in Seq(Nat)
  OBVIOUS
<1>2. a \in Seq(Nat) /\ b \in Seq(Nat) /\ Len(a) = Len(b)
  BY <1>1
<1>3. ASSUME NEW i \in 1..Len(a) PROVE a[i] = b[i]
  <2>1. CASE i <= Len(s)
    BY <1>1, <2>1
  <2>2. CASE i > Len(s) /\ i <= Len(s) + Len(t)
    BY <1>1, <2>2
  <2>3. CASE i > Len(s) + Len(t)
    BY <1>1, <2>3
  <2> QED
    BY <2>1, <2>2, <2>3
<1> HIDE DEF a, b
<1>4. a = b
  BY <1>2, <1>3, SeqEqual
<1> QED
  BY <1>4, Zenon DEF a, b, Associate

\* What follows a common beginning is common.
LEMMA Cancels ==
    ASSUME NEW s \in Seq(Nat), NEW t \in Seq(Nat), NEW u \in Seq(Nat), s \o t = s \o u
    PROVE  t = u
<1> DEFINE A == s \o t
           B == s \o u
<1>1. Len(A) = Len(s) + Len(t) /\ \A i \in 1..Len(t) : A[Len(s) + i] = t[i]
  OBVIOUS
<1>2. Len(B) = Len(s) + Len(u) /\ \A i \in 1..Len(u) : B[Len(s) + i] = u[i]
  OBVIOUS
<1>3. A = B
  OBVIOUS
<1> HIDE DEF A, B
<1>4. Len(t) = Len(u)
  <2>1. Len(s) \in Nat /\ Len(t) \in Nat /\ Len(u) \in Nat
    OBVIOUS
  <2> QED
    BY <1>1, <1>2, <1>3, <2>1
<1>5. ASSUME NEW i \in 1..Len(t) PROVE t[i] = u[i]
  BY <1>1, <1>2, <1>3, <1>4, Zenon
<1> QED
  BY <1>4, <1>5, SeqEqual

\* The info of a derivation for an account, put together from the right.
LEMMA AccountInfos ==
    ASSUME NEW d \in OfAccount
    PROVE  /\ d.account \in Seq(Nat) /\ Rest(d) \in Seq(Nat)
           /\ Info(d) = AccountPrefix \o (Framed(d.account) \o Rest(d))
<1> DEFINE F == Framed(d.account)
           A == AccountPrefix
<1>1. d.account \in Seq(Nat) /\ A \in Seq(Nat) /\ F \in Seq(Nat)
  BY TextsAssumption, FramedSeq DEF OfAccount, Derivations, AccountPrefix
<1>2. CASE d.use = "database"
  <2>1. Framed(AccountDatabasePurpose) \in Seq(Nat)
    BY PurposesFramed
  <2>2. Info(d) = (A \o F) \o Framed(AccountDatabasePurpose)
    BY <1>2 DEF Info, DatabaseKeyInfo, AccountInfo
  <2> HIDE DEF A, F
  <2>3. Associate(A, F, Framed(AccountDatabasePurpose))
    BY <1>1, <2>1, Associates, Zenon
  <2>4. Info(d) = A \o (F \o Framed(AccountDatabasePurpose))
    BY <2>2, <2>3, Zenon DEF Associate
  <2> QED
    BY <1>1, <1>2, <2>1, <2>4 DEF Rest, A, F
<1>3. CASE d.use = "identity"
  <2> DEFINE P == Framed(AccountIdentityPurpose)
             S == Framed(d.subject)
  <2>1. P \in Seq(Nat) /\ S \in Seq(Nat)
    <3>1. d.subject \in Seq(Nat)
      BY <1>3, TextsAssumption DEF OfAccount, Derivations
    <3> QED
      BY <3>1, PurposesFramed, FramedSeq
  <2>2. Info(d) = ((A \o F) \o P) \o S
    BY <1>3 DEF Info, IdentityHashInfo, AccountInfo
  <2>3. Rest(d) = P \o S
    BY <1>3 DEF Rest
  <2> HIDE DEF A, F, P, S
  <2>4. A \o F \in Seq(Nat) /\ P \o S \in Seq(Nat)
    BY <1>1, <2>1
  <2>5. Associate(A \o F, P, S) /\ Associate(A, F, P \o S)
    BY <1>1, <2>1, <2>4, Associates, Zenon
  <2>6. Info(d) = A \o (F \o (P \o S))
    BY <2>2, <2>5, Zenon DEF Associate
  <2> QED
    BY <1>1, <2>3, <2>4, <2>6 DEF A, F
<1> QED
  BY <1>2, <1>3 DEF OfAccount

\* For one account, the purpose and the subject tell derivations apart.
LEMMA RestsApart ==
    ASSUME NEW d \in OfAccount, NEW e \in OfAccount, d.account = e.account, Rest(d) = Rest(e)
    PROVE  d = e
<1>1. CASE d.use = "database" /\ e.use = "database"
  BY <1>1 DEF OfAccount, Derivations
<1>2. CASE d.use = "identity" /\ e.use = "identity"
  <2>1. d.subject \in Seq(Nat) /\ e.subject \in Seq(Nat)
    BY <1>2, TextsAssumption DEF OfAccount, Derivations
  <2>2. Framed(d.subject) = Framed(e.subject)
    <3>1. /\ Rest(d) = Framed(AccountIdentityPurpose) \o Framed(d.subject)
          /\ Rest(e) = Framed(AccountIdentityPurpose) \o Framed(e.subject)
      BY <1>2 DEF Rest
    <3>2. Framed(d.subject) \in Seq(Nat) /\ Framed(e.subject) \in Seq(Nat)
      BY <2>1, FramedSeq
    <3> QED
      BY <3>1, <3>2, PurposesFramed, Cancels
  <2>3. Framed(d.subject) \o <<>> = Framed(e.subject) \o <<>> /\ <<>> \in Seq(Nat)
    BY <2>2
  <2>4. d.subject = e.subject
    BY <2>1, <2>3, FramesApart
  <2> QED
    BY <1>2, <2>4 DEF OfAccount, Derivations
<1>3. ASSUME NEW a \in OfAccount, NEW b \in OfAccount, a.use = "database", b.use = "identity"
      PROVE  Rest(a) # Rest(b)
  <2>1. b.subject \in Seq(Nat)
    BY <1>3, TextsAssumption DEF OfAccount, Derivations
  <2>2. Rest(a)[2] = 1
    BY <1>3 DEF Rest, Framed, AccountDatabasePurpose
  <2>3. Rest(b)[2] = 2
    BY <1>3, <2>1 DEF Rest, Framed, AccountIdentityPurpose
  <2> QED
    BY <2>2, <2>3
<1> QED
  BY <1>1, <1>2, <1>3 DEF OfAccount

\* No two derivations are given the same info string.
LEMMA InfosApart ==
    ASSUME NEW d \in Derivations, NEW e \in Derivations, Info(d) = Info(e)
    PROVE  d = e
<1>1. CASE d \in OfAccount /\ e \in OfAccount
  <2>1. AccountPrefix \in Seq(Nat)
    BY DEF AccountPrefix
  <2>2. /\ Framed(d.account) \o Rest(d) \in Seq(Nat)
        /\ Framed(e.account) \o Rest(e) \in Seq(Nat)
    BY <1>1, AccountInfos, FramedSeq
  <2>3. Framed(d.account) \o Rest(d) = Framed(e.account) \o Rest(e)
    <3>1. /\ Info(d) = AccountPrefix \o (Framed(d.account) \o Rest(d))
          /\ Info(e) = AccountPrefix \o (Framed(e.account) \o Rest(e))
      BY <1>1, AccountInfos
    <3> QED
      BY <2>1, <2>2, <3>1, Cancels
  <2>4. /\ d.account \in Seq(Nat) /\ Rest(d) \in Seq(Nat)
        /\ e.account \in Seq(Nat) /\ Rest(e) \in Seq(Nat)
    BY <1>1, AccountInfos
  <2>5. d.account = e.account /\ Rest(d) = Rest(e)
    BY <2>3, <2>4, FramesApart, Zenon
  <2> QED
    BY <1>1, <2>5, RestsApart
<1>2. \A a \in OfAccount : Info(a)[2] = 1
  BY AccountInfos, FramedSeq DEF AccountPrefix
<1>3. \A a \in Derivations \ OfAccount :
         /\ Info(a)[2] = 2 /\ a.use \in {"registry", "dedup"}
         /\ Info(a)[4] = IF a.use = "registry" THEN 1 ELSE 2
  BY DEF OfAccount, Derivations, Info, InstallationKeyInfo, InstallationPrefix, Framed,
         RegistryDatabasePurpose, RegistryDedupPurpose
<1>4. CASE d \notin OfAccount /\ e \notin OfAccount
  <2>1. d.use = e.use
    BY <1>3, <1>4
  <2> QED
    BY <1>3, <1>4, <2>1 DEF Derivations
<1> QED
  BY <1>1, <1>2, <1>3, <1>4

\* No key that is derived from a root key, for any account, any subject and
\* any use, is ever another's: the lengths before the parts keep a part from
\* running into the next.
THEOREM KeysSeparateCorrect == Spec => []KeysSeparate
<1>1. KeysSeparate
  BY InfosApart DEF KeysSeparate, Key
<1> QED
  BY <1>1, PTL

-----------------------------------------------------------------------------
(* Dates.                                                                   *)

\* A day by its place in the calendar that begins in March of the year 0: the
\* 400 years, the century of these, the four years of that, the year of those
\* and the day of that.
Place(d, e, c, q, t, u) ==
    /\ e \in Nat /\ c \in 0..3 /\ q \in 0..24 /\ t \in 0..3 /\ u \in 0..365
    /\ u = 365 => t = 3 /\ (q # 24 \/ c = 3)
    /\ d + 719468 = 146097 * e + 36524 * c + 1461 * q + 365 * t + u

YearOf(e, c, q, t) == 400 * e + 100 * c + 4 * q + t

\* The date of a day of a year that begins in March.
DateOf(y, u) ==
    LET monthIndex == (5 * u + 2) \div 153
    IN  [year |-> IF monthIndex >= 10 THEN y + 1 ELSE y,
         month |-> IF monthIndex < 10 THEN monthIndex + 3 ELSE monthIndex - 9,
         day |-> u - (153 * monthIndex + 2) \div 5 + 1]

\* Whether a year goes on after its day u, or ends with it; the first day of
\* a year.
GoesOn(y, u) == u < 364 \/ (u = 364 /\ IsLeapYear(y + 1))
Begins(d, y) == \E e, c, q, t : Place(d, e, c, q, t, 0) /\ YearOf(e, c, q, t) = y

\* Every day has a place.
LEMMA Placed ==
    ASSUME NEW d \in Nat
    PROVE  \E e, c, q, t, u : Place(d, e, c, q, t, u)
<1> DEFINE e == (d + 719468) \div 146097
           r == d + 719468 - 146097 * e
           c == IF r \div 36524 = 4 THEN 3 ELSE r \div 36524
           s == r - 36524 * c
           q == s \div 1461
           w == s - 1461 * q
           t == IF w \div 365 = 4 THEN 3 ELSE w \div 365
           u == w - 365 * t
<1>1. e \in Nat /\ r \in Nat /\ r < 146097 /\ d + 719468 = 146097 * e + r
    BY SMT
<1> HIDE DEF e, r
<1>2. c \in 0..3 /\ s \in Nat /\ s <= 36524 /\ (s = 36524 => c = 3) /\ r = 36524 * c + s
    BY SMT, <1>1
<1> HIDE DEF c, s
<1>3. q \in 0..24 /\ w \in Nat /\ w <= 1460 /\ (w = 1460 => q # 24 \/ c = 3) /\ s = 1461 * q + w
    BY SMT, <1>2
<1> HIDE DEF q, w
<1>4. t \in 0..3 /\ u \in 0..365 /\ (u = 365 => t = 3 /\ w = 1460) /\ w = 365 * t + u
    BY SMT, <1>3
<1> HIDE DEF t, u
<1>5. Place(d, e, c, q, t, u)
    BY SMT, <1>1, <1>2, <1>3, <1>4 DEF Place
<1> QED BY Zenon, <1>5

\* Its day of the 400 years, the year of that, and with both its date.
LEMMA DateOfPlace ==
    ASSUME NEW d \in Nat, NEW e, NEW c, NEW q, NEW t, NEW u, Place(d, e, c, q, t, u)
    PROVE  CivilFromDays(d) = DateOf(YearOf(e, c, q, t), u)
<1>0. e \in Nat /\ c \in 0..3 /\ q \in 0..24 /\ t \in 0..3 /\ u \in 0..365
    BY DEF Place
<1> USE <1>0
<1> DEFINE doe == 36524 * c + 1461 * q + 365 * t + u
           y == 100 * c + 4 * q + t
<1>1. doe \in Nat /\ doe < 146097 /\ d + 719468 = 146097 * e + doe
    BY SMT DEF Place
<1>2. (d + 719468) \div 146097 = e /\ (d + 719468) % 146097 = doe
  <2> HIDE DEF doe
  <2> QED BY SMT, <1>1
<1>3. YearOfEra(doe) = y
    BY SMT DEF YearOfEra, Place
<1>4. doe - (365 * y + y \div 4 - y \div 100) = u
    BY SMT
<1>5. y + e * 400 = YearOf(e, c, q, t)
    BY SMT DEF YearOf
<1> HIDE DEF doe, y
<1> DEFINE m == (5 * u + 2) \div 153
<1>6. m \in 0..11
    BY SMT
<1>7. y + e * 400 + (IF (IF m < 10 THEN m + 3 ELSE m - 9) <= 2 THEN 1 ELSE 0)
        = IF m >= 10 THEN YearOf(e, c, q, t) + 1 ELSE YearOf(e, c, q, t)
  <2>1. YearOf(e, c, q, t) \in Nat
      BY SMT DEF YearOf
  <2> QED BY SMT, <1>5, <1>6, <2>1
<1>m. (5 * u + 2) \div 153 = m
    BY SMT
<1> HIDE DEF m
<1> DEFINE date(z, v, k) == [year |-> z + e * 400 + (IF (IF k < 10 THEN k + 3 ELSE k - 9) <= 2 THEN 1 ELSE 0),
                             month |-> IF k < 10 THEN k + 3 ELSE k - 9,
                             day |-> v - (153 * k + 2) \div 5 + 1]
<1>9. CivilFromDays(d) = LET z == YearOfEra(doe)
                             v == doe - (365 * z + z \div 4 - z \div 100)
                         IN  date(z, v, (5 * v + 2) \div 153)
    BY SMT, <1>2 DEF CivilFromDays
<1>10. CivilFromDays(d) = date(y, u, m)
  <2> HIDE DEF date
  <2> QED BY SMT, <1>9, <1>3, <1>4, <1>m
<1>8. CivilFromDays(d) = [year |-> y + e * 400 + (IF (IF m < 10 THEN m + 3 ELSE m - 9) <= 2 THEN 1 ELSE 0),
                          month |-> IF m < 10 THEN m + 3 ELSE m - 9,
                          day |-> u - (153 * m + 2) \div 5 + 1]
    BY SMT, <1>10
<1> QED BY SMT, <1>7, <1>8 DEF DateOf, m

\* The place of the day after: the next of its year or the first of the next.
LEMMA NextPlace ==
    ASSUME NEW d \in Nat, NEW e, NEW c, NEW q, NEW t, NEW u, Place(d, e, c, q, t, u)
    PROVE  /\ u = 365 => IsLeapYear(YearOf(e, c, q, t) + 1)
           /\ IF GoesOn(YearOf(e, c, q, t), u) THEN Place(d + 1, e, c, q, t, u + 1)
              ELSE Begins(d + 1, YearOf(e, c, q, t) + 1)
<1>0. e \in Nat /\ c \in 0..3 /\ q \in 0..24 /\ t \in 0..3 /\ u \in 0..365
    BY DEF Place
<1> USE <1>0
<1> DEFINE y == YearOf(e, c, q, t) + 1
<1>1. IsLeapYear(y) <=> t = 3 /\ (q # 24 \/ c = 3)
  <2>1. y % 4 = 0 <=> t = 3
      BY SMT DEF YearOf
  <2>2. t = 3 => (y % 100 = 0 <=> q = 24)
      BY SMT DEF YearOf
  <2>3. t = 3 /\ q = 24 => (y % 400 = 0 <=> c = 3)
      BY SMT DEF YearOf
  <2> HIDE DEF y
  <2> QED BY SMT, <2>1, <2>2, <2>3 DEF IsLeapYear
<1>2. CASE GoesOn(YearOf(e, c, q, t), u)
    BY SMT, <1>1, <1>2 DEF Place, GoesOn
<1>3. CASE ~ GoesOn(YearOf(e, c, q, t), u)
  <2>1. \E f, b, p, r : Place(d + 1, f, b, p, r, 0) /\ YearOf(f, b, p, r) = YearOf(e, c, q, t) + 1
    <3>1. CASE t < 3
      <4>1. Place(d + 1, e, c, q, t + 1, 0) /\ YearOf(e, c, q, t + 1) = YearOf(e, c, q, t) + 1
          BY SMT, <1>1, <1>3, <3>1 DEF Place, YearOf, GoesOn
      <4> WITNESS e, c, q, t + 1
      <4> QED BY <4>1
    <3>2. CASE t = 3 /\ q < 24
      <4>1. Place(d + 1, e, c, q + 1, 0, 0) /\ YearOf(e, c, q + 1, 0) = YearOf(e, c, q, t) + 1
          BY SMT, <1>1, <1>3, <3>2 DEF Place, YearOf, GoesOn
      <4> WITNESS e, c, q + 1, 0
      <4> QED BY <4>1
    <3>3. CASE t = 3 /\ q = 24 /\ c < 3
      <4>1. Place(d + 1, e, c + 1, 0, 0, 0) /\ YearOf(e, c + 1, 0, 0) = YearOf(e, c, q, t) + 1
          BY SMT, <1>1, <1>3, <3>3 DEF Place, YearOf, GoesOn
      <4> WITNESS e, c + 1, 0, 0
      <4> QED BY <4>1
    <3>4. CASE t = 3 /\ q = 24 /\ c = 3
      <4>1. Place(d + 1, e + 1, 0, 0, 0, 0) /\ YearOf(e + 1, 0, 0, 0) = YearOf(e, c, q, t) + 1
          BY SMT, <1>1, <1>3, <3>4 DEF Place, YearOf, GoesOn
      <4> WITNESS e + 1, 0, 0, 0
      <4> QED BY <4>1
    <3>5. \/ t < 3
          \/ t = 3 /\ q < 24
          \/ t = 3 /\ q = 24 /\ c < 3
          \/ t = 3 /\ q = 24 /\ c = 3
        BY SMT, <1>0
    <3> QED BY <3>1, <3>2, <3>3, <3>4, <3>5
  <2>2. u = 365 => IsLeapYear(YearOf(e, c, q, t) + 1)
      BY SMT, <1>1 DEF Place
  <2> QED BY Zenon, <1>3, <2>1, <2>2 DEF Begins
<1> QED BY <1>2, <1>3

\* The day after the last one of a month.
LEMMA MonthEnds ==
    ASSUME NEW a \in Nat, NEW b \in 1..12, NEW n \in Nat,
           n = DaysIn([year |-> a, month |-> b, day |-> n])
    PROVE  DayAfter([year |-> a, month |-> b, day |-> n]) =
               IF b < 12 THEN [year |-> a, month |-> b + 1, day |-> 1]
               ELSE [year |-> a + 1, month |-> 1, day |-> 1]
BY SMT DEF DayAfter

\* The calendar's day after a date of such a year.
LEMMA DayAfterDate ==
    ASSUME NEW y \in Nat, NEW u \in 0..365, u = 365 => IsLeapYear(y + 1)
    PROVE  DayAfter(DateOf(y, u)) =
               IF GoesOn(y, u) THEN DateOf(y, u + 1) ELSE DateOf(y + 1, 0)
<1> USE DEF GoesOn
<1> DEFINE leap == IsLeapYear(y + 1)
           m == (5 * u + 2) \div 153
           first(k) == (153 * k + 2) \div 5
<1>1. m \in 0..11 /\ first(m) <= u /\ (m < 11 => u < first(m + 1))
    BY SMT
<1>2. DaysIn(DateOf(y, u)) = CASE m = 11 -> IF leap THEN 29 ELSE 28
                               [] m \in {1, 3, 6, 8} -> 30
                               [] OTHER -> 31
    BY SMT, <1>1 DEF DaysIn, DateOf
<1>3. m < 11 => first(m + 1) - first(m) = DaysIn(DateOf(y, u))
    BY SMT, <1>1, <1>2
<1> HIDE DEF leap
<1> DEFINE date(z, k, n) == [year |-> IF k >= 10 THEN z + 1 ELSE z,
                             month |-> IF k < 10 THEN k + 3 ELSE k - 9,
                             day |-> n]
<1>4. DateOf(y, u) = date(y, m, u - first(m) + 1)
    BY SMT DEF DateOf
<1>5. u - first(m) + 1 \in Nat /\ first(m) \in Nat
    BY SMT, <1>1
<1>6. CASE m < 11 /\ u + 1 < first(m + 1)
  <2>1. (5 * (u + 1) + 2) \div 153 = m /\ u < 364
      BY SMT, <1>1, <1>6
  <2>2. DateOf(y, u + 1) = date(y, m, u - first(m) + 2)
      BY SMT, <1>1, <2>1 DEF DateOf
  <2>3. u - first(m) + 1 < DaysIn(DateOf(y, u))
      BY SMT, <1>1, <1>3, <1>6
  <2> HIDE DEF m, first
  <2>4. DayAfter(DateOf(y, u)) = date(y, m, u - first(m) + 1 + 1)
      BY SMT, <2>3, <1>4 DEF DayAfter
  <2>5. u - first(m) + 1 + 1 = u - first(m) + 2
      BY SMT, <1>5
  <2> QED BY SMT, <2>1, <2>2, <2>4, <2>5
<1>7. CASE m < 11 /\ u + 1 = first(m + 1)
  <2>1. (5 * (u + 1) + 2) \div 153 = m + 1 /\ u < 364
      BY SMT, <1>1, <1>7
  <2>2. DateOf(y, u + 1) = date(y, m + 1, 1)
      BY SMT, <1>1, <1>7, <2>1 DEF DateOf
  <2>3. u - first(m) + 1 = DaysIn(DateOf(y, u))
      BY SMT, <1>1, <1>3, <1>7
  <2> HIDE DEF m, first
  <2> DEFINE month == IF m < 10 THEN m + 3 ELSE m - 9
             year == IF m >= 10 THEN y + 1 ELSE y
  <2>4. month \in 1..12 /\ year \in Nat
      BY SMT, <1>1
  <2>5. DateOf(y, u) = [year |-> year, month |-> month, day |-> u - first(m) + 1]
      BY SMT, <1>4
  <2>6. DayAfter(DateOf(y, u)) = IF month < 12 THEN [year |-> year, month |-> month + 1, day |-> 1]
                                 ELSE [year |-> year + 1, month |-> 1, day |-> 1]
    <3> DEFINE n == u - first(m) + 1
    <3>1. n \in Nat /\ n = DaysIn([year |-> year, month |-> month, day |-> n])
        BY SMT, <1>5, <2>3, <2>5
    <3> HIDE DEF month, year, n
    <3>2. DayAfter([year |-> year, month |-> month, day |-> n])
            = IF month < 12 THEN [year |-> year, month |-> month + 1, day |-> 1]
              ELSE [year |-> year + 1, month |-> 1, day |-> 1]
        BY <3>1, <2>4, MonthEnds
    <3> QED BY SMT, <3>2, <2>5 DEF n
  <2>7. DayAfter(DateOf(y, u)) = date(y, m + 1, 1)
    <3>1. CASE m < 9
        BY SMT, <1>1, <2>6, <3>1
    <3>2. CASE m = 9
        BY SMT, <2>6, <3>2
    <3>3. CASE m = 10
        BY SMT, <2>6, <3>3
    <3> QED BY SMT, <1>1, <1>7, <3>1, <3>2, <3>3
  <2> QED BY SMT, <2>1, <2>2, <2>7
<1>8. CASE m = 11
  <2>1. first(11) = 337 /\ u \in 337..365 /\ m >= 10
      BY SMT, <1>1, <1>8
  <2>2. DateOf(y, u) = [year |-> y + 1, month |-> 2, day |-> u - 336]
      BY SMT, <1>4, <1>8, <2>1
  <2>3. DaysIn(DateOf(y, u)) = IF leap THEN 29 ELSE 28
      BY SMT, <2>2 DEF DaysIn, leap
  <2>4. CASE u < 364 \/ (u = 364 /\ leap)
    <3>1. (5 * (u + 1) + 2) \div 153 = 11
        BY SMT, <2>1, <2>4
    <3>2. DateOf(y, u + 1) = [year |-> y + 1, month |-> 2, day |-> u - 336 + 1]
        BY SMT, <2>1, <3>1 DEF DateOf
    <3>3. u - 336 < DaysIn(DateOf(y, u))
        BY SMT, <2>1, <2>3, <2>4
    <3> QED BY SMT, <2>2, <2>4, <3>2, <3>3 DEF DayAfter, leap
  <2>5. CASE ~ (u < 364 \/ (u = 364 /\ leap))
    <3>1. DateOf(y + 1, 0) = [year |-> y + 1, month |-> 3, day |-> 1]
        BY SMT DEF DateOf
    <3>2. u - 336 = DaysIn(DateOf(y, u))
        BY SMT, <2>1, <2>3, <2>5 DEF leap
    <3>3. DayAfter(DateOf(y, u)) = [year |-> y + 1, month |-> 2 + 1, day |-> 1]
      <4> DEFINE n == u - 336
                 z == y + 1
      <4>1. n \in Nat /\ z \in Nat /\ 2 \in 1..12
          BY SMT, <2>1
      <4>2. n = DaysIn([year |-> z, month |-> 2, day |-> n])
          BY SMT, <2>2, <3>2
      <4>3. DateOf(y, u) = [year |-> z, month |-> 2, day |-> n]
          BY SMT, <2>2
      <4> HIDE DEF n, z
      <4>4. DayAfter([year |-> z, month |-> 2, day |-> n])
              = IF 2 < 12 THEN [year |-> z, month |-> 2 + 1, day |-> 1]
                ELSE [year |-> z + 1, month |-> 1, day |-> 1]
          BY <4>1, <4>2, MonthEnds
      <4> QED BY SMT, <4>3, <4>4 DEF z
    <3> QED BY SMT, <2>5, <3>1, <3>3 DEF leap
  <2> QED BY SMT, <2>4, <2>5
<1> QED BY SMT, <1>1, <1>6, <1>7, <1>8
-----------------------------------------------------------------------------

\* The day after a day has the date after its date.
LEMMA DateOfNext ==
    ASSUME NEW d \in Nat
    PROVE  CivilFromDays(d + 1) = DayAfter(CivilFromDays(d))
<1>1. PICK e, c, q, t, u : Place(d, e, c, q, t, u)
    BY Zenon, Placed
<1> DEFINE y == YearOf(e, c, q, t)
<1>2. u \in 0..365 /\ y \in Nat /\ d + 1 \in Nat
    BY SMT, <1>1 DEF Place, YearOf
<1>3. CivilFromDays(d) = DateOf(y, u)
    BY <1>1, DateOfPlace
<1>4. /\ u = 365 => IsLeapYear(y + 1)
      /\ IF GoesOn(y, u) THEN Place(d + 1, e, c, q, t, u + 1) ELSE Begins(d + 1, y + 1)
    BY <1>1, NextPlace
<1>5. DayAfter(DateOf(y, u)) = IF GoesOn(y, u) THEN DateOf(y, u + 1) ELSE DateOf(y + 1, 0)
    BY <1>2, <1>4, DayAfterDate
<1>6. CASE GoesOn(y, u)
  <2>1. CivilFromDays(d + 1) = DateOf(y, u + 1)
      BY <1>2, <1>4, <1>6, DateOfPlace
  <2> QED BY <1>3, <1>5, <1>6, <2>1
<1>7. CASE ~ GoesOn(y, u)
  <2>1. PICK f, b, p, r : Place(d + 1, f, b, p, r, 0) /\ YearOf(f, b, p, r) = y + 1
      BY <1>4, <1>7 DEF Begins
  <2>2. CivilFromDays(d + 1) = DateOf(YearOf(f, b, p, r), 0)
      BY <1>2, <2>1, DateOfPlace
  <2> QED BY <1>3, <1>5, <1>7, <2>1, <2>2
<1> QED BY <1>6, <1>7

\* The first day.
LEMMA FirstDay == CivilFromDays(0) = [year |-> 1970, month |-> 1, day |-> 1]
<1>1. Place(0, 4, 3, 17, 1, 306)
    BY SMT DEF Place
<1>2. CivilFromDays(0) = DateOf(YearOf(4, 3, 17, 1), 306)
    BY SMT, <1>1, DateOfPlace
<1> QED BY SMT, <1>2 DEF DateOf, YearOf

\* A time of a day has its date.
LEMMA LastMinute ==
    ASSUME NEW d \in Nat
    PROVE  FormatUtc(d * 86400 + 86399) = [date |-> CivilFromDays(d), hour |-> 23, minute |-> 59]
<1> DEFINE n == d * 86400 + 86399
<1>1. n \div 86400 = d /\ n % 86400 = 86399
    BY SMT
<1>2. 86399 \div 3600 = 23 /\ (86399 % 3600) \div 60 = 59
    BY SMT
<1> HIDE DEF n
<1> QED BY SMT, <1>1, <1>2 DEF FormatUtc

-----------------------------------------------------------------------------

\* The day and its date are of one calendar.
DaysInv == day \in Nat /\ CivilFromDays(day) = civil

\* The date that is shown of a day follows the one of the day before, for any
\* number of days: DatesFollow (civil_from_days and format_utc of dates.rs).
THEOREM DatesCorrect == RunSpec => []DatesFollow
<1>1. RunInit => DaysInv
    BY FirstDay DEF RunInit, DisplayInit, DaysInv
<1>2. DaysInv /\ [RunNext]_<<display, run>> => DaysInv'
  <2>1. CASE UNCHANGED display
      BY <2>1 DEF DaysInv, display
  <2>2. ASSUME DaysInv, NextDay PROVE DaysInv'
    <3>1. day \in Nat /\ day' = day + 1 /\ civil' = DayAfter(civil) /\ CivilFromDays(day) = civil
        BY <2>2 DEF DaysInv, NextDay
    <3>2. CivilFromDays(day + 1) = DayAfter(CivilFromDays(day)) /\ day + 1 \in Nat
        BY <3>1, DateOfNext
    <3> QED BY <3>1, <3>2 DEF DaysInv
  <2>3. ASSUME DaysInv, NEW m, Display(m) PROVE DaysInv'
      BY <2>3 DEF DaysInv, Display
  <2> QED BY <2>1, <2>2, <2>3 DEF RunNext, DisplayNext, display
<1>3. DaysInv => DatesFollow
  <2>1. day \in Nat =>
            FormatUtc(day * 86400 + 86399) = [date |-> CivilFromDays(day), hour |-> 23, minute |-> 59]
      BY LastMinute
  <2> QED BY SMT, <2>1 DEF DatesFollow, DaysInv
<1> QED BY <1>1, <1>2, <1>3, PTL DEF RunSpec

-----------------------------------------------------------------------------
(* Recursion over a sequence.                                               *)

\* What holds of 0 and of every number after one of which it holds, holds of all.
LEMMA Induct ==
    ASSUME NEW n \in Nat, NEW T, 0 \in T, \A i \in 1..n : i - 1 \in T => i \in T
    PROVE  0..n \subseteq T
<1> DEFINE U == (0..n) \ T
<1> SUFFICES ASSUME U # {} PROVE FALSE
    OBVIOUS
<1>1. U \subseteq Nat
    OBVIOUS
<1>2. \E i \in U : \A j \in U : ~ (<<j, i>> \in OpToRel(<, Nat))
    BY <1>1, NatLessThanWellFounded, WFMin, Zenon
<1>3. PICK i \in U : \A j \in U : ~ (j < i)
    BY <1>1, <1>2 DEF OpToRel
<1>4. i \in 1..n /\ i - 1 \in 0..n
    OBVIOUS
<1>5. i - 1 \in U /\ i - 1 < i
    BY <1>4
<1> QED BY <1>3, <1>5

Follows(f, n, first, step) == f[0] = first /\ \A i \in 1..n : f[i] = step[i][f[i - 1]]

\* A function may be defined by its first value and by each from the one before.
LEMMA Recursion ==
    ASSUME NEW n \in Nat, NEW S, NEW first \in S, NEW step \in [1..n -> [S -> S]]
    PROVE  \E f \in [0..n -> S] : Follows(f, n, first, step)
<1> DEFINE Defined(m) ==
        \E f \in [0..m -> S] : f[0] = first /\ \A i \in 1..m : f[i] = step[i][f[i - 1]]
           T == {m \in 0..n : Defined(m)}
<1>1. 0 \in T
  <2> DEFINE f == [k \in 0..0 |-> first]
  <2>1. f \in [0..0 -> S] /\ f[0] = first /\ \A i \in 1..0 : f[i] = step[i][f[i - 1]]
      OBVIOUS
  <2>2. Defined(0)
      BY <2>1
  <2> QED BY <2>2
<1>2. ASSUME NEW m \in 1..n, m - 1 \in T PROVE m \in T
  <2>1. PICK f \in [0..(m - 1) -> S] : f[0] = first /\ \A i \in 1..(m - 1) : f[i] = step[i][f[i - 1]]
      BY <1>2
  <2> DEFINE g == [k \in 0..m |-> IF k = m THEN step[m][f[m - 1]] ELSE f[k]]
  <2>2. g \in [0..m -> S]
      OBVIOUS
  <2>3. g[0] = first
      BY <2>1
  <2>4. ASSUME NEW i \in 1..m PROVE g[i] = step[i][g[i - 1]]
    <3>1. CASE i = m
        BY <3>1
    <3>2. CASE i < m
        BY <2>1, <3>2
    <3> QED BY <3>1, <3>2
  <2> HIDE DEF g
  <2>5. Defined(m)
      BY <2>2, <2>3, <2>4
  <2> HIDE DEF Defined
  <2> QED BY <2>5
<1> HIDE DEF T
<1>3. 0..n \subseteq T
    BY <1>1, <1>2, Induct
<1> QED BY <1>3 DEF T, Follows

-----------------------------------------------------------------------------
(* The words of a listing.                                                  *)

InboxStates == [name : Words \cup {None}, limit : Nat, wants : BOOLEAN, ok : BOOLEAN]

\* A word leads from a state of parse_inbox to another.
LEMMA InboxWordTyped ==
    ASSUME NEW st \in InboxStates, NEW word \in Words
    PROVE  InboxWord(st, word) \in InboxStates
<1>1. \A w \in DOMAIN Numbers : Numbers[w] \in Nat
    BY WordsAssumption
<1>2. CASE st.wants
  <2>1. CASE word \in DOMAIN Numbers
    <3>1. Numbers[word] \in Nat
        BY <1>1, <2>1
    <3> QED BY <1>2, <2>1, <3>1 DEF InboxStates, InboxWord
  <2>2. CASE word \notin DOMAIN Numbers
      BY <1>2, <2>2 DEF InboxStates, InboxWord
  <2> QED BY <2>1, <2>2
<1>3. CASE ~st.wants
    BY <1>3 DEF InboxStates, InboxWord
<1> QED BY <1>2, <1>3

\* The states of parse_inbox follow each other.
LEMMA InboxRun ==
    ASSUME NEW rest \in Seq(Words)
    PROVE  \E after \in [0..Len(rest) -> InboxStates] :
              /\ after[0] = InboxStart
              /\ \A i \in 1..Len(rest) : after[i] = InboxWord(after[i - 1], rest[i])
              /\ InboxWords(rest) = after[Len(rest)]
<1> DEFINE n == Len(rest)
           step == [i \in 1..n |-> [st \in InboxStates |-> InboxWord(st, rest[i])]]
           body(f) == [i \in 0..n |-> IF i = 0 THEN InboxStart ELSE InboxWord(f[i - 1], rest[i])]
           g == CHOOSE f : f = body(f)
<1>1. n \in Nat /\ InboxStart \in InboxStates /\ \A i \in 1..n : rest[i] \in Words
    BY DEF InboxStart, InboxStates, DEFAULT_INBOX_LIMIT
<1> HIDE DEF n
<1>2. step \in [1..n -> [InboxStates -> InboxStates]]
    BY <1>1, InboxWordTyped
<1>3. PICK f \in [0..n -> InboxStates] : Follows(f, n, InboxStart, step)
  <2> HIDE DEF step
  <2> QED BY <1>1, <1>2, Recursion
<1>4. \A i \in 1..n : f[i] = InboxWord(f[i - 1], rest[i])
  <2> SUFFICES ASSUME NEW i \in 1..n PROVE f[i] = InboxWord(f[i - 1], rest[i])
      OBVIOUS
  <2>1. f[i] = step[i][f[i - 1]]
      BY <1>3 DEF Follows
  <2>2. f[i - 1] \in InboxStates
    <3>1. i - 1 \in 0..n
        BY <1>1
    <3> QED BY <3>1
  <2> QED BY <2>1, <2>2
<1>5. f = body(f)
    BY <1>1, <1>3, <1>4 DEF Follows
<1>6. g = body(g)
    BY <1>5
<1> HIDE DEF g
<1>7. /\ DOMAIN g = 0..n
      /\ g[0] = InboxStart /\ \A i \in 1..n : g[i] = InboxWord(g[i - 1], rest[i])
    BY <1>1, <1>6
<1> DEFINE T == {i \in 0..n : g[i] \in InboxStates}
<1>8. 0 \in T /\ \A i \in 1..n : i - 1 \in T => i \in T
    BY <1>1, <1>7, InboxWordTyped
<1>9. g \in [0..n -> InboxStates]
  <2>1. 0..n \subseteq T
    <3> HIDE DEF T
    <3> QED BY <1>1, <1>8, Induct
  <2>2. g = body(g) /\ \A i \in 0..n : g[i] \in InboxStates
      BY <1>6, <2>1
  <2> QED BY <2>2
<1>10. InboxWords(rest) = g[n]
    BY DEF InboxWords, g, n
<1> QED BY <1>7, <1>9, <1>10 DEF n

\* The words among the first k that name something, by themselves.
NamesIn(rest, k) ==
    {rest[j] : j \in {i \in 1..k : rest[i] # "--limit" /\ (i = 1 \/ rest[i - 1] # "--limit")}}

\* What parse_inbox knows after k words, if it refused none of them.
Knows(st, rest, k) ==
    st.ok => /\ NamesIn(rest, k) = IF st.name = None THEN {} ELSE {st.name}
             /\ st.wants <=> (k > 0 /\ rest[k] = "--limit")
             /\ st.limit \in 1..500
             /\ st.name \in Words \cup {None}

\* What is known grows with each word.
LEMMA KnowsMore ==
    ASSUME NEW rest \in Seq(Words), NEW k \in 1..Len(rest), NEW st \in InboxStates,
           Knows(st, rest, k - 1)
    PROVE  Knows(InboxWord(st, rest[k]), rest, k)
<1> DEFINE word == rest[k]
           next == InboxWord(st, word)
<1>0. word \in Words /\ word # None
    BY WordsAssumption
<1> SUFFICES ASSUME next.ok
             PROVE  /\ NamesIn(rest, k) = IF next.name = None THEN {} ELSE {next.name}
                    /\ next.wants <=> word = "--limit"
                    /\ next.limit \in 1..500
                    /\ next.name \in Words \cup {None}
  <2>1. InboxWord(st, rest[k]) = next /\ rest[k] = word /\ k > 0
      OBVIOUS
  <2> HIDE DEF next, word
  <2> QED BY <2>1 DEF Knows
<1>1. st.ok
    BY DEF InboxWord, InboxStates
<1>2. /\ NamesIn(rest, k - 1) = IF st.name = None THEN {} ELSE {st.name}
      /\ st.wants <=> (k - 1 > 0 /\ rest[k - 1] = "--limit")
      /\ st.limit \in 1..500
      /\ st.name \in Words \cup {None}
    BY <1>1 DEF Knows
<1>3. NamesIn(rest, k) = IF word # "--limit" /\ (k = 1 \/ rest[k - 1] # "--limit")
                         THEN NamesIn(rest, k - 1) \cup {word} ELSE NamesIn(rest, k - 1)
    BY DEF NamesIn
<1>4. CASE st.wants
  <2>1. next = [st EXCEPT !.wants = FALSE,
                          !.ok = @ /\ word \in DOMAIN Numbers /\ Numbers[word] \in 1..500,
                          !.limit = IF word \in DOMAIN Numbers THEN Numbers[word] ELSE @]
      BY <1>4 DEF InboxWord
  <2>2. word \in DOMAIN Numbers /\ Numbers[word] \in 1..500
      BY <2>1 DEF InboxStates
  <2>3. word # "--limit"
      BY <2>2, WordsAssumption
  <2>4. next.name = st.name /\ next.wants = FALSE /\ next.limit = Numbers[word]
      BY <2>1, <2>2 DEF InboxStates
  <2> HIDE DEF next, word
  <2>5. NamesIn(rest, k) = NamesIn(rest, k - 1)
      BY <1>2, <1>3, <1>4
  <2> QED BY <1>2, <2>2, <2>3, <2>4, <2>5
<1>5. CASE ~ st.wants /\ word = "--limit"
  <2>1. next.name = st.name /\ next.wants = TRUE /\ next.limit = st.limit
      BY <1>5 DEF InboxWord, InboxStates
  <2> HIDE DEF next, word
  <2> QED BY <1>2, <1>3, <1>5, <2>1
<1>6. CASE ~ st.wants /\ word # "--limit"
  <2>1. /\ next.name = word /\ next.wants = FALSE /\ next.limit = st.limit
        /\ st.name = None
      BY <1>6 DEF InboxWord, InboxStates
  <2>2. k = 1 \/ rest[k - 1] # "--limit"
      BY <1>2, <1>6
  <2> HIDE DEF next, word
  <2>3. NamesIn(rest, k) = {word}
    <3>1. NamesIn(rest, k - 1) = {}
        BY <1>2, <2>1
    <3>2. NamesIn(rest, k) = NamesIn(rest, k - 1) \cup {word}
        BY <1>3, <1>6, <2>2
    <3> QED BY <3>1, <3>2
  <2>4. next.name # None /\ next.name \in Words \cup {None}
      BY <1>0, <2>1
  <2>5. next.wants <=> word = "--limit"
      BY <1>6, <2>1
  <2>6. next.limit \in 1..500
      BY <1>2, <2>1
  <2> QED BY <2>1, <2>3, <2>4, <2>5, <2>6
<1> QED BY <1>4, <1>5, <1>6

\* It is known of all the words at the end.
LEMMA InboxWordsKnow ==
    ASSUME NEW rest \in Seq(Words)
    PROVE  Knows(InboxWords(rest), rest, Len(rest))
<1> DEFINE n == Len(rest)
<1>1. n \in Nat
    OBVIOUS
<1>2. PICK after \in [0..n -> InboxStates] :
         /\ after[0] = InboxStart
         /\ \A i \in 1..n : after[i] = InboxWord(after[i - 1], rest[i])
         /\ InboxWords(rest) = after[n]
    BY InboxRun
<1> DEFINE T == {i \in 0..n : Knows(after[i], rest, i)}
<1>3. 0 \in T
  <2>1. NamesIn(rest, 0) = {}
      BY DEF NamesIn
  <2>2. Knows(InboxStart, rest, 0)
      BY <2>1 DEF Knows, InboxStart, DEFAULT_INBOX_LIMIT
  <2> QED BY <1>1, <1>2, <2>2
<1>4. ASSUME NEW i \in 1..n, i - 1 \in T PROVE i \in T
  <2>1. after[i] = InboxWord(after[i - 1], rest[i]) /\ after[i - 1] \in InboxStates
      BY <1>1, <1>2
  <2>2. Knows(after[i], rest, i)
      BY <1>4, <2>1, KnowsMore
  <2> QED BY <1>1, <2>2
<1> HIDE DEF n, T
<1>5. 0..n \subseteq T
    BY <1>1, <1>3, <1>4, Induct
<1> QED BY <1>1, <1>2, <1>5 DEF T, n

\* The words of a line that name something.
NamedBy(words) ==
    {words[i] : i \in {j \in 2..Len(words) :
                          /\ words[j] # "--limit" /\ words[j - 1] # "--limit"
                          /\ ~(words[1] = "account" /\ j = 2)}}

\* A line that is taken for a listing.
LEMMA ListingNames ==
    ASSUME NEW words \in Seq(Words), words # <<>>, words[1] = "inbox",
           ParseInbox(Tail(words)) # None
    PROVE  LET c == ParseInbox(Tail(words))
           IN  /\ c.verb = "inbox" /\ c.limit \in 1..500
               /\ NamedBy(words) = IF c.name = None THEN {} ELSE {c.name}
<1> DEFINE rest == Tail(words)
           n == Len(rest)
           st == InboxWords(rest)
<1>1. rest \in Seq(Words) /\ n \in Nat /\ Len(words) = n + 1 /\ \A i \in 1..n : rest[i] = words[i + 1]
    OBVIOUS
<1>2. Knows(st, rest, n)
    BY <1>1, InboxWordsKnow
<1>3. st.ok /\ ParseInbox(rest) = Command("inbox", st.name, st.limit)
    BY DEF ParseInbox
<1>4. NamesIn(rest, n) = NamedBy(words)
  <2> HIDE DEF rest
  <2>1. ASSUME NEW x \in NamesIn(rest, n) PROVE x \in NamedBy(words)
    <3>1. PICK i \in 1..n : x = rest[i] /\ rest[i] # "--limit" /\ (i = 1 \/ rest[i - 1] # "--limit")
        BY <2>1 DEF NamesIn
    <3>2. words[i] # "--limit"
      <4>1. CASE i = 1
          BY <4>1
      <4>2. CASE i # 1
        <5>1. i - 1 \in 1..n /\ (i - 1) + 1 = i
            BY <1>1, <4>2
        <5> QED BY <1>1, <3>1, <4>2, <5>1
      <4> QED BY <4>1, <4>2
    <3>3. i + 1 \in 2..Len(words) /\ x = words[i + 1] /\ words[i + 1] # "--limit" /\ (i + 1) - 1 = i
        BY <1>1, <3>1
    <3> QED BY <3>2, <3>3 DEF NamedBy
  <2>2. ASSUME NEW x \in NamedBy(words) PROVE x \in NamesIn(rest, n)
    <3>1. PICK j \in 2..Len(words) : x = words[j] /\ words[j] # "--limit" /\ words[j - 1] # "--limit"
        BY <2>2 DEF NamedBy
    <3>2. j - 1 \in 1..n /\ x = rest[j - 1] /\ rest[j - 1] # "--limit"
          /\ (j - 1 = 1 \/ rest[(j - 1) - 1] # "--limit")
        BY <1>1, <3>1
    <3> QED BY <3>2 DEF NamesIn
  <2> QED BY <2>1, <2>2
<1>5. st.limit \in 1..500 /\ NamesIn(rest, n) = IF st.name = None THEN {} ELSE {st.name}
    BY <1>2, <1>3 DEF Knows
<1> HIDE DEF st, n
<1>6. LET c == Command("inbox", st.name, st.limit)
      IN  c.verb = "inbox" /\ c.name = st.name /\ c.limit = st.limit
    BY DEF Command
<1> QED BY <1>3, <1>4, <1>5, <1>6

\* What a line is taken for, and what it names.
MeansWhatItNames(words, c) ==
    /\ c.verb = "add" => words = <<"account", "add">>
    /\ c.verb = "inbox" =>
          words[1] = "inbox" /\ c.limit \in 1..500
             /\ NamedBy(words) = IF c.name = None THEN {} ELSE {c.name}
    /\ c.verb = "sync" =>
          /\ words[1] = "sync" /\ NamedBy(words) \subseteq {c.name}
          /\ c.name = None => NamedBy(words) = {}
          /\ c.name \notin {None, "--limit"} => NamedBy(words) = {c.name}
    /\ c.verb = "remove" => words[1] = "account" /\ NamedBy(words) \subseteq {c.name}

\* A line that is understood names what its command works on.
LEMMA ParseNames ==
    ASSUME NEW words \in Seq(Words), Parse(words) # None
    PROVE  MeansWhatItNames(words, Parse(words))
<1> DEFINE c == Parse(words)
           plain(verb) == Command(verb, None, DEFAULT_INBOX_LIMIT)
<1>0. \A i \in 1..Len(words) : words[i] \in Words /\ words[i] # None
    BY WordsAssumption
<1>1. CASE words # <<>> /\ words[1] = "inbox"
  <2>1. c = ParseInbox(Tail(words))
    <3>1. words[1] \notin {"help", "-h", "--help", "version", "-V", "--version", "sync", "doctor",
                           "account"}
        BY <1>1
    <3> QED BY <1>1, <3>1 DEF Parse
  <2>2. /\ c.verb = "inbox" /\ c.limit \in 1..500
        /\ NamedBy(words) = IF c.name = None THEN {} ELSE {c.name}
    <3> DEFINE q == ParseInbox(Tail(words))
    <3> HIDE DEF c
    <3>1. q # None
        BY <2>1 DEF c
    <3>2. /\ q.verb = "inbox" /\ q.limit \in 1..500
          /\ NamedBy(words) = IF q.name = None THEN {} ELSE {q.name}
        BY <1>1, <3>1, ListingNames, Zenon
    <3> QED BY <2>1, <3>2
  <2>3. MeansWhatItNames(words, c)
    <3> HIDE DEF c
    <3> QED BY <1>1, <2>2 DEF MeansWhatItNames
  <2> QED BY <2>3
<1>2. CASE Len(words) = 2 /\ words[1] = "sync"
  <2>1. c = Command("sync", words[2], DEFAULT_INBOX_LIMIT)
      BY <1>2 DEF Parse
  <2>2. NamedBy(words) = IF words[2] = "--limit" THEN {} ELSE {words[2]}
      BY <1>2 DEF NamedBy
  <2> QED BY <1>0, <1>2, <2>1, <2>2 DEF MeansWhatItNames, Command
<1>3. CASE Len(words) = 3 /\ words[1] = "account" /\ words[2] = "remove"
  <2>1. c = Command("remove", words[3], DEFAULT_INBOX_LIMIT)
      BY <1>3 DEF Parse
  <2>2. NamedBy(words) \subseteq {words[3]}
      BY <1>3 DEF NamedBy
  <2> QED BY <1>3, <2>1, <2>2 DEF MeansWhatItNames, Command
<1>4. CASE Len(words) = 1 /\ words[1] = "sync"
  <2>1. c = plain("sync")
      BY <1>4 DEF Parse
  <2>2. NamedBy(words) = {}
      BY <1>4 DEF NamedBy
  <2> QED BY <1>4, <2>1, <2>2 DEF MeansWhatItNames, Command
<1>5. CASE Len(words) = 2 /\ words[1] = "account" /\ words[2] = "add"
  <2>1. c = plain("add") /\ words = <<"account", "add">>
      BY <1>5 DEF Parse
  <2> QED BY <2>1 DEF MeansWhatItNames, Command
<1>6. CASE /\ ~ (words # <<>> /\ words[1] = "inbox")
           /\ ~ (Len(words) = 2 /\ words[1] = "sync")
           /\ ~ (Len(words) = 3 /\ words[1] = "account" /\ words[2] = "remove")
           /\ ~ (Len(words) = 1 /\ words[1] = "sync")
           /\ ~ (Len(words) = 2 /\ words[1] = "account" /\ words[2] = "add")
  <2>1. c \in {plain(verb) : verb \in {"help", "version", "doctor", "list"}}
      BY <1>6 DEF Parse
  <2> QED BY <2>1 DEF MeansWhatItNames, Command
<1> QED BY <1>1, <1>2, <1>3, <1>4, <1>5, <1>6

-----------------------------------------------------------------------------
(* Accounts.                                                                *)

\* An account is the one, of those there are, that a name is the beginning of.
Singles(raw, a) ==
    /\ a \in Accounts /\ raw \in DOMAIN Spelling /\ IsPrefix(Spelling[raw], Spelling[a])
    /\ \A b \in Range(accounts) \ {a} : ~ IsPrefix(Spelling[raw], Spelling[b])

\* An account that is found is the only one.
LEMMA Resolved ==
    ASSUME NEW raw, accounts \in Seq(Accounts), ResolveAccount(raw) # None
    PROVE  Singles(raw, ResolveAccount(raw)) /\ ResolveAccount(raw) \in Range(accounts)
<1> DEFINE M == Matches(raw)
<1>1. Range(accounts) \subseteq Accounts
    BY DEF Range
<1>2. M \subseteq Range(accounts) /\ M \in SUBSET Accounts
    BY <1>1 DEF Matches
<1>3. IsFiniteSet(M)
  <2> HIDE DEF M
  <2> QED BY <1>2, FS_Subset, AccountsAssumption
<1>4. Cardinality(M) = 1
    BY DEF ResolveAccount
<1>5. PICK a : M = {a}
  <2> HIDE DEF M
  <2> QED BY <1>3, <1>4, FS_Singleton
<1>6. ResolveAccount(raw) = a
    BY <1>4, <1>5 DEF ResolveAccount
<1> QED BY <1>1, <1>5, <1>6 DEF Singles, Matches

\* An option singles out none.
LEMMA OptionNamesNone == ResolveAccount("--limit") = None
<1>1. Matches("--limit") = {}
    BY WordsAssumption DEF Matches
<1> QED BY <1>1, FS_EmptySet DEF ResolveAccount

\* What is not there, or is not blank, is what a configuration gives.
Configured(c) == c \in [id : {"absent", "set"}, secret : {"absent", "set"}]

\* Whatever the file and the environment say.
LEMMA ConfiguredClients ==
    ASSUME NEW section \in ClientTexts, NEW env \in ClientTexts
    PROVE  Configured(ConfiguredClient(section, env))
BY DEF ClientTexts, Settings, Configured, ConfiguredClient, Setting, Given

LEMMA Between == \A lo \in Nat, hi \in Int : \A n \in lo..hi : n \in Nat /\ n >= lo
OBVIOUS

\* A client that has an id goes through every later validation.
LEMMA ClientPasses ==
    ASSUME NEW c, Configured(c), OAuthClient(c)
    PROVE  Runtime(c) /\ RefreshClientConfig(c) /\ \A port \in Ports : BeginAuthorization(c, port)
<1>1. c.id = "set" /\ c.secret # "blank"
    BY DEF Configured, OAuthClient
<1>2. Runtime(c)
    BY <1>1 DEF Runtime, OAuthClient, BrokerCore, SESSION_TTL, MAX_SESSION_TTL
<1>3. RefreshClientConfig(c)
    BY <1>1 DEF RefreshClientConfig, TokenClientConfig, Plain, Url
<1>4. ASSUME NEW port \in Ports PROVE BeginAuthorization(c, port)
  <2>1. port \in Nat /\ port >= 1024
    <3> DEFINE top == 65535
    <3>1. Ports \subseteq MIN_LOOPBACK_PORT..top
        BY SMT, PortAssumption
    <3>2. MIN_LOOPBACK_PORT = 1024 /\ MIN_LOOPBACK_PORT \in Nat /\ top \in Int
        BY SMT DEF MIN_LOOPBACK_PORT
    <3> HIDE DEF top
    <3>3. port \in Nat /\ port >= MIN_LOOPBACK_PORT
        BY <3>1, <3>2, Between
    <3> QED BY SMT, <3>2, <3>3
  <2> DEFINE url == [port |-> port, beside |-> {}]
  <2>2. RedirectUri(port) = url
      BY DEF RedirectUri, Url
  <2>3. url.port = port /\ url.beside = {} /\ port # 80
      BY <2>1
  <2>4. Parsed(url) = url
    <3>1. Parsed(url) = [url EXCEPT !.port = port]
        BY <2>3 DEF Parsed, HTTP_PORT
    <3> QED BY <3>1
  <2> HIDE DEF url
  <2>5. ParseLoopbackRedirect(url) /\ Plain(url)
      BY <2>1, <2>3, <2>4 DEF ParseLoopbackRedirect, Plain, MIN_LOOPBACK_PORT
  <2> QED BY <1>1, <2>2, <2>4, <2>5 DEF BeginAuthorization, AuthorizationConfig, TokenClientConfig, SESSION_TTL
<1> QED BY <1>2, <1>3, <1>4

\* An account is registered once, at the end.
LEMMA Registered ==
    ASSUME NEW s \in Seq(Accounts), IsInjective(s), NEW a \in Accounts, a \notin Range(s)
    PROVE  Append(s, a) \in Seq(Accounts) /\ IsInjective(Append(s, a)) /\ Append(s, a) # <<>>
BY DEF IsInjective, Range

\* What is behind the first of two sequences.
LEMMA InSecond ==
    ASSUME NEW s \in Seq(Accounts), NEW t \in Seq(Accounts),
           NEW j \in (Len(s) + 1)..(Len(s) + Len(t))
    PROVE  (s \o t)[j] = t[j - Len(s)]
  OBVIOUS

\* What is left when the i-th is taken out.
LEMMA TakenOut ==
    ASSUME NEW s \in Seq(Accounts), IsInjective(s), NEW i \in DOMAIN s
    PROVE  /\ RemoveAt(s, i) \in Seq(Accounts) /\ IsInjective(RemoveAt(s, i))
           /\ Range(RemoveAt(s, i)) = Range(s) \ {s[i]}
<1> DEFINE r == RemoveAt(s, i)
           place(j) == IF j < i THEN j ELSE j + 1
           before == SubSeq(s, 1, i - 1)
           after == SubSeq(s, i + 1, Len(s))
<1>1. i \in 1..Len(s) /\ Len(s) \in Nat
    OBVIOUS
<1>2. before \in Seq(Accounts) /\ after \in Seq(Accounts)
    BY <1>1
<1>3. Len(before) = i - 1 /\ Len(after) = Len(s) - i
    BY <1>1
<1>4. r = before \o after
    BY DEF RemoveAt
<1>5. /\ \A k \in 1..(i - 1) : before[k] = s[k]
      /\ \A k \in 1..(Len(s) - i) : after[k] = s[i + k]
    BY <1>1
<1> HIDE DEF r, before, after
<1>6. r \in Seq(Accounts) /\ Len(r) = Len(s) - 1
    BY <1>1, <1>2, <1>3, <1>4
<1>7. ASSUME NEW j \in 1..(Len(s) - 1)
      PROVE  r[j] = s[place(j)] /\ place(j) \in 1..Len(s) /\ place(j) # i
  <2>1. place(j) \in 1..Len(s) /\ place(j) # i
      BY <1>1
  <2>2. CASE j < i
    <3>1. j \in 1..(i - 1)
        BY <1>1, <2>2
    <3>2. r[j] = before[j]
        BY <1>2, <1>3, <1>4, <3>1
    <3>3. r[j] = s[j]
        BY <1>5, <3>1, <3>2, Zenon
    <3> QED BY <2>1, <2>2, <3>3
  <2>3. CASE ~ (j < i)
    <3>1. j - (i - 1) \in 1..(Len(s) - i) /\ i + (j - (i - 1)) = j + 1
        BY <1>1, <2>3
    <3>2. j \in (Len(before) + 1)..(Len(before) + Len(after))
        BY <1>1, <1>3, <2>3
    <3>3. r[j] = after[j - Len(before)]
        BY <1>2, <1>4, <3>2, InSecond, Zenon
    <3>4. r[j] = s[j + 1]
        BY <1>3, <1>5, <3>1, <3>3
    <3> QED BY <2>1, <2>3, <3>4
  <2> QED BY <2>2, <2>3
<1>8. ASSUME NEW k \in 1..Len(s), k # i
      PROVE  \E j \in 1..(Len(s) - 1) : place(j) = k
  <2>1. CASE k < i
    <3>1. k \in 1..(Len(s) - 1) /\ place(k) = k
        BY <1>1, <2>1
    <3> QED BY <3>1
  <2>2. CASE k > i
    <3>1. k - 1 \in 1..(Len(s) - 1) /\ place(k - 1) = k
        BY <1>1, <2>2
    <3> QED BY <3>1
  <2> QED BY <1>1, <1>8, <2>1, <2>2
<1>9. \A j, k \in 1..(Len(s) - 1) : place(j) = place(k) => j = k
    BY <1>1
<1>10. DOMAIN r = 1..(Len(s) - 1) /\ DOMAIN s = 1..Len(s)
    BY <1>6
<1> HIDE DEF place
<1>11. IsInjective(r)
  <2> SUFFICES ASSUME NEW j \in 1..(Len(s) - 1), NEW k \in 1..(Len(s) - 1), r[j] = r[k]
               PROVE  j = k
      BY <1>10, Zenon DEF IsInjective
  <2>1. s[place(j)] = s[place(k)] /\ place(j) \in DOMAIN s /\ place(k) \in DOMAIN s
      BY <1>7, <1>10, Zenon
  <2>2. place(j) = place(k)
      BY <2>1, Zenon DEF IsInjective
  <2> QED BY <1>9, <2>2, Zenon
<1>12. Range(r) = Range(s) \ {s[i]}
  <2>1. ASSUME NEW j \in 1..(Len(s) - 1) PROVE r[j] \in Range(s) /\ r[j] # s[i]
    <3>1. r[j] = s[place(j)] /\ place(j) \in DOMAIN s /\ place(j) # i
        BY <1>7, <1>10, Zenon
    <3> QED BY <3>1, Zenon DEF Range, IsInjective
  <2>2. ASSUME NEW k \in 1..Len(s), s[k] # s[i] PROVE s[k] \in Range(r)
    <3>1. PICK j \in 1..(Len(s) - 1) : place(j) = k
        BY <1>8, <2>2
    <3>2. r[j] = s[k] /\ j \in DOMAIN r
        BY <1>7, <1>10, <3>1, Zenon
    <3> QED BY <3>2, Zenon DEF Range
  <2>3. ASSUME NEW a \in Range(r) PROVE a \in Range(s) \ {s[i]}
      BY <1>10, <2>1, Zenon DEF Range
  <2>4. ASSUME NEW a \in Range(s) \ {s[i]} PROVE a \in Range(r)
      BY <1>10, <2>2, Zenon DEF Range
  <2> QED BY <2>3, <2>4, Zenon
<1> QED BY <1>6, <1>11, <1>12 DEF r

\* The first and the others.
LEMMA FirstAndOthers ==
    ASSUME NEW s \in Seq(Accounts), s # <<>>
    PROVE  /\ Tail(s) \in Seq(Accounts) /\ Head(s) \in Range(s)
           /\ Range(s) = {Head(s)} \cup Range(Tail(s))
<1>1. \A i \in 1..Len(s) : i = 1 \/ (i - 1 \in 1..Len(Tail(s)) /\ s[i] = Tail(s)[i - 1])
    OBVIOUS
<1>2. \A i \in 1..Len(Tail(s)) : i + 1 \in 1..Len(s) /\ Tail(s)[i] = s[i + 1]
    OBVIOUS
<1>3. 1 \in 1..Len(s) /\ Head(s) = s[1] /\ Tail(s) \in Seq(Accounts)
    OBVIOUS
<1>4. ASSUME NEW a \in Range(s) PROVE a = Head(s) \/ a \in Range(Tail(s))
  <2>1. PICK i \in 1..Len(s) : a = s[i]
      BY <1>4 DEF Range
  <2>2. CASE i = 1
      BY <1>3, <2>1, <2>2
  <2>3. CASE i - 1 \in 1..Len(Tail(s)) /\ s[i] = Tail(s)[i - 1]
    <3>1. i - 1 \in DOMAIN Tail(s)
        BY <1>3, <2>3
    <3> QED BY <2>1, <2>3, <3>1 DEF Range
  <2> QED BY <1>1, <2>2, <2>3
<1>5. Head(s) \in Range(s)
    BY <1>3 DEF Range
<1>6. ASSUME NEW a \in Range(Tail(s)) PROVE a \in Range(s)
  <2>1. PICK i \in 1..Len(Tail(s)) : a = Tail(s)[i]
      BY <1>3, <1>6 DEF Range
  <2> QED BY <1>2, <2>1 DEF Range
<1> QED BY <1>3, <1>4, <1>5, <1>6

Closed == storage \in {"absent", "locked", "ready"}
Asks(verb) == asked # None /\ asked.verb = verb

RunTypeOK ==
    /\ argv \in Seq(Words) \cup {None}
    /\ client = None \/ Configured(client)
    /\ refused \in BOOLEAN
    /\ storage \in {"absent", "locked", "ready", "opened", "created"}
    /\ accounts \in Seq(Accounts) /\ IsInjective(accounts)
    /\ todo \in Seq(Accounts)
    /\ exit \in {"none", "success", "failure", "usage"}

\* Before the words are read nothing happened; where they mean nothing, or as
\* long as the installation is closed, no account is worked on.
Sequence ==
    /\ argv = None => Closed /\ exit = "none" /\ client = None
    /\ argv # None => asked = Parse(argv) /\ (asked = None => exit = "usage")
    /\ exit = "usage" => Closed
    /\ Closed => touched = {} /\ failed = {} /\ todo = <<>>

\* A client that is refused ends the command before any account; the one of a
\* command that went on has an id.
Refusals ==
    /\ refused => exit = "failure" /\ touched = {}
    /\ todo # <<>> => Asks("sync") /\ client # None /\ OAuthClient(client)
    /\ Asks("add") /\ ~ Closed => client # None /\ OAuthClient(client) /\ ~ refused

Adds ==
    /\ storage = "created" => Asks("add")
    /\ Asks("add") /\ exit = "success" => accounts # <<>>

Syncs ==
    Asks("sync") /\ ~ Closed =>
        \/ touched = {} /\ todo = <<>> /\ exit = "failure"
        \/ /\ asked.name = None \/ ResolveAccount(asked.name) # None
           /\ touched \cup Range(todo) = Range(Targets)
           /\ exit = "success" => failed = {} /\ todo = <<>>

Removes ==
    Asks("remove") =>
        /\ touched # {} => \E a \in Accounts : touched = {a} /\ Singles(asked.name, a)
        /\ exit = "success" => touched # {} /\ touched \cap Range(accounts) = {}

Lists ==
    Asks("inbox") =>
        /\ touched # {} => Shown # None /\ touched = {Shown}
        /\ exit = "success" =>
              /\ cached \in Inboxes
              /\ printed = [i \in 1..Len(cached) \cap 1..asked.limit |-> LineOf(cached[i])]

Works == touched # {} => Asks("sync") \/ Asks("remove") \/ Asks("inbox")

RunInv == RunTypeOK /\ Sequence /\ Refusals /\ Adds /\ Syncs /\ Removes /\ Lists /\ Works

\* A command that is ready was understood, with a client nobody refused.
LEMMA ReadyOnes ==
    ASSUME RunInv, NEW verb, Ready(verb)
    PROVE  /\ argv # None /\ asked # None /\ asked.verb = verb /\ exit = "none"
           /\ client # None /\ Configured(client) /\ refused = FALSE
BY DEF RunInv, RunTypeOK, Sequence, Refusals, Ready

\* What a name stands for is the same among the same accounts.
LEMMA Kept ==
    ASSUME asked' = asked, accounts' = accounts
    PROVE  /\ Targets' = Targets /\ Shown' = Shown
           /\ ResolveAccount(asked.name)' = ResolveAccount(asked.name)
           /\ \A a : Singles(asked.name, a)' <=> Singles(asked.name, a)
           /\ \A verb : Asks(verb)' <=> Asks(verb)
BY DEF Targets, Shown, ResolveAccount, Matches, Singles, Asks

\* The words are read.
LEMMA MainKeeps ==
    ASSUME RunInv, NEW words \in SeqOf(Words, MaxWords), Main(words)
    PROVE  RunInv'
<1>1. words \in Seq(Words) /\ words # None
    BY WordsAssumption DEF SeqOf
<1>2. argv = None /\ argv' = words /\ asked' = Parse(words)
    BY DEF Main
<1>3. exit' \in {"usage", "success", "none"} /\ (asked' = None <=> exit' = "usage")
      /\ (exit' = "success" => ~ Asks("add")' /\ ~ Asks("remove")' /\ ~ Asks("inbox")')
    BY DEF Main, Asks
<1>4. RunTypeOK'
    BY <1>1, <1>2, <1>3 DEF RunInv, RunTypeOK, Main
<1>5. Sequence' /\ Closed' /\ touched' = {} /\ todo' = <<>> /\ refused' = FALSE /\ storage' # "created"
    BY <1>1, <1>2, <1>3 DEF RunInv, RunTypeOK, Sequence, Refusals, Main, Closed
<1>6. Refusals' /\ Adds' /\ Works'
    BY <1>3, <1>5 DEF Refusals, Adds, Works
<1>7. Syncs' /\ Removes' /\ Lists'
    BY <1>3, <1>5 DEF Syncs, Removes, Lists
<1> QED BY <1>4, <1>5, <1>6, <1>7 DEF RunInv

\* The configuration is read.
LEMMA LoadKeeps ==
    ASSUME RunInv, NEW discovered \in BOOLEAN, NEW read \in FileConfig,
           NEW section \in ClientTexts, NEW env \in ClientTexts,
           Load(discovered, read, section, env)
    PROVE  RunInv'
<1>1. Unset \in ClientTexts
    BY DEF Unset, ClientTexts, Settings
<1>2. Configured(client')
    BY <1>1, ConfiguredClients DEF Load
<1>3. argv # None /\ exit = "none" /\ client = None /\ exit' \in {"none", "failure"}
    BY DEF Load
<1>4. Targets' = Targets /\ Shown' = Shown
      /\ ResolveAccount(asked.name)' = ResolveAccount(asked.name)
      /\ (\A a : Singles(asked.name, a)' <=> Singles(asked.name, a))
      /\ \A verb : Asks(verb)' <=> Asks(verb)
    BY Kept DEF Load
<1>5. RunTypeOK'
    BY <1>2, <1>3 DEF RunInv, RunTypeOK, Load
<1>6. Sequence'
    BY <1>3 DEF RunInv, Sequence, Load, Closed
<1>7. Refusals' /\ Adds' /\ Works'
    BY <1>3, <1>4 DEF RunInv, Refusals, Adds, Works, Load, Closed
<1>8. Syncs' /\ Removes' /\ Lists'
    BY <1>3, <1>4 DEF RunInv, Syncs, Removes, Lists, Load, Closed
<1> QED BY <1>5, <1>6, <1>7, <1>8 DEF RunInv

\* An action that leaves the accounts and its own work alone.
Looks == UNCHANGED <<argv, asked, client, accounts, todo, touched, failed, cached, printed>>

\* A command that ends without having worked on an account, whichever it is.
LEMMA EndsIdle ==
    ASSUME RunInv, NEW verb, Ready(verb), Looks, touched = {}, todo = <<>>,
           exit' = "failure" \/ (exit' = "success" /\ verb \in {"list", "doctor"}),
           storage' = storage \/ (storage \in {"absent", "ready"} /\ storage' = "opened")
              \/ (verb = "add" /\ storage = "absent" /\ storage' = "created"),
           refused' = FALSE \/ (refused' = TRUE /\ exit' = "failure" /\ (verb = "add" => Closed')),
           verb = "add" => Closed' \/ OAuthClient(client)
    PROVE  RunInv'
<1>1. /\ argv # None /\ asked # None /\ asked.verb = verb /\ exit = "none"
      /\ client # None /\ Configured(client) /\ refused = FALSE
    BY ReadyOnes
<1>2. /\ Targets' = Targets /\ Shown' = Shown
      /\ ResolveAccount(asked.name)' = ResolveAccount(asked.name)
      /\ \A a : Singles(asked.name, a)' <=> Singles(asked.name, a)
      /\ \A v : Asks(v)' <=> Asks(v)
    BY Kept DEF Looks
<1>3. Asks(verb) /\ \A v : Asks(v) => v = verb
    BY <1>1 DEF Asks
<1>4. RunTypeOK'
    BY <1>1 DEF RunInv, RunTypeOK, Looks, Closed
<1>5. Sequence'
    BY <1>1 DEF RunInv, RunTypeOK, Sequence, Looks, Closed
<1>6. Refusals'
    BY <1>1, <1>2, <1>3 DEF RunInv, RunTypeOK, Refusals, Looks, Closed
<1>7. Adds' /\ Works'
    BY <1>1, <1>2, <1>3 DEF RunInv, RunTypeOK, Adds, Works, Looks, Closed
<1>8. Syncs' /\ Removes' /\ Lists'
    BY <1>1, <1>2, <1>3 DEF RunInv, Syncs, Removes, Lists, Looks, Closed
<1> QED BY <1>4, <1>5, <1>6, <1>7, <1>8 DEF RunInv

\* A sign-in that is refused before anything is opened.
LEMMA AddRefusedKeeps == ASSUME RunInv, AddRefused PROVE RunInv'
<1>1. Ready("add") /\ Closed /\ Closed' /\ exit' = "failure" /\ refused' \in BOOLEAN /\ Looks
      /\ storage' = storage
    BY DEF AddRefused, Closed, End, Looks
<1>2. touched = {} /\ todo = <<>>
    BY <1>1 DEF RunInv, Sequence
<1> QED BY <1>1, <1>2, EndsIdle

\* The list of the accounts.
LEMMA ListKeeps == ASSUME RunInv, List PROVE RunInv'
<1>1. Ready("list") /\ Looks /\ refused' = refused /\ exit' \in {"failure", "success"}
      /\ (storage' = storage \/ (storage = "ready" /\ storage' = "opened"))
    BY DEF List, End, Looks
<1>2. touched = {} /\ todo = <<>> /\ refused = FALSE
  <2>1. asked # None /\ asked.verb = "list" /\ refused = FALSE
      BY <1>1, ReadyOnes
  <2> QED BY <2>1 DEF RunInv, Works, Asks, Refusals
<1> QED BY <1>1, <1>2, EndsIdle

\* A command where there is no installation.
LEMMA NotInstalledKeeps == ASSUME RunInv, NotInstalled PROVE RunInv'
<1>1. PICK verb \in {"remove", "sync", "inbox"} : Ready(verb)
    BY DEF NotInstalled
<1>2. Closed /\ Looks /\ refused' = refused /\ exit' = "failure" /\ storage' = storage
    BY DEF NotInstalled, End, Looks, Closed
<1>3. touched = {} /\ todo = <<>> /\ refused = FALSE
    BY <1>1, <1>2, ReadyOnes DEF RunInv, Sequence
<1> QED BY <1>1, <1>2, <1>3, EndsIdle

\* The doctor only looks.
LEMMA DoctorKeeps == ASSUME RunInv, Doctor PROVE RunInv'
<1>1. Ready("doctor") /\ Looks /\ refused' = refused /\ exit' = "success" /\ storage' = storage
    BY DEF Doctor, End, Looks
<1>2. touched = {} /\ todo = <<>> /\ refused = FALSE
  <2>1. asked # None /\ asked.verb = "doctor" /\ refused = FALSE
      BY <1>1, ReadyOnes
  <2> QED BY <2>1 DEF RunInv, Works, Asks, Refusals
<1> QED BY <1>1, <1>2, EndsIdle

\* An installation that is opened was idle.
LEMMA OpenIdle ==
    ASSUME RunInv, NEW verb, Open(verb)
    PROVE  /\ Ready(verb) /\ storage = "ready" /\ storage' = "opened"
           /\ touched = {} /\ failed = {} /\ todo = <<>> /\ refused = FALSE
BY ReadyOnes DEF Open, RunInv, Sequence, Closed

\* A removal that names no account, or has no runtime.
LEMMA RemoveRefusedKeeps == ASSUME RunInv, RemoveRefused PROVE RunInv'
<1>1. Open("remove") /\ Looks /\ refused' \in BOOLEAN /\ exit' = "failure"
    BY DEF RemoveRefused, End, Looks
<1> QED BY <1>1, OpenIdle, EndsIdle

\* A listing that names no account, or cannot read its mailbox.
LEMMA InboxRefusedKeeps == ASSUME RunInv, InboxRefused PROVE RunInv'
<1>1. Open("inbox") /\ Looks /\ refused' = refused /\ exit' = "failure"
    BY DEF InboxRefused, End, Looks
<1> QED BY <1>1, OpenIdle, EndsIdle

\* The unlocking for a sign-in, whether it fails or not.
LEMMA OpenForAddKeeps == ASSUME RunInv, NEW ok \in BOOLEAN, OpenForAdd(ok) PROVE RunInv'
<1>1. /\ Ready("add") /\ storage \in {"absent", "ready"} /\ Looks /\ refused' = refused
      /\ OAuthClient(client) /\ Closed
      /\ storage' \in {storage, "opened", "created"}
      /\ storage' = "created" => storage = "absent"
      /\ exit' \in {"none", "failure"}
    BY DEF OpenForAdd, Opened, End, Looks, Closed
<1>2. touched = {} /\ todo = <<>> /\ refused = FALSE
    BY <1>1, ReadyOnes DEF RunInv, Sequence
<1>3. CASE exit' = "failure"
    BY <1>1, <1>2, <1>3, EndsIdle
<1>4. CASE exit' = "none"
  <2>1. /\ argv # None /\ asked # None /\ asked.verb = "add" /\ client # None /\ Configured(client)
        /\ exit = "none"
      BY <1>1, ReadyOnes
  <2>2. /\ asked' = asked /\ Asks("add") /\ \A v : Asks(v)' => v = "add"
      BY <1>1, <2>1 DEF Asks, Looks
  <2>3. RunTypeOK' /\ Sequence' /\ Refusals'
      BY <1>1, <1>2, <1>4, <2>1, <2>2 DEF RunInv, RunTypeOK, Sequence, Refusals, Looks, Closed
  <2>4. Adds' /\ Works'
      BY <1>1, <1>2, <1>4, <2>1, <2>2 DEF Adds, Works, Looks, Asks
  <2>5. Syncs' /\ Removes' /\ Lists'
      BY <2>2 DEF Syncs, Removes, Lists
  <2> QED BY <2>3, <2>4, <2>5 DEF RunInv
<1> QED BY <1>1, <1>3, <1>4

\* The sign-in: its account is registered once.
LEMMA AddKeeps == ASSUME RunInv, NEW port \in Ports, Add(port) PROVE RunInv'
<1>1. /\ argv # None /\ asked # None /\ asked.verb = "add" /\ exit = "none"
      /\ client # None /\ Configured(client) /\ refused = FALSE /\ Ready("add")
    BY ReadyOnes DEF Add
<1>2. Asks("add") /\ \A v : Asks(v)' => v = "add"
    BY <1>1 DEF Asks, Add
<1>3. storage \in {"opened", "created"} /\ ~ Closed /\ OAuthClient(client)
    BY <1>2 DEF Add, Closed, RunInv, Refusals
<1>4. Runtime(client) /\ BeginAuthorization(client, port)
    BY <1>1, <1>3, ClientPasses
<1>5. refused' = FALSE
    BY <1>4 DEF Add
<1>6. touched = {} /\ todo = <<>>
    BY <1>1 DEF RunInv, Works, Refusals, Asks
<1>7. \/ exit' = "failure" /\ accounts' = accounts
      \/ exit' = "success" /\ \E a \in Accounts :
            accounts' = IF a \in Range(accounts) THEN accounts ELSE Append(accounts, a)
    BY DEF Add, End
<1>8. accounts' \in Seq(Accounts) /\ IsInjective(accounts') /\ (exit' = "success" => accounts' # <<>>)
  <2>1. accounts \in Seq(Accounts) /\ IsInjective(accounts)
      BY DEF RunInv, RunTypeOK
  <2>2. CASE accounts' = accounts /\ exit' = "failure"
      BY <2>1, <2>2
  <2>3. ASSUME NEW a \in Accounts, a \notin Range(accounts), accounts' = Append(accounts, a)
        PROVE  accounts' \in Seq(Accounts) /\ IsInjective(accounts') /\ accounts' # <<>>
      BY <2>1, <2>3, Registered
  <2>4. ASSUME NEW a \in Range(accounts), accounts' = accounts PROVE accounts # <<>>
      BY <2>4 DEF Range
  <2> QED BY <1>7, <2>1, <2>2, <2>3, <2>4
<1>9. /\ UNCHANGED <<argv, asked, client, storage, todo, touched, failed, cached, printed>>
      /\ exit' \in {"failure", "success"}
    BY <1>7 DEF Add
<1>10. RunTypeOK' /\ Sequence' /\ Refusals'
    BY <1>1, <1>3, <1>5, <1>6, <1>8, <1>9 DEF RunInv, RunTypeOK, Sequence, Refusals, Closed
<1>11. Adds' /\ Works'
    BY <1>1, <1>2, <1>6, <1>8, <1>9 DEF Adds, Works, Asks
<1>12. Syncs' /\ Removes' /\ Lists'
    BY <1>2 DEF Syncs, Removes, Lists
<1> QED BY <1>10, <1>11, <1>12 DEF RunInv

\* The removal: the account is gone, if it succeeds.
LEMMA RemoveAccountKeeps == ASSUME RunInv, NEW done \in BOOLEAN, RemoveAccount(done) PROVE RunInv'
<1>0. PICK a, i : a = ResolveAccount(asked.name) /\ i = CHOOSE k \in DOMAIN accounts : accounts[k] = a
    OBVIOUS
<1>1. /\ Open("remove") /\ a # None /\ Runtime(client)
      /\ touched' = {a} /\ failed' = (IF done THEN {} ELSE {a})
      /\ accounts' = (IF done THEN RemoveAt(accounts, i) ELSE accounts)
      /\ exit' = (IF done THEN "success" ELSE "failure")
      /\ UNCHANGED <<argv, asked, client, refused, todo, cached, printed>>
    BY <1>0 DEF RemoveAccount, End
<1>2. Ready("remove") /\ storage' = "opened" /\ todo = <<>> /\ refused = FALSE
    BY <1>1, OpenIdle
<1>3. argv # None /\ asked # None /\ asked.verb = "remove" /\ client # None /\ Configured(client)
    BY <1>2, ReadyOnes
<1>4. \A v : Asks(v)' => v = "remove"
    BY <1>1, <1>3 DEF Asks
<1>5. accounts \in Seq(Accounts) /\ IsInjective(accounts)
    BY DEF RunInv, RunTypeOK
<1>6. Singles(asked.name, a) /\ a \in Range(accounts)
    BY <1>0, <1>1, <1>5, Resolved
<1>7. i \in DOMAIN accounts /\ accounts[i] = a
    BY <1>0, <1>6 DEF Range
<1>8. /\ accounts' \in Seq(Accounts) /\ IsInjective(accounts')
      /\ Range(accounts)' = IF done THEN Range(accounts) \ {a} ELSE Range(accounts)
    BY <1>1, <1>5, <1>7, TakenOut
<1>9. Singles(asked.name, a)'
    BY <1>1, <1>6, <1>8 DEF Singles
<1>10. RunTypeOK'
    BY <1>1, <1>2, <1>8 DEF RunInv, RunTypeOK
<1>11. Sequence' /\ Refusals'
    BY <1>1, <1>2, <1>3, <1>4 DEF RunInv, Sequence, Refusals, Closed
<1>12. Adds' /\ Works' /\ Syncs' /\ Lists'
    BY <1>1, <1>2, <1>3, <1>4 DEF Adds, Works, Syncs, Lists, Asks
<1>13. Removes'
  <2>1. touched' = {a} /\ a \in Accounts /\ Singles(asked.name, a)'
    <3>1. a \in Accounts
        BY <1>6 DEF Singles
    <3> QED BY <1>1, <1>9, <3>1
  <2>2. exit' = "success" => a \notin Range(accounts)'
      BY <1>1, <1>8
  <2> QED BY <1>1, <2>1, <2>2 DEF Removes
<1> QED BY <1>10, <1>11, <1>12, <1>13 DEF RunInv

\* A sync begins with all its accounts before it.
LEMMA BeginSyncKeeps == ASSUME RunInv, NEW built \in BOOLEAN, BeginSync(built) PROVE RunInv'
<1>1. Open("sync") /\ UNCHANGED <<argv, asked, client, accounts, touched, failed, cached, printed>>
    BY DEF BeginSync
<1>2. /\ Ready("sync") /\ storage = "ready" /\ storage' = "opened"
      /\ touched = {} /\ failed = {} /\ todo = <<>> /\ refused = FALSE
    BY <1>1, OpenIdle
<1>3. /\ argv # None /\ asked # None /\ asked.verb = "sync" /\ client # None /\ Configured(client)
      /\ exit = "none"
    BY <1>2, ReadyOnes
<1>4. Targets' = Targets /\ ResolveAccount(asked.name)' = ResolveAccount(asked.name)
    BY <1>1, Kept
<1>5. \A v : Asks(v)' => v = "sync"
    BY <1>1, <1>3 DEF Asks
<1>6. None # <<>>
  <2>1. 0 \in 0..MaxWords /\ <<>> \in [1..0 -> Words]
      BY WordsAssumption
  <2>2. <<>> \in SeqOf(Words, MaxWords)
      BY <2>1 DEF SeqOf
  <2> QED BY <2>2, WordsAssumption
<1>7. CASE exit' = "failure" /\ todo' = todo /\ refused' \in BOOLEAN
    BY <1>1, <1>2, <1>7, <1>3, EndsIdle DEF Looks
<1>8. ASSUME Targets = <<>> \/ (Targets # None /\ Runtime(client)), todo' = Targets,
             exit' = IF Targets = <<>> THEN "success" ELSE "none", refused' = refused
      PROVE  RunInv'
  <2>1. Targets # None /\ (Targets # <<>> => OAuthClient(client))
      BY <1>6, <1>8 DEF Runtime
  <2>2. Targets \in Seq(Accounts) /\ (asked.name = None \/ ResolveAccount(asked.name) # None)
    <3>1. CASE asked.name = None
        BY <3>1 DEF Targets, RunInv, RunTypeOK
    <3>2. CASE asked.name # None
      <4>1. ResolveAccount(asked.name) # None /\ Targets = <<ResolveAccount(asked.name)>>
          BY <2>1, <3>2 DEF Targets
      <4>2. ResolveAccount(asked.name) \in Accounts
          BY <4>1, Resolved DEF RunInv, RunTypeOK, Singles
      <4> QED BY <4>1, <4>2
    <3> QED BY <3>1, <3>2
  <2>3. RunTypeOK'
      BY <1>1, <1>2, <1>3, <1>8, <2>2 DEF RunInv, RunTypeOK
  <2>4. Sequence' /\ Refusals'
      BY <1>1, <1>2, <1>3, <1>5, <1>8, <2>1 DEF RunInv, Sequence, Refusals, Closed, Asks
  <2>5. Adds' /\ Works' /\ Removes' /\ Lists'
      BY <1>1, <1>2, <1>5 DEF Adds, Works, Removes, Lists
  <2>6. Syncs'
    <3>1. (touched \cup Range(todo) = Range(Targets))'
      <4>1. touched' = {} /\ todo' = Targets'
          BY <1>1, <1>2, <1>4, <1>8
      <4> QED BY <4>1
    <3>2. exit' = "success" => failed' = {} /\ todo' = <<>>
        BY <1>1, <1>2, <1>8
    <3> QED BY <1>1, <1>4, <2>2, <3>1, <3>2 DEF Syncs
  <2> QED BY <2>3, <2>4, <2>5, <2>6 DEF RunInv
<1>9. CASE Targets = <<>>
  <2>1. todo' = todo /\ refused' = refused /\ exit' = "success"
      BY <1>9 DEF BeginSync, End
  <2> QED BY <1>2, <1>8, <1>9, <2>1
<1>10. CASE Targets # <<>> /\ Targets # None /\ built /\ Runtime(client)
  <2>1. todo' = Targets /\ refused' = refused /\ exit' = "none"
      BY <1>10 DEF BeginSync, End
  <2> QED BY <1>8, <1>10, <2>1
<1>11. CASE Targets # <<>> /\ ~ (Targets # None /\ built /\ Runtime(client))
  <2>1. todo' = todo /\ refused' \in BOOLEAN /\ exit' = "failure"
      BY <1>11 DEF BeginSync, End
  <2> QED BY <1>7, <2>1
<1> QED BY <1>9, <1>10, <1>11

\* One account more of a sync.
LEMMA SyncOneKeeps == ASSUME RunInv, NEW ok \in BOOLEAN, SyncOne(ok) PROVE RunInv'
<1>1. /\ Ready("sync") /\ storage = "opened" /\ todo # <<>>
      /\ refused' = (refused \/ ~ RefreshClientConfig(client))
      /\ touched' = touched \cup {Head(todo)} /\ todo' = Tail(todo)
      /\ exit' = (IF todo' = <<>> THEN SyncExit(failed', Head(todo)) ELSE "none")
      /\ UNCHANGED <<argv, asked, client, storage, accounts, cached, printed>>
    BY DEF SyncOne, End
<1>2. /\ argv # None /\ asked # None /\ asked.verb = "sync" /\ client # None /\ Configured(client)
      /\ exit = "none" /\ refused = FALSE
    BY <1>1, ReadyOnes
<1>3. OAuthClient(client) /\ RefreshClientConfig(client)
    BY <1>1, <1>2, ClientPasses DEF RunInv, Refusals
<1>4. refused' = FALSE /\ exit' \in {"none", "success", "failure"}
      /\ (exit' = "success" => todo' = <<>> /\ failed' = {})
    BY <1>1, <1>2, <1>3 DEF SyncExit
<1>5. /\ Tail(todo) \in Seq(Accounts) /\ Head(todo) \in Range(todo)
      /\ Range(todo) = {Head(todo)} \cup Range(Tail(todo))
    BY <1>1, FirstAndOthers DEF RunInv, RunTypeOK
<1>6. Targets' = Targets /\ ResolveAccount(asked.name)' = ResolveAccount(asked.name)
    BY <1>1, Kept
<1>7. Asks("sync") /\ Asks("sync")' /\ \A v : Asks(v)' => v = "sync"
    BY <1>1, <1>2 DEF Asks
<1>8. RunTypeOK' /\ Sequence' /\ Refusals'
    BY <1>1, <1>2, <1>3, <1>4, <1>5, <1>7 DEF RunInv, RunTypeOK, Sequence, Refusals, Closed
<1>9. Adds' /\ Works' /\ Removes' /\ Lists'
    BY <1>1, <1>7 DEF Adds, Works, Removes, Lists
<1>10. Syncs'
  <2>1. /\ asked.name = None \/ ResolveAccount(asked.name) # None
        /\ touched \cup Range(todo) = Range(Targets)
      BY <1>1, <1>7 DEF RunInv, Syncs, Closed
  <2>2. Range(todo)' = Range(Tail(todo)) /\ Range(Targets)' = Range(Targets)
      BY <1>1, <1>6
  <2>3. (touched \cup Range(todo))' = Range(Targets)'
      BY <1>1, <1>5, <2>1, <2>2
  <2> QED BY <1>1, <1>4, <1>6, <2>1, <2>3 DEF Syncs
<1> QED BY <1>8, <1>9, <1>10 DEF RunInv

\* The listing of one account.
LEMMA InboxKeeps == ASSUME RunInv, NEW envelopes \in Inboxes, Inbox(envelopes) PROVE RunInv'
<1>1. /\ Open("inbox") /\ Shown # None /\ touched' = {Shown} /\ cached' = envelopes
      /\ printed' = [i \in 1..Len(envelopes) \cap 1..asked.limit |-> LineOf(envelopes[i])]
      /\ exit' = "success"
      /\ UNCHANGED <<argv, asked, client, refused, accounts, todo, failed>>
    BY DEF Inbox, End
<1>2. Ready("inbox") /\ storage' = "opened" /\ todo = <<>> /\ refused = FALSE
    BY <1>1, OpenIdle
<1>3. argv # None /\ asked # None /\ asked.verb = "inbox" /\ client # None /\ Configured(client)
    BY <1>2, ReadyOnes
<1>4. Shown' = Shown /\ asked' = asked
    BY <1>1, Kept
<1>5. Asks("inbox")' /\ \A v : Asks(v)' => v = "inbox"
    BY <1>1, <1>3 DEF Asks
<1>6. RunTypeOK' /\ Sequence' /\ Refusals'
    BY <1>1, <1>2, <1>3, <1>5 DEF RunInv, RunTypeOK, Sequence, Refusals, Closed
<1>7. Adds' /\ Works' /\ Removes' /\ Syncs'
    BY <1>1, <1>2, <1>5 DEF Adds, Works, Removes, Syncs
<1>8. Lists'
    BY <1>1, <1>4 DEF Lists
<1> QED BY <1>6, <1>7, <1>8 DEF RunInv

\* The display of a message leaves the run alone.
LEMMA StutterKeeps == ASSUME RunInv, UNCHANGED run PROVE RunInv'
<1>1. UNCHANGED <<argv, asked, client, refused, storage, accounts, todo, touched, failed, cached, printed, exit>>
    BY DEF run
<1>2. /\ Targets' = Targets /\ Shown' = Shown
      /\ ResolveAccount(asked.name)' = ResolveAccount(asked.name)
      /\ \A a : Singles(asked.name, a)' <=> Singles(asked.name, a)
      /\ \A v : Asks(v)' <=> Asks(v)
    BY <1>1, Kept
<1>3. RunTypeOK' /\ Sequence'
    BY <1>1 DEF RunInv, RunTypeOK, Sequence, Closed
<1>4. Refusals' /\ Adds' /\ Works'
    BY <1>1, <1>2 DEF RunInv, Refusals, Adds, Works, Closed
<1>5. Syncs' /\ Removes' /\ Lists'
    BY <1>1, <1>2 DEF RunInv, Syncs, Removes, Lists, Closed
<1> QED BY <1>3, <1>4, <1>5 DEF RunInv

\* The invariant holds before the program starts.
LEMMA RunInvInit == RunInit => RunInv
<1> SUFFICES ASSUME RunInit PROVE RunInv
    OBVIOUS
<1>1. accounts \in SeqOf(Accounts, Cardinality(Accounts)) /\ IsInjective(accounts)
    BY DEF RunInit
<1>2. accounts \in Seq(Accounts)
  <2>1. Cardinality(Accounts) \in Nat
      BY AccountsAssumption, FS_CardinalityType
  <2> QED BY <1>1, <2>1 DEF SeqOf
<1>3. RunTypeOK
  <2>1. /\ argv = None /\ client = None /\ refused = FALSE /\ exit = "none"
        /\ storage \in {"absent", "locked", "ready"} /\ todo = <<>>
      BY DEF RunInit
  <2>2. todo \in Seq(Accounts)
      BY <2>1
  <2>3. argv \in Seq(Words) \cup {None} /\ (client = None \/ Configured(client)) /\ refused \in BOOLEAN
      BY <2>1
  <2>4. exit \in {"none", "success", "failure", "usage"}
      BY <2>1
  <2>5. storage \in {"absent", "locked", "ready", "opened", "created"}
      BY <2>1
  <2> QED BY <1>1, <1>2, <2>2, <2>3, <2>4, <2>5 DEF RunTypeOK
<1>4. Sequence
    BY DEF RunInit, Sequence, Closed
<1>5. Refusals /\ Adds /\ Syncs /\ Removes /\ Lists /\ Works
    BY DEF RunInit, Refusals, Adds, Syncs, Removes, Lists, Works, Asks
<1> QED BY <1>3, <1>4, <1>5 DEF RunInv

\* Every step keeps it, by the lemmas above.
LEMMA RunInvNext == RunInv /\ [RunNext]_<<display, run>> => RunInv'
<1> SUFFICES ASSUME RunInv, [RunNext]_<<display, run>> PROVE RunInv'
    OBVIOUS
<1>1. CASE UNCHANGED run
    BY <1>1, StutterKeeps
<1>2. ASSUME NEW words \in SeqOf(Words, MaxWords), Main(words) PROVE RunInv'
    BY <1>2, MainKeeps
<1>3. ASSUME NEW discovered \in BOOLEAN, NEW read \in FileConfig, NEW section \in ClientTexts,
             NEW env \in ClientTexts, Load(discovered, read, section, env)
      PROVE  RunInv'
    BY <1>3, LoadKeeps
<1>4. CASE AddRefused \/ List \/ NotInstalled \/ Doctor
    BY <1>4, AddRefusedKeeps, ListKeeps, NotInstalledKeeps, DoctorKeeps
<1>5. CASE RemoveRefused \/ InboxRefused
    BY <1>5, RemoveRefusedKeeps, InboxRefusedKeeps
<1>6. ASSUME NEW port \in Ports, Add(port) PROVE RunInv'
    BY <1>6, AddKeeps
<1>7. ASSUME NEW ok \in BOOLEAN, OpenForAdd(ok) \/ RemoveAccount(ok) \/ BeginSync(ok) \/ SyncOne(ok)
      PROVE  RunInv'
    BY <1>7, OpenForAddKeeps, RemoveAccountKeeps, BeginSyncKeeps, SyncOneKeeps
<1>8. ASSUME NEW envelopes \in Inboxes, Inbox(envelopes) PROVE RunInv'
    BY <1>8, InboxKeeps
<1> QED BY <1>1, <1>2, <1>3, <1>4, <1>5, <1>6, <1>7, <1>8 DEF RunNext, run

\* Every command line of every run keeps the invariant, its types among it.
THEOREM RunInvariance == RunSpec => []RunInv
BY RunInvInit, RunInvNext, PTL DEF RunSpec

\* A client that is refused is refused before there is key material, before
\* sign-in and before any account is tried, for any configuration and any port
\* (the validations of config.rs, flows.rs, broker.rs): ClientIsRefusedFirst
THEOREM ClientRefusedFirst == RunSpec => []ClientIsRefusedFirst
<1>1. RunInv => ClientIsRefusedFirst
  <2> SUFFICES ASSUME RunInv, refused PROVE ClientIsRefusedFirst
      BY DEF ClientIsRefusedFirst
  <2>1. exit = "failure" /\ touched = {} /\ argv # None /\ asked # None
      BY DEF RunInv, Refusals, Sequence
  <2> QED BY <2>1 DEF RunInv, Refusals, ClientIsRefusedFirst, Asks, Closed
<1> QED BY <1>1, RunInvariance, PTL

\* What the words mean of the command that was understood.
LEMMA Understands ==
    ASSUME RunInv, exit # "usage", touched # {} \/ storage = "created" \/ exit # "none"
    PROVE  argv # None /\ asked # None /\ MeansWhatItNames(argv, asked) /\ Named = NamedBy(argv)
<1>1. argv # None /\ argv \in Seq(Words) /\ asked = Parse(argv) /\ asked # None
    BY DEF RunInv, RunTypeOK, Sequence, Closed
<1>2. Named = NamedBy(argv)
    BY DEF Named, NamedBy
<1> QED BY <1>1, <1>2, ParseNames

\* Success is the success of everything that was asked for, whichever way the
\* command went (the exit codes of main.rs and commands.rs): SuccessIsWhole
THEOREM SuccessWhole == RunSpec => []SuccessIsWhole
<1>1. ASSUME RunInv, exit = "usage" PROVE SuccessIsWhole
    BY <1>1 DEF RunInv, Sequence, SuccessIsWhole, Closed
<1>2. ASSUME RunInv, exit = "success" PROVE SuccessIsWhole
  <2>1. asked # None /\ MeansWhatItNames(argv, asked) /\ Named = NamedBy(argv)
      BY <1>2, Understands
  <2>2. ASSUME asked.verb = "sync", storage = "opened"
        PROVE  /\ failed = {}
               /\ Named = {} => touched = Range(accounts)
               /\ Named # {} => touched # {}
    <3>1. Asks("sync") /\ ~ Closed
        BY <2>1, <2>2 DEF Asks, Closed
    <3>2. /\ failed = {} /\ todo = <<>>
          /\ asked.name = None \/ ResolveAccount(asked.name) # None
          /\ touched \cup Range(todo) = Range(Targets)
        BY <1>2, <3>1 DEF RunInv, Syncs
    <3>3. touched = Range(Targets)
        BY <3>2 DEF Range
    <3>4. CASE asked.name = None
        BY <2>1, <2>2, <3>2, <3>3, <3>4 DEF MeansWhatItNames, Targets
    <3>5. CASE asked.name # None
      <4>1. asked.name # "--limit"
          BY <3>2, <3>5, OptionNamesNone
      <4>2. Named # {}
          BY <2>1, <2>2, <3>5, <4>1 DEF MeansWhatItNames
      <4>3. Targets = <<ResolveAccount(asked.name)>>
          BY <3>2, <3>5 DEF Targets
      <4>4. touched # {}
          BY <3>3, <4>3 DEF Range
      <4> QED BY <3>2, <4>2, <4>4
    <3> QED BY <3>4, <3>5
  <2>3. asked.verb = "remove" => touched \cap Range(accounts) = {} /\ touched # {}
      BY <1>2, <2>1 DEF RunInv, Removes, Asks
  <2>4. asked.verb = "add" => accounts # <<>>
      BY <1>2, <2>1 DEF RunInv, Adds, Asks
  <2> QED BY <1>2, <2>2, <2>3, <2>4 DEF SuccessIsWhole
<1>3. RunInv => SuccessIsWhole
    BY <1>1, <1>2 DEF SuccessIsWhole
<1> QED BY <1>3, RunInvariance, PTL

\* A command works on no account but those its words single out, for any words,
\* accounts and names (Command::parse of cli.rs, resolve_account of
\* commands.rs): DoesWhatItNames
THEOREM NamedOnly == RunSpec => []DoesWhatItNames
<1>1. ASSUME RunInv, touched # {}
      PROVE  /\ \A a \in touched : \A raw \in Named :
                  a \in Accounts /\ IsPrefix(Spelling[raw], Spelling[a])
                     /\ \A b \in Range(accounts) \ {a} : ~IsPrefix(Spelling[raw], Spelling[b])
             /\ Named = {} /\ argv[1] = "inbox" => touched = {accounts[1]}
  <2>1. exit # "usage"
      BY <1>1 DEF RunInv, Sequence
  <2>2. asked # None /\ MeansWhatItNames(argv, asked) /\ Named = NamedBy(argv)
      BY <1>1, <2>1, Understands
  <2>3. accounts \in Seq(Accounts)
      BY <1>1 DEF RunInv, RunTypeOK
  <2>4. CASE Asks("sync")
    <3>1. /\ argv[1] = "sync" /\ Named \subseteq {asked.name}
          /\ asked.name = None => Named = {}
        BY <2>2, <2>4 DEF MeansWhatItNames, Asks
    <3>2. ~ Closed
        BY <1>1 DEF RunInv, Sequence
    <3>3. touched \subseteq Range(Targets) /\ (asked.name = None \/ ResolveAccount(asked.name) # None)
        BY <1>1, <2>4, <3>2 DEF RunInv, Syncs
    <3>4. ASSUME asked.name # None PROVE \A a \in touched : Singles(asked.name, a)
      <4>1. Range(Targets) = {ResolveAccount(asked.name)}
          BY <3>3, <3>4 DEF Targets, Range
      <4> QED BY <2>3, <3>3, <3>4, <4>1, Resolved
    <3> QED BY <3>1, <3>4 DEF Singles
  <2>5. CASE Asks("remove")
    <3>1. argv[1] = "account" /\ Named \subseteq {asked.name}
        BY <2>2, <2>5 DEF MeansWhatItNames, Asks
    <3>2. PICK a \in Accounts : touched = {a} /\ Singles(asked.name, a)
        BY <1>1, <2>5 DEF RunInv, Removes
    <3> QED BY <3>1, <3>2 DEF Singles
  <2>6. CASE Asks("inbox")
    <3>1. Named = IF asked.name = None THEN {} ELSE {asked.name}
        BY <2>2, <2>6 DEF MeansWhatItNames, Asks
    <3>2. Shown # None /\ touched = {Shown}
        BY <1>1, <2>6 DEF RunInv, Lists
    <3>3. CASE asked.name = None
        BY <3>1, <3>2, <3>3 DEF Shown
    <3>4. CASE asked.name # None
      <4>1. Shown = ResolveAccount(asked.name)
          BY <3>4 DEF Shown
      <4>2. Singles(asked.name, Shown)
          BY <2>3, <3>2, <4>1, Resolved
      <4> QED BY <3>1, <3>2, <3>4, <4>2 DEF Singles
    <3> QED BY <3>3, <3>4
  <2> QED BY <1>1, <2>4, <2>5, <2>6 DEF RunInv, Works
<1>2. ASSUME RunInv, storage = "created" PROVE argv = <<"account", "add">>
  <2>1. Asks("add") /\ exit # "usage"
      BY <1>2 DEF RunInv, Adds, Sequence, Closed
  <2> QED BY <1>2, <2>1, Understands DEF MeansWhatItNames, Asks
<1>3. RunInv => DoesWhatItNames
    BY <1>1, <1>2 DEF DoesWhatItNames
<1> QED BY <1>3, RunInvariance, PTL

Shows == {"x", "space"}

\* A character becomes one that shows, or nothing; one that is plain is kept.
LEMMA OneCharacter ==
    ASSUME NEW c \in Characters
    PROVE  OnOneLine(c) \in Seq(Shows) /\ (c = "x" => OnOneLine(c) = <<"x">>)
<1>1. c \in {"x", "\n", "escape", "bidi"}
    BY DEF Characters
<1>2. CASE c = "x"
    BY <1>2 DEF OnOneLine, Allowed, Shows
<1>3. CASE c = "\n"
    BY <1>3 DEF OnOneLine, Shows
<1>4. CASE c \in {"escape", "bidi"}
    BY <1>4 DEF OnOneLine, Allowed
<1> QED BY <1>1, <1>2, <1>3, <1>4

\* The lines of single_line, one character longer each.
LEMMA SingleLineRun ==
    ASSUME NEW text \in Seq(Characters)
    PROVE  \E line \in [0..Len(text) -> Seq(Shows)] :
              /\ line[0] = <<>>
              /\ \A i \in 1..Len(text) : line[i] = line[i - 1] \o OnOneLine(text[i])
              /\ SingleLine(text) = line[Len(text)]
<1> DEFINE n == Len(text)
           S == Seq(Shows)
           step == [i \in 1..n |-> [l \in S |-> l \o OnOneLine(text[i])]]
           body(f) == [i \in 0..n |-> IF i = 0 THEN <<>> ELSE f[i - 1] \o OnOneLine(text[i])]
           g == CHOOSE f : f = body(f)
<1>1. n \in Nat /\ <<>> \in S /\ \A i \in 1..n : OnOneLine(text[i]) \in Seq(Shows)
    BY OneCharacter
<1> HIDE DEF n
<1>2. step \in [1..n -> [S -> S]]
    BY <1>1
<1>3. PICK f \in [0..n -> S] : Follows(f, n, <<>>, step)
  <2> HIDE DEF step, S
  <2> QED BY <1>1, <1>2, Recursion
<1>4. \A i \in 1..n : f[i] = f[i - 1] \o OnOneLine(text[i])
  <2> SUFFICES ASSUME NEW i \in 1..n PROVE f[i] = f[i - 1] \o OnOneLine(text[i])
      OBVIOUS
  <2>1. f[i] = step[i][f[i - 1]]
      BY <1>3 DEF Follows
  <2>2. i - 1 \in 0..n
      BY <1>1
  <2>3. f[i - 1] \in S
      BY <2>2
  <2> HIDE DEF S
  <2> QED BY <2>1, <2>3
<1>5. f = body(f)
  <2>1. f[0] = <<>>
      BY <1>3 DEF Follows
  <2>2. f = [i \in 0..n |-> f[i]]
      BY <1>3
  <2>3. \A i \in 0..n : f[i] = IF i = 0 THEN <<>> ELSE f[i - 1] \o OnOneLine(text[i])
    <3> HIDE DEF S, step
    <3>1. \A i \in 0..n : i = 0 \/ i \in 1..n
        BY <1>1
    <3>2. \A i \in 1..n : i # 0
        OBVIOUS
    <3> QED BY <1>4, <2>1, <3>1, <3>2, Zenon
  <2> HIDE DEF S, step
  <2> QED BY <2>2, <2>3, Zenon
<1>6. g = body(g)
    BY <1>5
<1> HIDE DEF g
<1>7. /\ DOMAIN g = 0..n
      /\ g[0] = <<>> /\ \A i \in 1..n : g[i] = g[i - 1] \o OnOneLine(text[i])
  <2> HIDE DEF S, step
  <2>1. DOMAIN g = 0..n /\ \A i \in 0..n : g[i] = IF i = 0 THEN <<>> ELSE g[i - 1] \o OnOneLine(text[i])
      BY <1>6, Zenon
  <2>2. 0 \in 0..n /\ \A i \in 1..n : i \in 0..n /\ i # 0
      BY <1>1
  <2> QED BY <2>1, <2>2, Zenon
<1> DEFINE T == {i \in 0..n : g[i] \in S}
<1>8. 0 \in T /\ \A i \in 1..n : i - 1 \in T => i \in T
  <2>1. 0 \in T
    <3>1. 0 \in 0..n /\ g[0] \in S
        BY <1>1, <1>7
    <3> QED BY <3>1
  <2>2. ASSUME NEW i \in 1..n, i - 1 \in T PROVE i \in T
    <3>1. g[i - 1] \in S /\ i \in 0..n
        BY <1>1, <2>2
    <3>3. g[i] = g[i - 1] \o OnOneLine(text[i])
        BY <1>7
    <3>2. g[i] \in S
        BY <1>1, <3>1, <3>3
    <3> QED BY <3>1, <3>2
  <2> QED BY <2>1, <2>2
<1>9. g \in [0..n -> S]
  <2>1. 0..n \subseteq T
    <3> HIDE DEF T
    <3> QED BY <1>1, <1>8, Induct
  <2>2. g = body(g) /\ \A i \in 0..n : g[i] \in S
      BY <1>6, <2>1
  <2> HIDE DEF S
  <2> QED BY <2>2
<1>10. SingleLine(text) = g[n]
    BY DEF SingleLine, g, n
<1> QED BY <1>7, <1>9, <1>10 DEF n

\* Only what shows is left of a text; one that needs no repair is kept.
LEMMA SingleLines ==
    ASSUME NEW text \in Seq(Characters)
    PROVE  /\ SingleLine(text) \in Seq(Shows)
           /\ Range(text) \subseteq {"x"} => SingleLine(text) = text
<1> DEFINE n == Len(text)
<1>1. n \in Nat
    OBVIOUS
<1>2. PICK line \in [0..n -> Seq(Shows)] :
         /\ line[0] = <<>>
         /\ \A i \in 1..n : line[i] = line[i - 1] \o OnOneLine(text[i])
         /\ SingleLine(text) = line[n]
    BY SingleLineRun
<1>3. SingleLine(text) \in Seq(Shows)
    BY <1>1, <1>2
<1>4. ASSUME Range(text) \subseteq {"x"} PROVE SingleLine(text) = text
  <2> DEFINE T == {i \in 0..n : Len(line[i]) = i /\ \A j \in 1..i : line[i][j] = "x"}
  <2>1. 0 \in T
      BY <1>1, <1>2
  <2>2. ASSUME NEW i \in 1..n, i - 1 \in T PROVE i \in T
    <3>1. text[i] = "x" /\ "x" \in Characters
        BY <1>4 DEF Range, Characters
    <3>2. line[i] = line[i - 1] \o <<"x">>
        BY <1>2, <3>1, OneCharacter
    <3>3. i - 1 \in 0..n /\ line[i - 1] \in Seq(Shows)
      <4>1. i - 1 \in 0..n
          BY <1>1
      <4> QED BY <1>2, <4>1
    <3>4. Len(line[i - 1]) = i - 1 /\ \A j \in 1..(i - 1) : line[i - 1][j] = "x"
        BY <2>2
    <3>5. Len(line[i]) = i /\ \A j \in 1..i : line[i][j] = "x"
        BY <3>2, <3>3, <3>4
    <3> QED BY <1>1, <3>5
  <2> HIDE DEF T
  <2>3. 0..n \subseteq T
      BY <1>1, <2>1, <2>2, Induct
  <2>4. Len(line[n]) = n /\ \A j \in 1..n : line[n][j] = "x"
      BY <1>1, <2>3 DEF T
  <2>5. \A j \in 1..n : text[j] = "x"
      BY <1>4 DEF Range
  <2>6. line[n] \in Seq(Shows)
      BY <1>1, <1>2
  <2> QED BY <1>1, <1>2, <2>4, <2>5, <2>6, SeqEqual
<1> QED BY <1>3, <1>4

\* A text keeps to the columns, and is kept if it does.
LEMMA Truncated ==
    ASSUME NEW text \in Seq(Shows)
    PROVE  /\ Truncate(text) \in Seq({"x", "space", "..."}) /\ Len(Truncate(text)) <= Columns
           /\ Len(text) <= Columns => Truncate(text) = text
<1>1. Columns \in Nat /\ Columns > 0
    BY TextAssumption
<1>2. text \in Seq({"x", "space", "..."})
    BY DEF Shows
<1>3. CASE Len(text) > Columns
  <2> DEFINE cut == SubSeq(text, 1, Columns - 1)
  <2>1. cut \in Seq({"x", "space", "..."}) /\ Len(cut) = Columns - 1
      BY <1>1, <1>2, <1>3
  <2>2. Truncate(text) = Append(cut, "...")
      BY <1>3 DEF Truncate
  <2> HIDE DEF cut
  <2> QED BY <1>1, <1>3, <2>1, <2>2
<1>4. CASE Len(text) <= Columns
    BY <1>1, <1>2, <1>4 DEF Truncate
<1> QED BY <1>1, <1>3, <1>4

\* The line of a message.
LEMMA LineOfMessage ==
    ASSUME NEW e \in Envelopes
    PROVE  LET line == LineOf(e)
           IN  /\ Range(line.from) \cup Range(line.subject) \subseteq {"x", "space", "..."}
               /\ Len(line.from) <= Columns
               /\ Range(e.from) \subseteq {"x"} /\ Len(e.from) <= Columns => line.from = e.from
<1>1. e.from \in Seq(Characters) /\ e.subject \in Seq(Characters)
    BY DEF Envelopes
<1>2. /\ LineOf(e).from = Truncate(SingleLine(e.from))
      /\ LineOf(e).subject = SingleLine(e.subject)
    BY DEF LineOf
<1>3. SingleLine(e.from) \in Seq(Shows) /\ SingleLine(e.subject) \in Seq(Shows)
    BY <1>1, SingleLines
<1>4. Truncate(SingleLine(e.from)) \in Seq({"x", "space", "..."})
      /\ Len(Truncate(SingleLine(e.from))) <= Columns
    BY <1>3, Truncated
<1>5. Range(e.from) \subseteq {"x"} /\ Len(e.from) <= Columns
          => Truncate(SingleLine(e.from)) = e.from
    BY <1>1, <1>3, SingleLines, Truncated
<1>6. Range(LineOf(e).from) \subseteq {"x", "space", "..."}
    BY <1>2, <1>4, RangeOfSeq
<1>7. Range(LineOf(e).subject) \subseteq {"x", "space", "..."}
    BY <1>2, <1>3, RangeOfSeq DEF Shows
<1> QED BY <1>2, <1>4, <1>5, <1>6, <1>7

\* Each listed message is one line that keeps to its columns, for any mail
\* (SafeText::single_line of terminal.rs, the lines of commands.rs): OneLineEach
THEOREM OneLineOfEach == RunSpec => []OneLineEach
<1>1. RunInv => OneLineEach
  <2> SUFFICES ASSUME RunInv, exit = "success", asked.verb = "inbox" PROVE OneLineEach
      BY DEF OneLineEach
  <2>1. asked # None /\ asked.limit \in 1..500
    <3>1. asked # None /\ MeansWhatItNames(argv, asked)
      <4>1. exit # "usage" /\ (touched # {} \/ storage = "created" \/ exit # "none")
          OBVIOUS
      <4> QED BY <4>1, Understands
    <3> QED BY <3>1 DEF MeansWhatItNames
  <2>2. /\ cached \in Inboxes
        /\ printed = [i \in 1..Len(cached) \cap 1..asked.limit |-> LineOf(cached[i])]
      BY <2>1 DEF RunInv, Lists, Asks
  <2>3. cached \in Seq(Envelopes)
      BY <2>2, TextAssumption
  <2> DEFINE All == {LineOf(e) : e \in Envelopes}
  <2>4. \E m \in Nat : /\ 1..Len(cached) \cap 1..asked.limit = 1..m /\ m <= Len(cached)
                       /\ m <= asked.limit /\ (m = Len(cached) \/ m = asked.limit)
    <3>0. Len(cached) \in Nat /\ asked.limit \in Nat
      <4>1. Len(cached) \in Nat
          BY <2>3
      <4>2. asked.limit \in Nat
        <5>1. \A k \in 1..500 : k \in Nat
            OBVIOUS
        <5> QED BY <2>1, <5>1
      <4> QED BY <4>1, <4>2
    <3>1. PICK n, k \in Nat : n = Len(cached) /\ k = asked.limit
        BY <3>0
    <3>2. CASE n <= k
      <4>1. 1..n \cap 1..k = 1..n
          BY <3>1, <3>2
      <4> QED BY <3>1, <3>2, <4>1
    <3>3. CASE k < n
      <4>1. 1..n \cap 1..k = 1..k
          BY <3>1, <3>3
      <4> QED BY <3>1, <3>3, <4>1
    <3> QED BY <3>1, <3>2, <3>3
  <2>5. PICK m \in Nat : /\ 1..Len(cached) \cap 1..asked.limit = 1..m /\ m <= Len(cached)
                        /\ m <= asked.limit /\ (m = Len(cached) \/ m = asked.limit)
      BY <2>4
  <2>6. \A i \in 1..m : cached[i] \in Envelopes
      BY <2>3, <2>5
  <2>7. printed = [i \in 1..m |-> LineOf(cached[i])]
      BY <2>2, <2>5
  <2>8. printed \in [1..m -> All]
      BY <2>6, <2>7
  <2>9. DOMAIN printed = 1..m /\ Len(printed) = m
    <3> HIDE DEF All
    <3>1. printed \in Seq(All)
        BY <2>8
    <3> QED BY <2>8, <3>1, LenProperties
  <2>10. ASSUME NEW i \in DOMAIN printed
         PROVE  /\ Range(printed[i].from) \cup Range(printed[i].subject) \subseteq {"x", "space", "..."}
                /\ Len(printed[i].from) <= Columns
                /\ Range(cached[i].from) \subseteq {"x"} /\ Len(cached[i].from) <= Columns
                      => printed[i].from = cached[i].from
    <3>1. cached[i] \in Envelopes /\ printed[i] = LineOf(cached[i])
        BY <2>6, <2>7, <2>9
    <3> QED BY <3>1, LineOfMessage
  <2> QED BY <2>5, <2>9, <2>10 DEF OneLineEach
<1> QED BY <1>1, RunInvariance, PTL
=============================================================================

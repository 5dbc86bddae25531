---------------------------- MODULE RootKeyVault ----------------------------
(***************************************************************************)
(* The root key: how a command finds, creates or unlocks it, and opens the *)
(* installation with it (apps/tersa/src/commands.rs, adapters/vault,       *)
(* crates/keys, and the lock and the opening in sync-runtime).             *)
(*                                                                         *)
(* A command is a process that holds the lock of its data directory. The   *)
(* key is kept in the system keyring, one entry for every directory, or in *)
(* a file of the directory; which of the two is decided anew by each       *)
(* command, from a configuration the user may have changed and from        *)
(* whether the keyring can be reached. Commands may die at any step.       *)
(*                                                                         *)
(* A slot's content is the key and the passphrase that opens it. A         *)
(* registry is known by the key it was created under; a registry opened    *)
(* with any other key is refused (module StoreOpen).                       *)
(***************************************************************************)
EXTENDS KeyDerivation, FiniteSets

CONSTANTS
    Procs,       \* commands that run, each one process at a time
    Dirs,        \* data directories
    RootKeys,    \* what the random source may yield; never the same twice
    Phrases,     \* passphrases a user may type
    Nothing      \* no key, no passphrase, no process

NoSchema == "no schema"    \* a registry file that was made and never written

ASSUME NothingAssumption == Nothing \notin RootKeys \cup Phrases \cup Procs \cup Dirs \cup {NoSchema}
ASSUME NoSchemaAssumption == NoSchema \notin RootKeys

VARIABLES
    keyring,     \* the keyring's entry
    reachable,   \* whether the keyring answers
    file,        \* root-key.wrapped of each directory
    temporary,   \* whether its .tmp is there
    registry,    \* each directory's registry: none, no schema yet, or its key
    made,        \* the directories that exist
    lock,        \* the process that holds each directory's lock
    drawn,       \* root keys that were generated
    pc, dir, kind, create, phrase, attempts, root,   \* the command of each process
    said         \* how the last command of each process ended

slots == <<keyring, file, temporary>>
command == <<dir, kind, create, phrase, attempts, root>>
vars == <<slots, reachable, registry, made, lock, drawn, pc, command, said>>

Attempts == 3    \* PASSPHRASE_ATTEMPTS
Contents == [key : RootKeys, phrase : Phrases \cup {Nothing}]
Torn == [key |-> Nothing, phrase |-> Nothing]

SlotKind == {"Keyring", "File"}
BackendChoice == {"Auto", "Keyring", "File"}
VaultState == {"Empty", "Unprotected", "PassphraseProtected", "Malformed"}
UnlockPlan == {"create", "unlockPlain", "unlock"}
Places == {"idle", "vault", "plan", "write", "rename", "readBack", "open",
           "registry", "ready"} \cup UnlockPlan
VaultError == {"Malformed", "AlreadyInitialized", "NotInitialized",
               "PassphraseRequired", "WrongPassphrase", "KeyringUnavailable"}
Reports == VaultError \cup {"none", "done", "failed", "Busy", "NothingYet",
                           "MissingKey", "Corrupted"}

\* The types; and only the process that holds the lock runs in a directory.
TypeOK ==
    /\ keyring \in Contents \cup {Nothing}
    /\ reachable \in BOOLEAN
    /\ file \in [Dirs -> Contents \cup {Nothing, Torn}]
    /\ temporary \in [Dirs -> BOOLEAN]
    /\ registry \in [Dirs -> RootKeys \cup {Nothing, NoSchema}]
    /\ made \subseteq Dirs
    /\ lock \in [Dirs -> Procs \cup {Nothing}]
    /\ drawn \subseteq RootKeys
    /\ pc \in [Procs -> Places]
    /\ dir \in [Procs -> Dirs \cup {Nothing}]
    /\ kind \in [Procs -> SlotKind \cup BackendChoice]
    /\ create \in [Procs -> BOOLEAN]
    /\ phrase \in [Procs -> Phrases \cup {Nothing}]
    /\ attempts \in [Procs -> 0..Attempts]
    /\ root \in [Procs -> RootKeys \cup {Nothing}]
    /\ said \in [Procs -> Reports]
    /\ \A p \in Procs : pc[p] # "idle" => dir[p] \in made /\ lock[dir[p]] = p

Init ==
    /\ keyring = Nothing
    /\ reachable \in BOOLEAN
    /\ file = [d \in Dirs |-> Nothing]
    /\ temporary = [d \in Dirs |-> FALSE]
    /\ registry = [d \in Dirs |-> Nothing]
    /\ made = {}
    /\ lock = [d \in Dirs |-> Nothing]
    /\ drawn = {}
    /\ pc = [p \in Procs |-> "idle"]
    /\ dir = [p \in Procs |-> Nothing]
    /\ kind = [p \in Procs |-> "Auto"]
    /\ create = [p \in Procs |-> FALSE]
    /\ phrase = [p \in Procs |-> Nothing]
    /\ attempts = [p \in Procs |-> 0]
    /\ root = [p \in Procs |-> Nothing]
    /\ said = [p \in Procs |-> "none"]

-----------------------------------------------------------------------------
(* Commands and the lock.                                                   *)

Goto(p, where) == pc' = [pc EXCEPT ![p] = where]

\* The process exits; its lock is free and its keys are wiped.
Exit(p, what) ==
    /\ Goto(p, "idle")
    /\ said' = [said EXCEPT ![p] = what]
    /\ lock' = [lock EXCEPT ![dir[p]] = Nothing]
    /\ dir' = [dir EXCEPT ![p] = Nothing]
    /\ kind' = [kind EXCEPT ![p] = "Auto"]
    /\ create' = [create EXCEPT ![p] = FALSE]
    /\ phrase' = [phrase EXCEPT ![p] = Nothing]
    /\ attempts' = [attempts EXCEPT ![p] = 0]
    /\ root' = [root EXCEPT ![p] = Nothing]

Free(d) == lock[d] = Nothing

\* `account add` makes the directory; any other command needs one.
Start(p, d, backend, mayCreate) ==
    /\ pc[p] = "idle"
    /\ mayCreate \/ d \in made
    /\ Free(d)
    /\ made' = made \cup {d}
    /\ lock' = [lock EXCEPT ![d] = p]
    /\ dir' = [dir EXCEPT ![p] = d]
    /\ kind' = [kind EXCEPT ![p] = backend]
    /\ create' = [create EXCEPT ![p] = mayCreate]
    /\ said' = [said EXCEPT ![p] = "none"]
    /\ Goto(p, "vault")
    /\ UNCHANGED <<slots, reachable, registry, drawn, phrase, attempts, root>>

Refused(p, d) ==
    /\ pc[p] = "idle"
    /\ d \in made /\ ~Free(d)
    /\ said' = [said EXCEPT ![p] = "Busy"]
    /\ UNCHANGED <<slots, reachable, registry, made, lock, drawn, pc, command>>

-----------------------------------------------------------------------------
(* The vault.                                                               *)

Slot(p) == IF kind[p] = "Keyring" THEN keyring ELSE file[dir[p]]

\* A keyring that cannot be reached fails each read and write.
Readable(p) == kind[p] = "Keyring" => reachable

\* Auto falls back to the key file.
OpenVault(p) ==
    /\ pc[p] = "vault"
    /\ IF kind[p] = "Keyring" /\ ~reachable
       THEN Exit(p, "KeyringUnavailable")
       ELSE /\ kind' = [kind EXCEPT ![p] =
                   IF @ = "File" \/ ~reachable THEN "File" ELSE "Keyring"]
            /\ Goto(p, "plan")
            /\ UNCHANGED <<lock, dir, create, phrase, attempts, root, said>>
    /\ UNCHANGED <<slots, reachable, registry, made, drawn>>

\* Whether there is a registry file, written or not.
HasLocalData(d) == registry[d] # Nothing

\* Vault::state.
State(content) ==
    CASE content = Nothing -> "Empty"
      [] content \notin Contents \cup {Nothing} -> "Malformed"
      [] content \in Contents /\ content.phrase = Nothing -> "Unprotected"
      [] OTHER -> "PassphraseProtected"

\* A plain key opens for anybody, a wrapped one for its own passphrase only.
Opens(content, word) == content.phrase \in {Nothing, word}

\* "none", or how Vault::unlock fails; the slot is read anew at each unlocking.
UnlockError(content, word) ==
    CASE content = Nothing -> "NotInitialized"
      [] State(content) = "Malformed" -> "Malformed"
      [] OTHER -> IF Opens(content, word) THEN "none"
                  ELSE IF word = Nothing THEN "PassphraseRequired" ELSE "WrongPassphrase"

\* (mutant of RefusesMissingKey: data does not keep a command from a new key)
RefusesNothing(p) == FALSE

\* The key is gone and what it opens is not.
RefusesMissingKey(p) == State(Slot(p)) = "Empty" /\ HasLocalData(dir[p])

\* What a command may do next: plan_unlock.
PlanFor(state) ==
    CASE state = "Empty" -> "create"
      [] state = "Unprotected" -> "unlockPlain"
      [] state = "PassphraseProtected" -> "unlock"

Plan(p) ==
    /\ pc[p] = "plan"
    /\ Readable(p)
    /\ LET state == State(Slot(p))
       IN  CASE state = "Malformed" -> Exit(p, "Malformed")
             [] RefusesMissingKey(p) -> Exit(p, "MissingKey")
             [] OTHER ->
                IF state = "Empty" /\ ~create[p]
                THEN Exit(p, "NothingYet")
                ELSE Goto(p, PlanFor(state)) /\ UNCHANGED <<lock, command, said>>
    /\ UNCHANGED <<slots, reachable, registry, made, drawn>>

-----------------------------------------------------------------------------
(* create.                                                                  *)

VacantSlot(p) == State(Slot(p)) = "Empty"

\* The key file takes no key without a passphrase; in the keyring the user
\* may ask for one.
Protects(p, word) == kind[p] = "File" => word # Nothing

\* The slot is looked at once more, for another directory's first run may have
\* put its key into the keyring, and a key is drawn.
Generate(p, k, word) ==
    /\ pc[p] = "create"
    /\ Readable(p)
    /\ Protects(p, word)
    /\ k \notin drawn
    /\ IF VacantSlot(p)
       THEN /\ drawn' = drawn \cup {k}
            /\ root' = [root EXCEPT ![p] = k]
            /\ phrase' = [phrase EXCEPT ![p] = word]
            /\ Goto(p, "write")
            /\ UNCHANGED <<lock, dir, kind, create, attempts, said>>
       ELSE Exit(p, "AlreadyInitialized") /\ UNCHANGED drawn
    /\ UNCHANGED <<slots, reachable, registry, made>>

Encoded(p) == [key |-> root[p], phrase |-> phrase[p]]

\* A backend may drop the write and say nothing of it.
WriteKeyring(p) ==
    /\ pc[p] = "write" /\ kind[p] = "Keyring"
    /\ reachable
    /\ keyring' \in {Encoded(p), keyring}
    /\ Goto(p, "readBack")
    /\ UNCHANGED <<file, temporary, reachable, registry, made, lock, drawn,
                   command, said>>

\* A temporary file an earlier command left is removed, then made anew.
WriteTemporary(p) ==
    /\ pc[p] = "write" /\ kind[p] = "File"
    /\ temporary' = [temporary EXCEPT ![dir[p]] = TRUE]
    /\ Goto(p, "rename")
    /\ UNCHANGED <<keyring, file, reachable, registry, made, lock, drawn,
                   command, said>>

Rename(p) ==
    /\ pc[p] = "rename"
    /\ file' = [file EXCEPT ![dir[p]] = Encoded(p)]
    /\ temporary' = [temporary EXCEPT ![dir[p]] = FALSE]
    /\ Goto(p, "readBack")
    /\ UNCHANGED <<keyring, reachable, registry, made, lock, drawn, command, said>>

\* (mutant of Confirms: the write is believed)
ConfirmsUnread(p) == TRUE

\* What the slot gives back is the key that was written.
Confirms(p) == Slot(p) = Encoded(p)

ReadBack(p) ==
    /\ pc[p] = "readBack"
    /\ Readable(p)
    /\ IF Confirms(p)
       THEN Goto(p, "open") /\ UNCHANGED <<lock, command, said>>
       ELSE Exit(p, "failed")
    /\ UNCHANGED <<slots, reachable, registry, made, drawn>>

-----------------------------------------------------------------------------
(* unlock, and the installation.                                            *)

\* The slot gives a key.
Unlocked(p) ==
    /\ root' = [root EXCEPT ![p] = Slot(p).key]
    /\ Goto(p, "open")
    /\ UNCHANGED <<lock, dir, kind, create, phrase, attempts, said>>

UnlockPlain(p) ==
    /\ pc[p] = "unlockPlain"
    /\ Readable(p)
    /\ LET error == UnlockError(Slot(p), Nothing)
       IN  IF error = "none" THEN Unlocked(p) ELSE Exit(p, error)
    /\ UNCHANGED <<slots, reachable, registry, made, drawn>>

\* A wrong passphrase is asked for again, up to three times.
Unlock(p, word) ==
    /\ pc[p] = "unlock"
    /\ Readable(p)
    /\ LET error == UnlockError(Slot(p), word)
       IN  CASE error = "none" -> Unlocked(p)
             [] error = "WrongPassphrase" /\ attempts[p] + 1 < Attempts ->
                    /\ attempts' = [attempts EXCEPT ![p] = @ + 1]
                    /\ UNCHANGED <<pc, lock, dir, kind, create, phrase, root, said>>
             [] OTHER -> Exit(p, error)
    /\ UNCHANGED <<slots, reachable, registry, made, drawn>>

\* Installation::open makes the file of the registry if there is none.
OpenInstallation(p) ==
    /\ pc[p] = "open"
    /\ registry' = [registry EXCEPT ![dir[p]] = IF @ = Nothing THEN NoSchema ELSE @]
    /\ Goto(p, "registry")
    /\ UNCHANGED <<slots, reachable, made, lock, drawn, command, said>>

\* A registry without a schema takes the key of whoever opens it, and its
\* schema in one transaction; any other opens with its own key only.
OpenRegistry(p) ==
    /\ pc[p] = "registry"
    /\ IF registry[dir[p]] \in {NoSchema, root[p]}
       THEN /\ registry' = [registry EXCEPT ![dir[p]] = root[p]]
            /\ Goto(p, "ready")
            /\ UNCHANGED <<lock, command, said>>
       ELSE Exit(p, "Corrupted") /\ UNCHANGED registry
    /\ UNCHANGED <<slots, reachable, made, drawn>>

Finish(p) ==
    /\ pc[p] = "ready"
    /\ Exit(p, "done")
    /\ UNCHANGED <<slots, reachable, registry, made, drawn>>

-----------------------------------------------------------------------------
(* What goes wrong.                                                         *)

\* The user leaves the prompt, or types what is no passphrase.
Cancel(p) ==
    /\ pc[p] \in UnlockPlan \ {"unlockPlain"}
    /\ Exit(p, "failed")
    /\ UNCHANGED <<slots, reachable, registry, made, drawn>>

\* A system call or the keyring fails, or the process dies.
Fail(p) ==
    /\ pc[p] # "idle"
    /\ Exit(p, "failed")
    /\ UNCHANGED <<slots, reachable, registry, made, drawn>>

\* A session comes or goes: the keyring can be reached, or not any more.
KeyringComesOrGoes ==
    /\ reachable' = ~reachable
    /\ UNCHANGED <<slots, registry, made, lock, drawn, pc, command, said>>

-----------------------------------------------------------------------------
Next ==
    \/ \E p \in Procs, d \in Dirs :
          \/ Refused(p, d)
          \/ \E backend \in BackendChoice, mayCreate \in BOOLEAN : Start(p, d, backend, mayCreate)
    \/ \E p \in Procs :
          \/ OpenVault(p) \/ Plan(p)
          \/ \E k \in RootKeys, word \in Phrases \cup {Nothing} : Generate(p, k, word)
          \/ WriteKeyring(p) \/ WriteTemporary(p) \/ Rename(p) \/ ReadBack(p)
          \/ UnlockPlain(p) \/ \E word \in Phrases : Unlock(p, word)
          \/ OpenInstallation(p) \/ OpenRegistry(p) \/ Finish(p) \/ Cancel(p) \/ Fail(p)
    \/ KeyringComesOrGoes

Spec == Init /\ [][Next]_vars

-----------------------------------------------------------------------------
(* Properties.                                                              *)

\* A command that died while it wrote the key leaves a key file that is
\* whole or absent: no later command finds a malformed one.
NeverMalformed == \A p \in Procs : said[p] # "Malformed"

\* What is encrypted can be decrypted: as long as one data directory is in
\* use, the key of its registry is in the keyring or in the key file, and the
\* file is whole, whatever was interrupted, fell back, failed or was silently
\* dropped on the way.
DataStaysReadable ==
    NeverMalformed /\ \A d \in Dirs : registry[d] \in RootKeys =>
        \E content \in {keyring, file[d]} \cap Contents : content.key = registry[d]

\* A key is never minted for a directory whose data needs another one, not
\* even by a command that looked before that data was there.
NoKeyOverData ==
    [][\A p \in Procs : pc[p] \in {"write", "rename"} /\ pc'[p] \notin {"idle", pc[p]}
          => ~HasLocalData(dir[p])]_vars

\* No two uses, no two accounts and no two subjects of one account are ever
\* given the same key by a command: a mail database opens with its own key
\* only, and an identity hash of one account says nothing of another.
KeysSeparate ==
    \A p \in Procs : pc[p] = "ready" =>
        \A d, e \in Derivations : Key(root[p], d) = Key(root[p], e) => d = e

\* What create says of itself: it refuses to replace an existing key.
KeyNotReplaced == [][keyring # Nothing => keyring' = keyring]_vars
=============================================================================

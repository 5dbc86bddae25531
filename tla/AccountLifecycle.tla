-------------------------- MODULE AccountLifecycle --------------------------
(***************************************************************************)
(* The account flows over one installation: adding an account by sign-in,  *)
(* syncing it and removing it (adapters/sync-runtime/src/flows.rs), with   *)
(* the durable steps they take in the registry, in the account directories *)
(* and at Google (installation.rs, store-sqlcipher/src/registry.rs).       *)
(*                                                                         *)
(* Each command is a process that holds the installation lock from its     *)
(* first step to its last. A process may die, or meet an error, between    *)
(* any two durable steps; the lock dies with it, what was written stays.   *)
(*                                                                         *)
(* A subject stands for its dedup tag. An account's database is what it    *)
(* holds: the subject bound to it, the refresh credential, the owner of    *)
(* its mail. Opening a store whose database is missing creates it empty.   *)
(***************************************************************************)
EXTENDS Naturals, FiniteSets

CONSTANTS
    Procs,        \* processes that may run a command
    Accounts,     \* account ids that may be drawn; never drawn twice
    Subjects,     \* Google accounts
    None,
    MaxAccounts   \* MAX_ACCOUNTS

ASSUME NoneAssumption == None \notin Subjects \cup Accounts \cup Procs
ASSUME MaxAccountsAssumption == MaxAccounts \in Nat \ {0}

VARIABLES
    tag,       \* the registry: the subject each account is registered for
    exists,    \* whether the account has a database
    bound,     \* broker_subject of the database
    token,     \* its refresh credential: none, one that works, a dead one
    mail,      \* whose mail it holds
    grant,     \* the subjects whose grant to this client is live at Google
    lock,      \* the process that holds the installation lock
    pc, subj, acct, empty, revocation,   \* the command of each process
    outcome,   \* what the last command of each process reported
    doomed     \* accounts whose database a removal has deleted (ghost)

command == <<pc, subj, acct, empty, revocation>>
vars == <<tag, exists, bound, token, mail, grant, lock, pc, subj, acct,
          empty, revocation, outcome, doomed>>

Places == {"idle", "signin", "granted", "judged", "created", "bound",
           "registered", "signedIn", "refresh", "revoking", "deleting",
           "removing", "unregister"}
Reports == {"none", "failed", "UnknownAccount", "synced", "Confirmed",
            "Unconfirmed"}

Registered == {a \in Accounts : tag[a] # None}
HasCapacity == Cardinality(Registered) < MaxAccounts

\* find_by_tag, and the duplicate check of register.
AccountFor(s) == {a \in Accounts : tag[a] = s}

\* One type per variable; what a command remembers is cleared at its end.
TypeOK ==
    /\ tag \in [Accounts -> Subjects \cup {None}]
    /\ exists \in [Accounts -> BOOLEAN]
    /\ bound \in [Accounts -> Subjects \cup {None}]
    /\ token \in [Accounts -> {"none", "live", "dead"}]
    /\ mail \in [Accounts -> Subjects \cup {None}]
    /\ grant \subseteq Subjects
    /\ lock \in Procs \cup {None}
    /\ pc \in [Procs -> Places]
    /\ subj \in [Procs -> Subjects \cup {None}]
    /\ acct \in [Procs -> Accounts \cup {None}]
    /\ empty \in [Procs -> BOOLEAN]
    /\ revocation \in [Procs -> {"none", "Confirmed", "Unconfirmed"}]
    /\ outcome \in [Procs -> [what : Reports, acct : Accounts \cup {None},
                              subj : Subjects \cup {None}]]
    /\ doomed \subseteq Accounts

NoOutcome == [what |-> "none", acct |-> None, subj |-> None]

Init ==
    /\ tag = [a \in Accounts |-> None]
    /\ exists = [a \in Accounts |-> FALSE]
    /\ bound = [a \in Accounts |-> None]
    /\ token = [a \in Accounts |-> "none"]
    /\ mail = [a \in Accounts |-> None]
    /\ grant = {}
    /\ lock = None
    /\ pc = [p \in Procs |-> "idle"]
    /\ subj = [p \in Procs |-> None]
    /\ acct = [p \in Procs |-> None]
    /\ empty = [p \in Procs |-> FALSE]
    /\ revocation = [p \in Procs |-> "none"]
    /\ outcome = [p \in Procs |-> NoOutcome]
    /\ doomed = {}

-----------------------------------------------------------------------------
(* Commands begin by taking the lock and give it up when they end.         *)

LockFree == lock = None

\* InstallationLock::acquire; a process that finds it held is refused.
Start(p, where) ==
    /\ pc[p] = "idle"
    /\ LockFree
    /\ lock' = p
    /\ pc' = [pc EXCEPT ![p] = where]
    /\ outcome' = [outcome EXCEPT ![p] = NoOutcome]

Continue(p, from, to) ==
    /\ pc[p] = from
    /\ pc' = [pc EXCEPT ![p] = to]
    /\ UNCHANGED <<lock, outcome>>

\* The command is over: the process exits, and its lock with it.
Exit(p, what) ==
    /\ pc' = [pc EXCEPT ![p] = "idle"]
    /\ lock' = None
    /\ subj' = [subj EXCEPT ![p] = None]
    /\ acct' = [acct EXCEPT ![p] = None]
    /\ empty' = [empty EXCEPT ![p] = FALSE]
    /\ revocation' = [revocation EXCEPT ![p] = "none"]
    /\ outcome' = [outcome EXCEPT ![p] =
                     [what |-> what, acct |-> acct[p], subj |-> subj[p]]]

\* open_store_unchecked: a missing database is created, empty.
Opened(a) == exists' = [exists EXCEPT ![a] = TRUE]

\* Google ends the grant, and with it every credential issued under it.
GrantEnds(s) ==
    /\ grant' = grant \ {s}
    /\ token' = [a \in Accounts |-> IF tag[a] = s /\ token[a] = "live"
                                    THEN "dead" ELSE token[a]]

\* The user withdraws consent on Google's own page.
UserRevokes(s) ==
    /\ s \in grant
    /\ GrantEnds(s)
    /\ UNCHANGED <<tag, exists, bound, mail, lock, command, outcome, doomed>>

\* The process is killed, or the machine stops: what was written remains.
Crash(p) ==
    /\ pc[p] # "idle"
    /\ Exit(p, "none")
    /\ UNCHANGED <<tag, exists, bound, token, mail, grant, doomed>>

\* A read of the registry or a store fails before anything was written,
\* or the browser or the token endpoint gives no answer.
FailEarly(p) ==
    /\ pc[p] \in {"signin", "granted", "refresh"}
    /\ Exit(p, "failed")
    /\ UNCHANGED <<tag, exists, bound, token, mail, grant, doomed>>

-----------------------------------------------------------------------------
(* add_account                                                             *)

AddBegin(p) ==
    /\ HasCapacity
    /\ Start(p, "signin")
    /\ UNCHANGED <<tag, exists, bound, token, mail, grant, subj, acct, empty,
                   revocation, doomed>>

\* The user signs in and the code is exchanged: Google holds a grant.
SignIn(p, s) ==
    /\ Continue(p, "signin", "granted")
    /\ subj' = [subj EXCEPT ![p] = s]
    /\ grant' = grant \cup {s}
    /\ UNCHANGED <<tag, exists, bound, token, mail, acct, empty, revocation,
                   doomed>>

\* complete_authorization reads what is stored before it replaces it.
Snapshot(p) ==
    /\ Continue(p, "granted", "judged")
    /\ exists' = [a \in Accounts |-> exists[a] \/ a \in AccountFor(subj[p])]
    /\ empty' = [empty EXCEPT ![p] =
                   \A a \in AccountFor(subj[p]) : token[a] = "none"]
    /\ UNCHANGED <<tag, bound, token, mail, grant, subj, acct, revocation,
                   doomed>>

\* The answer is unusable, or the store refuses a step: the grant is revoked
\* if nothing was stored before, without looking at whether that worked.
SignInFails(p) ==
    /\ pc[p] \in {"judged", "created", "bound", "registered"}
    /\ \/ empty[p] /\ GrantEnds(subj[p])
       \/ UNCHANGED <<grant, token>>
    /\ Exit(p, "failed")
    /\ UNCHANGED <<tag, exists, bound, mail, doomed>>

\* account_for_subject_or_register finds the account; it is not bound again.
Found(p) ==
    /\ Continue(p, "judged", "registered")
    /\ \E a \in AccountFor(subj[p]) : acct' = [acct EXCEPT ![p] = a]
    /\ UNCHANGED <<tag, exists, bound, token, mail, grant, subj, empty,
                   revocation, doomed>>

\* A new id is drawn and its database created.
Fresh(a) == tag[a] = None /\ ~exists[a] /\ a \notin doomed

CreateStore(p, a) ==
    /\ Continue(p, "judged", "created")
    /\ AccountFor(subj[p]) = {}
    /\ HasCapacity
    /\ Fresh(a)
    /\ acct' = [acct EXCEPT ![p] = a]
    /\ Opened(a)
    /\ UNCHANGED <<tag, bound, token, mail, grant, subj, empty, revocation,
                   doomed>>

\* store_broker_subject in the new database.
BindSubject(p) ==
    /\ Continue(p, "created", "bound")
    /\ bound' = [bound EXCEPT ![acct[p]] = subj[p]]
    /\ UNCHANGED <<tag, exists, token, mail, grant, subj, acct, empty,
                   revocation, doomed>>

\* (mutant of RegistersAt: registered before the subject is bound)
RegistersAtOnce == "created"

RegistersAt == "bound"

\* One transaction: under the limit, no such tag, the row is added.
Register(p) ==
    /\ Continue(p, RegistersAt, "registered")
    /\ HasCapacity
    /\ AccountFor(subj[p]) = {}
    /\ tag' = [tag EXCEPT ![acct[p]] = subj[p]]
    /\ UNCHANGED <<exists, bound, token, mail, grant, subj, acct, empty,
                   revocation, doomed>>

StoreToken(p) ==
    /\ Continue(p, "registered", "signedIn")
    /\ Opened(acct[p])
    /\ token' = [token EXCEPT ![acct[p]] =
                   IF subj[p] \in grant THEN "live" ELSE "dead"]
    /\ UNCHANGED <<tag, bound, mail, grant, subj, acct, empty, revocation,
                   doomed>>

-----------------------------------------------------------------------------
(* sync_account, and the first sync of an added account                    *)

\* subject_of opens the store; an account without a subject is unknown.
SubjectOf(p, a, where) ==
    /\ Start(p, where)
    /\ a \in Registered
    /\ bound[a] # None
    /\ Opened(a)
    /\ acct' = [acct EXCEPT ![p] = a]
    /\ subj' = [subj EXCEPT ![p] = bound[a]]
    /\ UNCHANGED <<tag, bound, token, mail, grant, empty, revocation, doomed>>

SubjectUnknown(p, a) ==
    /\ pc[p] = "idle"
    /\ LockFree
    /\ a \in Registered
    /\ bound[a] = None
    /\ Opened(a)
    /\ outcome' = [outcome EXCEPT ![p] =
                     [what |-> "UnknownAccount", acct |-> a, subj |-> None]]
    /\ UNCHANGED <<tag, bound, token, mail, grant, lock, command, doomed>>

SyncBegin(p, a) == SubjectOf(p, a, "refresh")

\* refresh_access_token finds no credential, or Google has ended the grant:
\* then the credential is deleted.
RefreshRefused(p) ==
    /\ pc[p] = "refresh"
    /\ \A a \in AccountFor(subj[p]) : token[a] # "live"
    /\ token' = [a \in Accounts |-> IF tag[a] = subj[p] THEN "none" ELSE token[a]]
    /\ Exit(p, "failed")
    /\ UNCHANGED <<tag, exists, bound, mail, grant, doomed>>

Refreshed(p) ==
    /\ Continue(p, "refresh", "signedIn")
    /\ \E a \in AccountFor(subj[p]) : token[a] = "live"
    /\ UNCHANGED <<tag, exists, bound, token, mail, grant, subj, acct, empty,
                   revocation, doomed>>

\* sync_with_token: the gated sync fills the mailbox, or fails on the way.
SyncEnds(p) ==
    /\ pc[p] = "signedIn"
    /\ acct[p] \in Registered
    /\ Opened(acct[p])
    /\ \/ /\ mail' = [mail EXCEPT ![acct[p]] = subj[p]]
          /\ Exit(p, "synced")
       \/ /\ mail' \in {mail, [mail EXCEPT ![acct[p]] = subj[p]]}
          /\ Exit(p, "failed")
    /\ UNCHANGED <<tag, bound, token, grant, doomed>>

-----------------------------------------------------------------------------
(* remove_account                                                          *)

RemoveBegin(p, a) == SubjectOf(p, a, "revoking")

\* revoke_provider_grant: with nothing stored there is nothing to revoke; a
\* dead credential is refused by Google, which counts as revoked; otherwise
\* Google revokes and says so, or no answer comes whatever it did.
RevokeGrant(p) ==
    /\ Continue(p, "revoking", "deleting")
    /\ \/ /\ \A a \in AccountFor(subj[p]) : token[a] # "live"
          /\ revocation' = [revocation EXCEPT ![p] = "Confirmed"]
          /\ UNCHANGED <<grant, token>>
       \/ /\ \E a \in AccountFor(subj[p]) : token[a] = "live"
          /\ revocation' = [revocation EXCEPT ![p] = "Confirmed"]
          /\ GrantEnds(subj[p])
       \/ /\ \E a \in AccountFor(subj[p]) : token[a] # "none"
          /\ revocation' = [revocation EXCEPT ![p] = "Unconfirmed"]
          /\ GrantEnds(subj[p]) \/ UNCHANGED <<grant, token>>
    /\ UNCHANGED <<tag, exists, bound, mail, subj, acct, empty, doomed>>

\* delete_stored_tokens; its failure is ignored, the directory goes next.
DeleteToken(p) ==
    /\ Continue(p, "deleting", "removing")
    /\ token' \in {token, [a \in Accounts |-> IF tag[a] = subj[p] THEN "none"
                                             ELSE token[a]]}
    /\ UNCHANGED <<tag, exists, bound, mail, grant, subj, acct, empty,
                   revocation, doomed>>

\* What is left of an account whose database file is gone.
DataGone(a) ==
    /\ exists' = [exists EXCEPT ![a] = FALSE]
    /\ bound' = [bound EXCEPT ![a] = None]
    /\ token' = [token EXCEPT ![a] = "none"]
    /\ mail' = [mail EXCEPT ![a] = None]

\* (mutant of DataRemoved: a deletion that failed is taken for done)
DataMayRemain(a) ==
    \/ DataGone(a)
    \/ UNCHANGED <<exists, bound, token, mail>>

DataRemoved(a) == DataGone(a)

RemoveDir(p) ==
    /\ Continue(p, "removing", "unregister")
    /\ acct[p] \in Registered
    /\ DataRemoved(acct[p])
    /\ doomed' = doomed \cup {acct[p]}
    /\ UNCHANGED <<tag, grant, subj, acct, empty, revocation>>

\* remove_dir_all stops at an error, before or after the database went.
RemoveDirFails(p) ==
    /\ pc[p] = "removing"
    /\ \/ DataGone(acct[p]) /\ doomed' = doomed \cup {acct[p]}
       \/ UNCHANGED <<exists, bound, token, mail, doomed>>
    /\ Exit(p, "failed")
    /\ UNCHANGED <<tag, grant>>

Unregister(p) ==
    /\ pc[p] = "unregister"
    /\ tag' = [tag EXCEPT ![acct[p]] = None]
    /\ Exit(p, revocation[p])
    /\ UNCHANGED <<exists, bound, token, mail, grant, doomed>>

UnregisterFails(p) ==
    /\ pc[p] = "unregister"
    /\ Exit(p, "failed")
    /\ UNCHANGED <<tag, exists, bound, token, mail, grant, doomed>>

-----------------------------------------------------------------------------
Next ==
    \/ \E s \in Subjects : UserRevokes(s)
    \/ \E p \in Procs :
         \/ Crash(p)
         \/ FailEarly(p)
         \/ AddBegin(p)
         \/ \E s \in Subjects : SignIn(p, s)
         \/ Snapshot(p)
         \/ SignInFails(p)
         \/ Found(p)
         \/ \E a \in Accounts : CreateStore(p, a)
         \/ BindSubject(p)
         \/ Register(p)
         \/ StoreToken(p)
         \/ \E a \in Accounts : SyncBegin(p, a)
         \/ \E a \in Accounts : SubjectUnknown(p, a)
         \/ RefreshRefused(p)
         \/ Refreshed(p)
         \/ SyncEnds(p)
         \/ \E a \in Accounts : RemoveBegin(p, a)
         \/ RevokeGrant(p)
         \/ DeleteToken(p)
         \/ RemoveDir(p)
         \/ RemoveDirFails(p)
         \/ Unregister(p)
         \/ UnregisterFails(p)

Spec == Init /\ [][Next]_vars

-----------------------------------------------------------------------------
(* Properties                                                              *)

\* A Google account is registered at most once, however often it is added,
\* interrupted and added again, and whatever became of its credential.
OneAccountPerSubject ==
    \A a, b \in Registered : tag[a] = tag[b] => a = b

\* A registered account has a database bound to the subject it is
\* registered for, whatever interrupted the commands, unless a removal has
\* deleted it (installation.rs:304-307).
RegisteredIsBound ==
    \A a \in Registered \ doomed : exists[a] /\ bound[a] = tag[a]

\* A directory the registry does not know, left by a crash or a failure,
\* holds no credential and no mail: nothing a user could not remove.
OrphansAreEmpty ==
    \A a \in Accounts \ Registered : token[a] = "none" /\ mail[a] = None

\* A mailbox holds mail, and is bound, only to the Google account it is
\* registered for.
MailIsOwn ==
    \A a \in Registered : {mail[a], bound[a]} \subseteq {tag[a], None}

\* The registry and the account directories agree, whatever interrupted the
\* commands and whichever of them ran before.
RegistryMatchesData ==
    /\ OneAccountPerSubject
    /\ RegisteredIsBound
    /\ OrphansAreEmpty
    /\ MailIsOwn

\* A removal that reports its end, whatever Google said, left no database
\* and no registration, and neither comes back.
RemovedIsGone ==
    \A p \in Procs :
        outcome[p].what \in {"Confirmed", "Unconfirmed"} =>
            ~exists[outcome[p].acct] /\ tag[outcome[p].acct] = None

\* An account is reported unknown only if it is not registered: a removal
\* that failed can be retried (installation.rs:242-244).
RemovalCanBeRetried ==
    \A p \in Procs :
        outcome[p].what = "UnknownAccount" => outcome[p].acct \notin Registered

=============================================================================

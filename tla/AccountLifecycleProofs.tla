----------------------- MODULE AccountLifecycleProofs -----------------------
(***************************************************************************)
(* Proofs about AccountLifecycle, for any number of processes, accounts    *)
(* and subjects and any limit on accounts: type correctness, the agreement *)
(* of the registry with the account directories, and what a removal that   *)
(* reports its end has left.                                               *)
(***************************************************************************)
EXTENDS AccountLifecycle, TLAPS

\* Places after sign-in; places of a command on a registered account.
Signed == Places \ {"idle", "signin"}
Serving == {"registered", "signedIn", "refresh", "revoking", "deleting", "removing"}

\* A command runs only under the lock.
HoldsLock == \A p \in Procs : pc[p] # "idle" => lock = p

\* What the command of p knows of its account: made but not registered;
\* registered for the subject that signed in; or deleted.
Local(p) ==
    /\ pc[p] \in Signed => subj[p] \in Subjects
    /\ pc[p] \in {"created", "bound"} =>
         /\ acct[p] \in Accounts \ doomed
         /\ tag[acct[p]] = None /\ exists[acct[p]]
    /\ pc[p] = "bound" => bound[acct[p]] = subj[p]
    /\ pc[p] \in Serving => acct[p] \in Accounts /\ tag[acct[p]] = subj[p]
    /\ pc[p] = "unregister" =>
         /\ acct[p] \in doomed /\ ~exists[acct[p]]
         /\ token[acct[p]] = "none" /\ mail[acct[p]] = None

\* A removal that reported its end was of an account that was deleted.
RemovedInv ==
    \A p \in Procs :
        outcome[p].what \in {"Confirmed", "Unconfirmed"} =>
            /\ outcome[p].acct \in doomed
            /\ ~exists[outcome[p].acct] /\ tag[outcome[p].acct] = None

Agreement ==
    /\ HoldsLock /\ \A p \in Procs : Local(p)
    /\ RemovedInv /\ RegistryMatchesData

IInv == TypeOK /\ Agreement

-----------------------------------------------------------------------------
USE NoneAssumption DEF Places, Reports, Registered, AccountFor, Signed, Serving,
    SubjectOf, Start, Continue, Opened, LockFree, Fresh, RegistersAt, NoOutcome,
    command, DataRemoved, RegistryMatchesData

\* A command that ends leaves its locals and its report well typed.
LEMMA ExitTypes ==
    ASSUME TypeOK, NEW p \in Procs, NEW what \in Reports, Exit(p, what)
    PROVE  /\ pc' \in [Procs -> Places] /\ lock' = None
           /\ subj' \in [Procs -> Subjects \cup {None}]
           /\ acct' \in [Procs -> Accounts \cup {None}]
           /\ empty' \in [Procs -> BOOLEAN]
           /\ revocation' \in [Procs -> {"none", "Confirmed", "Unconfirmed"}]
           /\ outcome' \in [Procs -> [what : Reports, acct : Accounts \cup {None},
                                      subj : Subjects \cup {None}]]
  BY DEF TypeOK, Exit

\* A grant that ends leaves dead credentials where there were live ones.
LEMMA GrantEndsTypes ==
    ASSUME TypeOK, NEW s, GrantEnds(s)
    PROVE  /\ grant' \subseteq Subjects
           /\ token' \in [Accounts -> {"none", "live", "dead"}]
           /\ \A a \in Accounts : token'[a] = "none" <=> token[a] = "none"
  BY DEF TypeOK, GrantEnds

\* So does an account whose database is deleted.
LEMMA DataGoneTypes ==
    ASSUME TypeOK, NEW a \in Accounts, DataGone(a)
    PROVE  /\ exists' \in [Accounts -> BOOLEAN]
           /\ bound' \in [Accounts -> Subjects \cup {None}]
           /\ token' \in [Accounts -> {"none", "live", "dead"}]
           /\ mail' \in [Accounts -> Subjects \cup {None}]
  BY DEF TypeOK, DataGone

\* A command that begins takes the lock; nobody else runs.
LEMMA BeginStep ==
    ASSUME IInv, NEW p \in Procs,
           \/ AddBegin(p)
           \/ \E a \in Accounts : SyncBegin(p, a)
           \/ \E a \in Accounts : RemoveBegin(p, a)
           \/ \E a \in Accounts : SubjectUnknown(p, a)
    PROVE  IInv'
<1> USE DEF IInv, Agreement
<1>1. \A q \in Procs \ {p} : pc[q] = "idle"
  BY DEF HoldsLock, TypeOK, AddBegin, SyncBegin, RemoveBegin, SubjectUnknown
<1>2. TypeOK'
  <2>1. CASE AddBegin(p)
    BY <2>1 DEF AddBegin, TypeOK, Local
  <2>2. CASE \E a \in Accounts : SyncBegin(p, a)
    BY <2>2 DEF SyncBegin, TypeOK, Local
  <2>3. CASE \E a \in Accounts : RemoveBegin(p, a)
    BY <2>3 DEF RemoveBegin, TypeOK, Local
  <2>4. CASE \E a \in Accounts : SubjectUnknown(p, a)
    BY <2>4 DEF SubjectUnknown, TypeOK, Local
  <2> QED
    BY <2>1, <2>2, <2>3, <2>4
<1>3. HoldsLock'
  BY <1>1 DEF TypeOK, HoldsLock, AddBegin, SyncBegin, RemoveBegin,
         SubjectUnknown
<1>4. \A q \in Procs : Local(q)'
  BY <1>1 DEF TypeOK, Local, MailIsOwn,
              AddBegin, SyncBegin, RemoveBegin, SubjectUnknown
<1>5. RemovedInv'
  <2>1. CASE AddBegin(p)
    BY <2>1 DEF AddBegin, TypeOK, RemovedInv, Local
  <2>2. CASE \E a \in Accounts : SyncBegin(p, a)
    BY <2>2 DEF SyncBegin, TypeOK, RemovedInv, Local
  <2>3. CASE \E a \in Accounts : RemoveBegin(p, a)
    BY <2>3 DEF RemoveBegin, TypeOK, RemovedInv, Local
  <2>4. CASE \E a \in Accounts : SubjectUnknown(p, a)
    BY <2>4 DEF SubjectUnknown, TypeOK, RemovedInv, Local
  <2> QED
    BY <2>1, <2>2, <2>3, <2>4
<1>6. RegistryMatchesData'
  BY DEF TypeOK, Local, OneAccountPerSubject,
             RegisteredIsBound, OrphansAreEmpty, MailIsOwn,
         AddBegin, SyncBegin, RemoveBegin, SubjectUnknown
<1> QED
  BY <1>2, <1>3, <1>4, <1>5, <1>6

\* Signing in, and finding the account again, register nothing.
LEMMA SignInStep ==
    ASSUME IInv, NEW p \in Procs,
           \/ \E s \in Subjects : SignIn(p, s)
           \/ Snapshot(p)
           \/ SignInFails(p)
           \/ Found(p)
    PROVE  IInv'
<1> USE DEF IInv, Agreement
<1>1. \A q \in Procs \ {p} : pc[q] = "idle"
  BY DEF HoldsLock, TypeOK, SignIn, Snapshot, SignInFails, Found, Exit,
         GrantEnds
<1>2. TypeOK'
  <2>1. CASE \E s \in Subjects : SignIn(p, s)
    BY <2>1 DEF SignIn, TypeOK, Local
  <2>2. CASE Snapshot(p)
    BY <2>2 DEF Snapshot, TypeOK, Local
  <2>3. CASE SignInFails(p)
    BY <2>3, ExitTypes, GrantEndsTypes DEF SignInFails, TypeOK, Local
  <2>4. CASE Found(p)
    BY <2>4 DEF Found, TypeOK, Local
  <2> QED
    BY <2>1, <2>2, <2>3, <2>4
<1>3. HoldsLock'
  BY <1>1 DEF TypeOK, HoldsLock, SignIn, Snapshot, SignInFails, Found, Exit,
         GrantEnds
<1>4. \A q \in Procs : Local(q)'
  BY <1>1 DEF TypeOK, Local, MailIsOwn,
              SignIn, Snapshot, SignInFails, Found, Exit, GrantEnds
<1>5. RemovedInv'
  <2>1. CASE \E s \in Subjects : SignIn(p, s)
    BY <2>1 DEF SignIn, TypeOK, RemovedInv, Local, Exit, GrantEnds
  <2>2. CASE Snapshot(p)
    BY <2>2 DEF Snapshot, TypeOK, RemovedInv, Local, Exit, GrantEnds
  <2>3. CASE SignInFails(p)
    BY <2>3 DEF SignInFails, TypeOK, RemovedInv, Local, Exit, GrantEnds
  <2>4. CASE Found(p)
    BY <2>4 DEF Found, TypeOK, RemovedInv, Local, Exit, GrantEnds
  <2> QED
    BY <2>1, <2>2, <2>3, <2>4
<1>6. RegistryMatchesData'
  <2>1. /\ UNCHANGED <<tag, bound, mail, doomed>>
        /\ \A a \in Accounts : /\ exists[a] => exists'[a]
                               /\ token[a] = "none" => token'[a] = "none"
    <3>1. CASE \E s \in Subjects : SignIn(p, s)
      BY <3>1 DEF SignIn
    <3>2. CASE Snapshot(p)
      BY <3>2 DEF Snapshot, TypeOK
    <3>3. CASE SignInFails(p)
      BY <3>3 DEF SignInFails, GrantEnds
    <3>4. CASE Found(p)
      BY <3>4 DEF Found
    <3> QED
      BY <3>1, <3>2, <3>3, <3>4
  <2> QED
    BY <2>1 DEF OneAccountPerSubject, RegisteredIsBound, OrphansAreEmpty, MailIsOwn
<1> QED
  BY <1>2, <1>3, <1>4, <1>5, <1>6

\* An account is registered once its new database is bound to a subject
\* that no registered account has.
LEMMA RegisterStep ==
    ASSUME IInv, NEW p \in Procs,
           \/ \E a \in Accounts : CreateStore(p, a)
           \/ BindSubject(p)
           \/ Register(p)
    PROVE  IInv'
<1> USE DEF IInv, Agreement
<1>1. \A q \in Procs \ {p} : pc[q] = "idle"
  <2>1. pc[p] # "idle"
    BY DEF CreateStore, BindSubject, Register, Continue
  <2> QED
    BY <2>1 DEF HoldsLock, TypeOK
<1>2. TypeOK'
  <2>1. CASE \E a \in Accounts : CreateStore(p, a)
    BY <2>1 DEF CreateStore, TypeOK, Local
  <2>2. CASE BindSubject(p)
    BY <2>2 DEF BindSubject, TypeOK, Local
  <2>3. CASE Register(p)
    BY <2>3 DEF Register, TypeOK, Local
  <2> QED
    BY <2>1, <2>2, <2>3
<1>3. HoldsLock'
  BY <1>1 DEF TypeOK, HoldsLock, CreateStore, BindSubject, Register
<1>4. \A q \in Procs : Local(q)'
  BY <1>1 DEF TypeOK, Local, MailIsOwn,
              CreateStore, BindSubject, Register
<1>5. RemovedInv'
  <2>1. CASE \E a \in Accounts : CreateStore(p, a)
    BY <2>1 DEF CreateStore, TypeOK, RemovedInv, Local
  <2>2. CASE BindSubject(p)
    BY <2>2 DEF BindSubject, TypeOK, RemovedInv, Local
  <2>3. CASE Register(p)
    BY <2>3 DEF Register, TypeOK, RemovedInv, Local
  <2> QED
    BY <2>1, <2>2, <2>3
<1>6. RegistryMatchesData'
  <2>1. CASE \E a \in Accounts : CreateStore(p, a)
    BY <2>1 DEF CreateStore, TypeOK, Local, OneAccountPerSubject,
             RegisteredIsBound, OrphansAreEmpty, MailIsOwn
  <2>2. CASE BindSubject(p)
    BY <2>2 DEF BindSubject, TypeOK, Local, OneAccountPerSubject,
             RegisteredIsBound, OrphansAreEmpty, MailIsOwn
  <2>3. CASE Register(p)
    BY <2>3 DEF Register, TypeOK, Local, OneAccountPerSubject,
             RegisteredIsBound, OrphansAreEmpty, MailIsOwn
  <2> QED
    BY <2>1, <2>2, <2>3
<1> QED
  BY <1>2, <1>3, <1>4, <1>5, <1>6

\* What a sync writes goes to the account of its subject.
LEMMA SyncStep ==
    ASSUME IInv, NEW p \in Procs,
           \/ StoreToken(p)
           \/ RefreshRefused(p)
           \/ Refreshed(p)
           \/ SyncEnds(p)
    PROVE  IInv'
<1> USE DEF IInv, Agreement
<1>1. \A q \in Procs \ {p} : pc[q] = "idle"
  <2>1. pc[p] # "idle"
    BY DEF StoreToken, RefreshRefused, Refreshed, SyncEnds, Continue
  <2> QED
    BY <2>1 DEF HoldsLock, TypeOK
<1>2. TypeOK'
  <2>1. CASE StoreToken(p)
    BY <2>1 DEF StoreToken, TypeOK, Local
  <2>2. CASE RefreshRefused(p)
    BY <2>2, ExitTypes DEF RefreshRefused, TypeOK, Local
  <2>3. CASE Refreshed(p)
    BY <2>3 DEF Refreshed, TypeOK, Local
  <2>4. CASE SyncEnds(p)
    <3>1. PICK what \in {"synced", "failed"} : Exit(p, what)
      BY <2>4 DEF SyncEnds
    <3>2. /\ acct[p] \in Accounts /\ subj[p] \in Subjects /\ Opened(acct[p])
          /\ mail' \in {mail, [mail EXCEPT ![acct[p]] = subj[p]]}
          /\ UNCHANGED <<tag, bound, token, grant, doomed>>
      BY <2>4 DEF SyncEnds, Local
    <3>3. /\ mail' \in [Accounts -> Subjects \cup {None}]
          /\ exists' \in [Accounts -> BOOLEAN]
      BY <3>2 DEF TypeOK
    <3> QED
      BY <3>1, <3>2, <3>3, ExitTypes DEF TypeOK
  <2> QED
    BY <2>1, <2>2, <2>3, <2>4
<1>3. HoldsLock'
  <2>1. CASE StoreToken(p)
    BY <1>1, <2>1 DEF StoreToken, TypeOK, HoldsLock, Exit
  <2>2. CASE RefreshRefused(p)
    BY <1>1, <2>2 DEF RefreshRefused, TypeOK, HoldsLock, Exit
  <2>3. CASE Refreshed(p)
    BY <1>1, <2>3 DEF Refreshed, TypeOK, HoldsLock, Exit
  <2>4. CASE SyncEnds(p)
    BY <1>1, <2>4 DEF SyncEnds, TypeOK, HoldsLock, Exit
  <2> QED
    BY <2>1, <2>2, <2>3, <2>4
<1>4. \A q \in Procs : Local(q)'
  <2>1. CASE StoreToken(p)
    BY <1>1, <2>1 DEF StoreToken, TypeOK, Local, MailIsOwn, Exit
  <2>2. CASE RefreshRefused(p)
    BY <1>1, <2>2 DEF RefreshRefused, TypeOK, Local, MailIsOwn, Exit
  <2>3. CASE Refreshed(p)
    BY <1>1, <2>3 DEF Refreshed, TypeOK, Local, MailIsOwn, Exit
  <2>4. CASE SyncEnds(p)
    <3>1. pc' = [pc EXCEPT ![p] = "idle"]
      BY <2>4 DEF SyncEnds, Exit
    <3>2. \A q \in Procs : pc'[q] = "idle"
      BY <1>1, <3>1 DEF TypeOK
    <3> QED
      BY <3>2 DEF Local
  <2> QED
    BY <2>1, <2>2, <2>3, <2>4
<1>5. RemovedInv'
  <2>1. CASE StoreToken(p)
    <3>1. /\ tag[acct[p]] # None /\ exists' = [exists EXCEPT ![acct[p]] = TRUE]
          /\ UNCHANGED <<tag, doomed, outcome>>
      BY <2>1 DEF StoreToken, Local
    <3>2. \A a \in Accounts : tag[a] = None => exists'[a] = exists[a]
      BY <3>1 DEF TypeOK
    <3>3. \A q \in Procs : outcome[q].what \in {"Confirmed", "Unconfirmed"} =>
                              outcome[q].acct \in Accounts
      BY DEF RemovedInv, TypeOK
    <3> QED
      BY <3>1, <3>2, <3>3 DEF RemovedInv
  <2>2. CASE RefreshRefused(p)
    BY <2>2 DEF RefreshRefused, TypeOK, RemovedInv, Local, Exit
  <2>3. CASE Refreshed(p)
    BY <2>3 DEF Refreshed, TypeOK, RemovedInv, Local, Exit
  <2>4. CASE SyncEnds(p)
    <3>1. /\ tag[acct[p]] # None /\ exists' = [exists EXCEPT ![acct[p]] = TRUE]
          /\ UNCHANGED <<tag, doomed>>
      BY <2>4 DEF SyncEnds, Local
    <3>2. /\ \A q \in Procs \ {p} : outcome'[q] = outcome[q]
          /\ outcome'[p].what \in {"synced", "failed"}
      BY <2>4 DEF SyncEnds, Exit, TypeOK
    <3> QED
      BY <3>1, <3>2 DEF RemovedInv, TypeOK
  <2> QED
    BY <2>1, <2>2, <2>3, <2>4
<1>6. RegistryMatchesData'
  <2>1. CASE StoreToken(p)
    BY <2>1 DEF StoreToken, TypeOK, Local, OneAccountPerSubject,
             RegisteredIsBound, OrphansAreEmpty, MailIsOwn, Exit
  <2>2. CASE RefreshRefused(p)
    BY <2>2 DEF RefreshRefused, TypeOK, Local, OneAccountPerSubject,
             RegisteredIsBound, OrphansAreEmpty, MailIsOwn, Exit
  <2>3. CASE Refreshed(p)
    BY <2>3 DEF Refreshed, TypeOK, Local, OneAccountPerSubject,
             RegisteredIsBound, OrphansAreEmpty, MailIsOwn, Exit
  <2>4. CASE SyncEnds(p)
    <3>1. /\ acct[p] \in Accounts /\ tag[acct[p]] = subj[p] /\ subj[p] \in Subjects
          /\ mail' \in {mail, [mail EXCEPT ![acct[p]] = subj[p]]}
          /\ exists' = [exists EXCEPT ![acct[p]] = TRUE]
          /\ UNCHANGED <<tag, bound, token, doomed>>
      BY <2>4 DEF SyncEnds, Local
    <3>2. \A a \in Accounts : mail'[a] = mail[a] \/ (a = acct[p] /\ mail'[a] = tag[a])
      BY <3>1 DEF TypeOK
    <3>3. \A a \in Accounts : exists[a] => exists'[a]
      BY <3>1 DEF TypeOK
    <3> QED
      BY <3>1, <3>2, <3>3 DEF OneAccountPerSubject,
         RegisteredIsBound, OrphansAreEmpty, MailIsOwn
  <2> QED
    BY <2>1, <2>2, <2>3, <2>4
<1> QED
  BY <1>2, <1>3, <1>4, <1>5, <1>6

\* A removal touches no account but its own and deletes that one's data.
LEMMA RemoveStep ==
    ASSUME IInv, NEW p \in Procs,
           \/ RevokeGrant(p)
           \/ DeleteToken(p)
           \/ RemoveDir(p)
           \/ RemoveDirFails(p)
    PROVE  IInv'
<1> USE DEF IInv, Agreement
<1>1. \A q \in Procs \ {p} : pc[q] = "idle"
  <2>1. pc[p] # "idle"
    BY DEF RevokeGrant, DeleteToken, RemoveDir, RemoveDirFails, Continue
  <2> QED
    BY <2>1 DEF HoldsLock, TypeOK
<1>2. TypeOK'
  <2>1. CASE RevokeGrant(p)
    <3>1. /\ pc[p] = "revoking" /\ pc' = [pc EXCEPT ![p] = "deleting"]
          /\ UNCHANGED <<lock, outcome, tag, exists, bound, mail, subj, acct, empty, doomed>>
      BY <2>1 DEF RevokeGrant, Continue
    <3>2. \E w \in {"Confirmed", "Unconfirmed"} : revocation' = [revocation EXCEPT ![p] = w]
      BY <2>1 DEF RevokeGrant
    <3>3. GrantEnds(subj[p]) \/ UNCHANGED <<grant, token>>
      BY <2>1 DEF RevokeGrant
    <3>4. /\ grant' \subseteq Subjects
          /\ token' \in [Accounts -> {"none", "live", "dead"}]
      BY <3>3, GrantEndsTypes DEF TypeOK
    <3> QED
      BY <3>1, <3>2, <3>4 DEF TypeOK
  <2>2. CASE DeleteToken(p)
    BY <2>2 DEF DeleteToken, TypeOK, Local
  <2>3. CASE RemoveDir(p)
    BY <2>3, DataGoneTypes DEF RemoveDir, TypeOK, Local
  <2>4. CASE RemoveDirFails(p)
    BY <2>4, ExitTypes, DataGoneTypes DEF RemoveDirFails, TypeOK, Local
  <2> QED
    BY <2>1, <2>2, <2>3, <2>4
<1>3. HoldsLock'
  <2>1. CASE RevokeGrant(p)
    BY <1>1, <2>1 DEF RevokeGrant, TypeOK, HoldsLock, Exit
  <2>2. CASE DeleteToken(p)
    BY <1>1, <2>2 DEF DeleteToken, TypeOK, HoldsLock, Exit
  <2>3. CASE RemoveDir(p)
    BY <1>1, <2>3 DEF RemoveDir, TypeOK, HoldsLock, Exit
  <2>4. CASE RemoveDirFails(p)
    BY <1>1, <2>4 DEF RemoveDirFails, TypeOK, HoldsLock, Exit
  <2> QED
    BY <2>1, <2>2, <2>3, <2>4
<1>4. \A q \in Procs : Local(q)'
  <2>1. CASE RevokeGrant(p)
    BY <1>1, <2>1 DEF RevokeGrant, TypeOK, Local, MailIsOwn, Exit, GrantEnds, DataGone
  <2>2. CASE DeleteToken(p)
    BY <1>1, <2>2 DEF DeleteToken, TypeOK, Local, MailIsOwn, Exit, GrantEnds, DataGone
  <2>3. CASE RemoveDir(p)
    BY <1>1, <2>3 DEF RemoveDir, TypeOK, Local, MailIsOwn, Exit, GrantEnds, DataGone
  <2>4. CASE RemoveDirFails(p)
    BY <1>1, <2>4 DEF RemoveDirFails, TypeOK, Local, MailIsOwn, Exit, GrantEnds, DataGone
  <2> QED
    BY <2>1, <2>2, <2>3, <2>4
<1>5. RemovedInv'
  <2>1. CASE RevokeGrant(p)
    BY <2>1 DEF RevokeGrant, TypeOK, RemovedInv, Local, Exit, GrantEnds,
           DataGone
  <2>2. CASE DeleteToken(p)
    BY <2>2 DEF DeleteToken, TypeOK, RemovedInv, Local, Exit, GrantEnds,
           DataGone
  <2>3. CASE RemoveDir(p)
    BY <2>3 DEF RemoveDir, TypeOK, RemovedInv, Local, Exit, GrantEnds,
           DataGone
  <2>4. CASE RemoveDirFails(p)
    BY <2>4 DEF RemoveDirFails, TypeOK, RemovedInv, Local, Exit, GrantEnds,
           DataGone
  <2> QED
    BY <2>1, <2>2, <2>3, <2>4
<1>6. RegistryMatchesData'
  <2>1. CASE RevokeGrant(p)
    BY <2>1 DEF RevokeGrant, TypeOK, Local, OneAccountPerSubject,
             RegisteredIsBound, OrphansAreEmpty, MailIsOwn, Exit, GrantEnds, DataGone
  <2>2. CASE DeleteToken(p)
    BY <2>2 DEF DeleteToken, TypeOK, Local, OneAccountPerSubject,
             RegisteredIsBound, OrphansAreEmpty, MailIsOwn, Exit, GrantEnds, DataGone
  <2>3. CASE RemoveDir(p)
    BY <2>3 DEF RemoveDir, TypeOK, Local, OneAccountPerSubject,
             RegisteredIsBound, OrphansAreEmpty, MailIsOwn, Exit, GrantEnds, DataGone
  <2>4. CASE RemoveDirFails(p)
    BY <2>4 DEF RemoveDirFails, TypeOK, Local, OneAccountPerSubject,
             RegisteredIsBound, OrphansAreEmpty, MailIsOwn, Exit, GrantEnds, DataGone
  <2> QED
    BY <2>1, <2>2, <2>3, <2>4
<1> QED
  BY <1>2, <1>3, <1>4, <1>5, <1>6

\* An account leaves the registry after its data; a command that stops leaves
\* what it wrote.
LEMMA StopStep ==
    ASSUME IInv, NEW p \in Procs,
           \/ Unregister(p)
           \/ UnregisterFails(p)
           \/ Crash(p)
           \/ FailEarly(p)
    PROVE  IInv'
<1> USE DEF IInv, Agreement
<1>1. \A q \in Procs \ {p} : pc[q] = "idle"
  <2>1. pc[p] # "idle"
    BY DEF Unregister, UnregisterFails, Crash, FailEarly, Continue
  <2> QED
    BY <2>1 DEF HoldsLock, TypeOK
<1>2. TypeOK'
  <2>1. CASE Unregister(p)
    <3>1. /\ Exit(p, revocation[p]) /\ revocation[p] \in Reports
          /\ tag' = [tag EXCEPT ![acct[p]] = None]
          /\ UNCHANGED <<exists, bound, token, mail, grant, doomed>>
      BY <2>1 DEF Unregister, TypeOK
    <3>2. tag' \in [Accounts -> Subjects \cup {None}]
      BY <3>1 DEF TypeOK
    <3> QED
      BY <3>1, <3>2, ExitTypes DEF TypeOK
  <2>2. CASE UnregisterFails(p)
    BY <2>2, ExitTypes DEF UnregisterFails, TypeOK, Local
  <2>3. CASE Crash(p)
    BY <2>3, ExitTypes DEF Crash, TypeOK, Local
  <2>4. CASE FailEarly(p)
    BY <2>4, ExitTypes DEF FailEarly, TypeOK, Local
  <2> QED
    BY <2>1, <2>2, <2>3, <2>4
<1>3. HoldsLock'
  BY <1>1 DEF TypeOK, HoldsLock, Unregister, UnregisterFails, Crash,
         FailEarly, Exit
<1>4. \A q \in Procs : Local(q)'
  <2>1. CASE Unregister(p)
    BY <1>1, <2>1 DEF Unregister, TypeOK, Local, MailIsOwn, Exit
  <2>2. CASE UnregisterFails(p)
    BY <1>1, <2>2 DEF UnregisterFails, TypeOK, Local, MailIsOwn, Exit
  <2>3. CASE Crash(p)
    BY <1>1, <2>3 DEF Crash, TypeOK, Local, MailIsOwn, Exit
  <2>4. CASE FailEarly(p)
    BY <1>1, <2>4 DEF FailEarly, TypeOK, Local, MailIsOwn, Exit
  <2> QED
    BY <2>1, <2>2, <2>3, <2>4
<1>5. RemovedInv'
  <2>1. CASE Unregister(p)
    BY <2>1 DEF Unregister, TypeOK, RemovedInv, Local, Exit
  <2>2. CASE UnregisterFails(p)
    BY <2>2 DEF UnregisterFails, TypeOK, RemovedInv, Local, Exit
  <2>3. CASE Crash(p)
    BY <2>3 DEF Crash, TypeOK, RemovedInv, Local, Exit
  <2>4. CASE FailEarly(p)
    BY <2>4 DEF FailEarly, TypeOK, RemovedInv, Local, Exit
  <2> QED
    BY <2>1, <2>2, <2>3, <2>4
<1>6. RegistryMatchesData'
  <2>1. CASE Unregister(p)
    BY <2>1 DEF Unregister, TypeOK, Local, OneAccountPerSubject, RegisteredIsBound,
             OrphansAreEmpty, MailIsOwn, Exit
  <2>2. CASE UnregisterFails(p)
    BY <2>2 DEF UnregisterFails, TypeOK, Local, OneAccountPerSubject, RegisteredIsBound,
             OrphansAreEmpty, MailIsOwn, Exit
  <2>3. CASE Crash(p)
    BY <2>3 DEF Crash, TypeOK, Local, OneAccountPerSubject, RegisteredIsBound,
             OrphansAreEmpty, MailIsOwn, Exit
  <2>4. CASE FailEarly(p)
    BY <2>4 DEF FailEarly, TypeOK, Local, OneAccountPerSubject, RegisteredIsBound,
             OrphansAreEmpty, MailIsOwn, Exit
  <2> QED
    BY <2>1, <2>2, <2>3, <2>4
<1> QED
  BY <1>2, <1>3, <1>4, <1>5, <1>6

-----------------------------------------------------------------------------
(* The theorems.                                                           *)

\* Nothing is registered, and nothing stored, at first.
LEMMA InitIInv == Init => IInv
<1> SUFFICES ASSUME Init PROVE IInv
  OBVIOUS
<1>1. TypeOK
  BY DEF Init, TypeOK
<1>2. Agreement
  BY DEF Init, Agreement, HoldsLock, Local, RemovedInv, OneAccountPerSubject,
         RegisteredIsBound,
         OrphansAreEmpty, MailIsOwn
<1> QED
  BY <1>1, <1>2 DEF IInv

\* The user may end a grant at any moment: credentials die, none appears.
LEMMA UserRevokesStep ==
    ASSUME IInv, NEW s \in Subjects, UserRevokes(s)
    PROVE  IInv'
<1> USE DEF IInv, UserRevokes
<1>1. TypeOK'
  BY GrantEndsTypes DEF TypeOK
<1>2. \A a \in Accounts : token'[a] = "none" <=> token[a] = "none"
  BY GrantEndsTypes
<1>3. Agreement'
  BY <1>2 DEF TypeOK, Agreement, HoldsLock, Local, RemovedInv,
         OneAccountPerSubject, RegisteredIsBound, OrphansAreEmpty, MailIsOwn
<1> QED
  BY <1>1, <1>3

\* Every step keeps the invariant, of whichever process.
LEMMA NextIInv == IInv /\ [Next]_vars => IInv'
<1> SUFFICES ASSUME IInv, [Next]_vars PROVE IInv'
  OBVIOUS
<1>1. ASSUME NEW s \in Subjects, UserRevokes(s)
      PROVE  IInv'
  BY <1>1, UserRevokesStep
<1>2. ASSUME NEW p \in Procs,
             \/ AddBegin(p)
             \/ \E a \in Accounts : SyncBegin(p, a)
             \/ \E a \in Accounts : RemoveBegin(p, a)
             \/ \E a \in Accounts : SubjectUnknown(p, a)
      PROVE  IInv'
  BY <1>2, BeginStep
<1>3. ASSUME NEW p \in Procs,
             \/ \E s \in Subjects : SignIn(p, s)
             \/ Snapshot(p) \/ SignInFails(p) \/ Found(p)
      PROVE  IInv'
  BY <1>3, SignInStep
<1>4. ASSUME NEW p \in Procs,
             \/ \E a \in Accounts : CreateStore(p, a)
             \/ BindSubject(p) \/ Register(p)
      PROVE  IInv'
  BY <1>4, RegisterStep
<1>5. ASSUME NEW p \in Procs,
             \/ StoreToken(p) \/ RefreshRefused(p) \/ Refreshed(p) \/ SyncEnds(p)
             \/ RevokeGrant(p) \/ DeleteToken(p) \/ RemoveDir(p) \/ RemoveDirFails(p)
             \/ Unregister(p) \/ UnregisterFails(p) \/ Crash(p) \/ FailEarly(p)
      PROVE  IInv'
  BY <1>5, SyncStep, RemoveStep, StopStep
<1>6. CASE UNCHANGED vars
  BY <1>6 DEF IInv, TypeOK, Agreement, HoldsLock, Local, RemovedInv,
         OneAccountPerSubject, RegisteredIsBound, OrphansAreEmpty, MailIsOwn, vars
<1> QED
  BY <1>1, <1>2, <1>3, <1>4, <1>5, <1>6 DEF Next

\* The inductive invariant holds throughout.
THEOREM Inductive == Spec => []IInv
  BY InitIInv, NextIInv, PTL DEF Spec

\* Every variable keeps its type.
THEOREM TypeCorrect == Spec => []TypeOK
<1>1. IInv => TypeOK
  BY DEF IInv
<1> QED
  BY <1>1, Inductive, PTL

\* The registry and the account directories agree, whatever interrupted the
\* commands: one account of each subject, each bound to its own, and nothing
\* in what the registry does not know.
THEOREM RegistryCorrect == Spec => []RegistryMatchesData
<1>1. IInv => RegistryMatchesData
  BY DEF IInv, Agreement
<1> QED
  BY <1>1, Inductive, PTL

\* What a removal reported as removed is gone, and does not come back.
THEOREM RemovedCorrect == Spec => []RemovedIsGone
<1>1. IInv => RemovedIsGone
  BY DEF IInv, Agreement, RemovedInv, RemovedIsGone
<1> QED
  BY <1>1, Inductive, PTL
=============================================================================

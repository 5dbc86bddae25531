---------------------------- MODULE BrokerProofs ----------------------------
(***************************************************************************)
(* Proofs about the two halves of the token broker's core.                 *)
(*                                                                         *)
(* TokenBroker, for any number of accounts, calls and credentials. The     *)
(* argument is one: a call that holds a subject's permit is alone in       *)
(* changing what is stored for it (OneMutationPerSubject), so what the     *)
(* call learnt of the store stays true while it waits for Google           *)
(* (CallInv), and what it reports is true when it returns.                 *)
(*                                                                         *)
(* PendingSessions, for any number of attempts, handles, units of time and *)
(* connections. A session is in one place only: under one handle, or with  *)
(* the one attempt that claimed it (PlaceInv); and while it is anywhere it *)
(* has judged nothing (UsedInv).                                           *)
(***************************************************************************)
EXTENDS TokenBroker, PendingSessions, FiniteSetTheorems, TLAPS


USE DEF Outside, Holding

\* What a call knows, at each place.
CallInv(c) ==
    /\ pc[c] \notin {"idle", "exchange"} => subject[c] \in Subjects
    /\ op[c] = "complete" /\ pc[c] # "exchange"
         => token[c] \in OfSubject(subject[c])
    /\ pc[c] \in {"judge", "stranded"} => op[c] = "complete"
    /\ pc[c] \in {"judge", "stranded"} /\ empty[c]
         => stored[subject[c]] = NoToken
    /\ pc[c] = "stranded" => empty[c]
    /\ pc[c] \in {"refreshing", "revoking", "retrying", "success"}
         => /\ stored[subject[c]] = token[c]
            /\ token[c] \in OfSubject(subject[c])
    /\ pc[c] \in {"rotate", "retain"} => token[c] \in OfSubject(subject[c])
    /\ pc[c] = "consentRevoked" => stored[subject[c]] = NoToken
    /\ pc[c] = "confirmed" => stored[subject[c]] \notin alive

IInv ==
    /\ TypeOK
    /\ OneMutationPerSubject
    /\ StoredIsOwn
    /\ \A c \in Calls : CallInv(c)

-----------------------------------------------------------------------------

LEMMA InitIInv == Init => IInv
  BY NoTokenAssumption
     DEF Init, IInv, TypeOK, OneMutationPerSubject, StoredIsOwn, CallInv, Ops

\* A call that the step does not move still knows what it knew, when what is
\* stored for its account is untouched and Google honours, of what is in
\* use, nothing it did not honour before.
Unmoved(d) ==
    /\ pc'[d] = pc[d]
    /\ op'[d] = op[d]
    /\ subject'[d] = subject[d]
    /\ token'[d] = token[d]
    /\ empty'[d] = empty[d]

LEMMA Frame ==
    ASSUME NEW d \in Calls, CallInv(d), Unmoved(d),
           pc[d] \in Holding => stored'[subject[d]] = stored[subject[d]],
           pc[d] = "confirmed" => stored[subject[d]] \notin alive'
    PROVE  CallInv(d)'
  BY DEF CallInv, Unmoved

\* Minting honours no credential that is in use.
LEMMA MintIsFresh ==
    ASSUME TypeOK, NEW t \in Tokens, Mint(t), NEW s \in Subjects,
           stored[s] \notin alive
    PROVE  stored[s] \notin alive'
  BY DEF Mint, InUse

\* A call that returns.
LEMMA LeaveTypes ==
    ASSUME TypeOK, NEW c \in Calls, Leave(c), stored' = stored,
           alive' \subseteq Tokens
    PROVE  TypeOK'
  BY DEF TypeOK, Leave, Released, Goto, Ops

LEMMA LeaveCall ==
    ASSUME TypeOK, NEW c \in Calls, Leave(c)
    PROVE  /\ CallInv(c)'
           /\ \A d \in Calls \ {c} : Unmoved(d)
  BY DEF TypeOK, Leave, Goto, CallInv, Unmoved

\* The permits follow the calls that hold one, when one call returns or
\* moves among the places it may be while it holds its permit.
LEMMA LeaveExclusion ==
    ASSUME TypeOK, OneMutationPerSubject, NEW c \in Calls, Leave(c)
    PROVE  OneMutationPerSubject'
<1>1. \A d \in Calls : pc'[d] = (IF d = c THEN "idle" ELSE pc[d])
  BY DEF TypeOK, Leave, Goto
<1>2. \A d \in Calls \ {c} : subject'[d] = subject[d]
  BY DEF TypeOK, Leave
<1>3. {subject'[d] : d \in {e \in Calls : pc'[e] \in Holding}}
        = {subject[d] : d \in {e \in Calls \ {c} : pc[e] \in Holding}}
  BY <1>1, <1>2
<1>4. permits' = {subject[d] : d \in {e \in Calls \ {c} : pc[e] \in Holding}}
  BY DEF Leave, Released, OneMutationPerSubject
<1> QED
  BY <1>1, <1>2, <1>3, <1>4 DEF OneMutationPerSubject

LEMMA HoldExclusion ==
    ASSUME OneMutationPerSubject, UNCHANGED <<permits, subject>>,
           \A d \in Calls : pc'[d] \in Holding <=> pc[d] \in Holding
    PROVE  OneMutationPerSubject'
<1>1. {d \in Calls : pc'[d] \in Holding} = {d \in Calls : pc[d] \in Holding}
  OBVIOUS
<1> QED
  BY <1>1 DEF OneMutationPerSubject

\* What has to be shown of a step of call c: its own knowledge, the types,
\* the permits, and that it leaves the others' accounts alone.
LEMMA CallStep ==
    ASSUME IInv, NEW c \in Calls,
           TypeOK', OneMutationPerSubject', CallInv(c)',
           \A d \in Calls \ {c} : Unmoved(d),
           \A s \in Subjects : stored[s] \notin alive => stored[s] \notin alive',
           \/ UNCHANGED stored
           \/ /\ pc[c] \in Holding
              /\ \E v \in OfSubject(subject[c]) \cup {NoToken} :
                   stored' = [stored EXCEPT ![subject[c]] = v]
    PROVE  IInv'
<1>1. StoredIsOwn'
  BY DEF IInv, TypeOK, StoredIsOwn, OfSubject
<1>2. ASSUME NEW d \in Calls \ {c}
      PROVE  CallInv(d)'
  <2>1. pc[d] \in Holding => stored'[subject[d]] = stored[subject[d]]
    BY DEF IInv, TypeOK, OneMutationPerSubject
  <2>2. pc[d] = "confirmed" => stored[subject[d]] \notin alive'
    BY DEF IInv, CallInv
  <2> QED
    BY <2>1, <2>2, Frame DEF IInv
<1> QED
  BY <1>1, <1>2 DEF IInv

\* A call that moves on, with what is stored and honoured unchanged.
LEMMA QuietStep ==
    ASSUME IInv, NEW c \in Calls, UNCHANGED <<stored, alive>>,
           TypeOK', OneMutationPerSubject', CallInv(c)',
           \A d \in Calls \ {c} : Unmoved(d)
    PROVE  IInv'
  BY CallStep

LEMMA ReturnStep == ASSUME IInv, NEW c \in Calls, Return(c)
                    PROVE  IInv'
<1>1. TypeOK'
  BY LeaveTypes DEF IInv, TypeOK, Return
<1> QED
  BY <1>1, QuietStep, LeaveCall, LeaveExclusion DEF IInv, Return

LEMMA BeginStep == ASSUME IInv, NEW c \in Calls, Begin(c)
                   PROVE  IInv'
<1>1. UNCHANGED <<stored, alive>>
  BY DEF Begin, StartComplete, Start
<1>2. TypeOK'
  BY DEF IInv, TypeOK, Begin, StartComplete, Start, Goto, Ops
<1>3. \A d \in Calls \ {c} : Unmoved(d)
  BY DEF IInv, TypeOK, Begin, StartComplete, Start, Goto, Unmoved
<1>4. CallInv(c)'
  BY DEF IInv, TypeOK, Begin, StartComplete, Start, Goto, CallInv, Ops
<1>5. OneMutationPerSubject'
  <2>1. pc[c] = "idle" /\ pc'[c] \in {"exchange", "claim"} /\ permits' = permits
    BY DEF IInv, TypeOK, Begin, StartComplete, Start, Goto
  <2>2. {d \in Calls : pc'[d] \in Holding} = {d \in Calls : pc[d] \in Holding}
    BY <1>3, <2>1 DEF Unmoved
  <2>3. \A d \in Calls : pc'[d] \in Holding => subject'[d] = subject[d]
    BY <1>3, <2>1 DEF Unmoved
  <2>4. {subject'[d] : d \in {e \in Calls : pc'[e] \in Holding}}
          = {subject[d] : d \in {e \in Calls : pc[e] \in Holding}}
    BY <2>2, <2>3
  <2> QED
    BY <2>1, <2>2, <2>3, <2>4 DEF OneMutationPerSubject, IInv
<1> QED
  BY <1>1, <1>2, <1>3, <1>4, <1>5, QuietStep

LEMMA ClaimStep == ASSUME IInv, NEW c \in Calls, ClaimPermit(c)
                   PROVE  IInv'
<1>1. TypeOK'
  BY DEF IInv, TypeOK, CallInv, ClaimPermit, Goto
<1>2. \A d \in Calls \ {c} : Unmoved(d)
  BY DEF IInv, TypeOK, ClaimPermit, Goto, Unmoved
<1>3. CallInv(c)'
  BY DEF IInv, TypeOK, ClaimPermit, Goto, CallInv
<1>4. OneMutationPerSubject'
  <2>1. /\ pc[c] = "claim" /\ pc' = [pc EXCEPT ![c] = "held"]
        /\ subject' = subject /\ permits' = permits \cup {subject[c]}
        /\ subject[c] \notin permits
    BY DEF ClaimPermit, PermitFree, Goto
  <2>2. {d \in Calls : pc'[d] \in Holding}
          = {d \in Calls : pc[d] \in Holding} \cup {c}
    BY <2>1 DEF IInv, TypeOK
  <2>3. \A d \in Calls : pc[d] \in Holding => subject[d] # subject[c]
    BY <2>1 DEF IInv, OneMutationPerSubject
  <2> QED
    BY <2>1, <2>2, <2>3 DEF IInv, OneMutationPerSubject
<1> QED
  BY <1>1, <1>2, <1>3, <1>4, QuietStep DEF ClaimPermit

LEMMA CompleteStep == ASSUME IInv, NEW c \in Calls, Complete(c)
                      PROVE  IInv'
<1>1. CASE Exchanged(c)
  <2>1. PICK t \in Tokens :
          /\ Mint(t)
          /\ subject' = [subject EXCEPT ![c] = Owner(t)]
          /\ token' = [token EXCEPT ![c] = t]
    BY <1>1 DEF Exchanged
  <2>2. Owner(t) \in Subjects /\ t \in OfSubject(Owner(t))
    BY DEF Tokens, Owner, OfSubject
  <2>3. TypeOK'
    BY <1>1, <2>1, <2>2 DEF IInv, TypeOK, Exchanged, Goto, Mint
  <2>4. \A d \in Calls \ {c} : Unmoved(d)
    BY <1>1, <2>1 DEF IInv, TypeOK, Exchanged, Goto, Unmoved
  <2>5. CallInv(c)'
    BY <1>1, <2>1, <2>2 DEF IInv, TypeOK, Exchanged, Goto, CallInv
  <2>6. OneMutationPerSubject'
    <3>1. pc[c] = "exchange" /\ pc'[c] = "claim" /\ permits' = permits
      BY <1>1 DEF IInv, TypeOK, Exchanged, Goto
    <3>2. {d \in Calls : pc'[d] \in Holding} = {d \in Calls : pc[d] \in Holding}
      BY <2>4, <3>1 DEF Unmoved
    <3>3. \A d \in Calls : pc'[d] \in Holding => subject'[d] = subject[d]
      BY <2>4, <3>1 DEF Unmoved
    <3>4. {subject'[d] : d \in {e \in Calls : pc'[e] \in Holding}}
            = {subject[d] : d \in {e \in Calls : pc[e] \in Holding}}
      BY <3>2, <3>3
    <3> QED
      BY <3>1, <3>2, <3>3, <3>4 DEF OneMutationPerSubject, IInv
  <2>7. \A s \in Subjects : stored[s] \notin alive => stored[s] \notin alive'
    BY <2>1, MintIsFresh DEF IInv
  <2> QED
    BY <1>1, <2>3, <2>4, <2>5, <2>6, <2>7, CallStep DEF Exchanged
<1>2. CASE Snapshot(c) \/ StrandGrant(c)
  <2>1. TypeOK'
    BY <1>2 DEF IInv, TypeOK, Snapshot, StrandGrant, Goto
  <2>2. \A d \in Calls \ {c} : Unmoved(d)
    BY <1>2 DEF IInv, TypeOK, Snapshot, StrandGrant, Goto, Unmoved
  <2>3. CallInv(c)'
    BY <1>2 DEF IInv, TypeOK, Snapshot, StrandGrant, LicensesRevoke, Goto,
                CallInv
  <2>4. \A d \in Calls : pc'[d] \in Holding <=> pc[d] \in Holding
    BY <1>2 DEF IInv, TypeOK, Snapshot, StrandGrant, Goto
  <2>5. UNCHANGED <<stored, alive, permits, subject>>
    BY <1>2 DEF Snapshot, StrandGrant
  <2> QED
    BY <2>1, <2>2, <2>3, <2>4, <2>5, HoldExclusion, QuietStep DEF IInv
<1>3. CASE AcceptGrant(c)
  <2>1. /\ pc[c] = "judge" /\ token[c] \in OfSubject(subject[c])
        /\ subject[c] \in Subjects
    BY <1>3 DEF IInv, AcceptGrant, CallInv
  <2>2. TypeOK'
    BY <1>3, <2>1 DEF IInv, TypeOK, AcceptGrant, GrantStored, Goto, OfSubject
  <2>3. \A d \in Calls \ {c} : Unmoved(d)
    BY <1>3 DEF IInv, TypeOK, AcceptGrant, GrantStored, Goto, Unmoved
  <2>4. CallInv(c)'
    BY <1>3, <2>1 DEF IInv, TypeOK, AcceptGrant, GrantStored, Goto, CallInv
  <2>5. \A d \in Calls : pc'[d] \in Holding <=> pc[d] \in Holding
    BY <1>3 DEF IInv, TypeOK, AcceptGrant, GrantStored, Goto
  <2>6. /\ UNCHANGED <<alive, permits, subject>>
        /\ stored' = [stored EXCEPT ![subject[c]] = token[c]]
    BY <1>3 DEF AcceptGrant, GrantStored
  <2> QED
    BY <2>1, <2>2, <2>3, <2>4, <2>5, <2>6, HoldExclusion, CallStep DEF IInv
<1>4. CASE RevokeStranded(c)
  <2>1. alive' \subseteq alive
    BY <1>4 DEF RevokeStranded, Revoke
  <2>2. TypeOK'
    BY <1>4, <2>1, LeaveTypes DEF IInv, TypeOK, RevokeStranded
  <2> QED
    BY <1>4, <2>1, <2>2, LeaveCall, LeaveExclusion, CallStep
       DEF IInv, RevokeStranded
<1> QED
  BY <1>1, <1>2, <1>3, <1>4 DEF Complete

LEMMA RefreshStep == ASSUME IInv, NEW c \in Calls, Refresh(c)
                     PROVE  IInv'
<1>1. CASE LoadForRefresh(c) \/ RefreshedAsWas(c) \/ RefreshRefused(c)
  <2>1. subject[c] \in Subjects
    BY <1>1 DEF IInv, CallInv, LoadForRefresh, RefreshedAsWas, RefreshRefused
  <2>2. TypeOK'
    BY <1>1, <2>1 DEF IInv, TypeOK, LoadForRefresh, RefreshedAsWas,
                      RefreshRefused, Goto
  <2>3. \A d \in Calls \ {c} : Unmoved(d)
    BY <1>1 DEF IInv, TypeOK, LoadForRefresh, RefreshedAsWas, RefreshRefused,
                Goto, Unmoved
  <2>4. CallInv(c)'
    BY <1>1, <2>1 DEF IInv, TypeOK, StoredIsOwn, LoadForRefresh,
                      RefreshedAsWas, RefreshRefused, Goto, CallInv, OfSubject
  <2>5. \A d \in Calls : pc'[d] \in Holding <=> pc[d] \in Holding
    BY <1>1 DEF IInv, TypeOK, LoadForRefresh, RefreshedAsWas, RefreshRefused,
                Goto
  <2>6. UNCHANGED <<stored, alive, permits, subject>>
    BY <1>1 DEF LoadForRefresh, RefreshedAsWas, RefreshRefused
  <2> QED
    BY <2>2, <2>3, <2>4, <2>5, <2>6, HoldExclusion, QuietStep DEF IInv
<1>2. ASSUME NEW t \in Tokens, Mint(t), stored' = stored, Leave(c)
      PROVE  IInv'
  <2>1. TypeOK'
    BY <1>2, LeaveTypes DEF IInv, TypeOK, Mint
  <2>2. \A s \in Subjects : stored[s] \notin alive => stored[s] \notin alive'
    BY <1>2, MintIsFresh DEF IInv
  <2> QED
    BY <1>2, <2>1, <2>2, LeaveCall, LeaveExclusion, CallStep DEF IInv
<1>3. ASSUME NEW t \in Tokens, Mint(t), t \in OfSubject(subject[c]),
             pc[c] = "refreshing", NEW w \in {"rotate", "retain"},
             Goto(c, w), token' = [token EXCEPT ![c] = t],
             UNCHANGED <<stored, permits, op, subject, empty>>
      PROVE  IInv'
  <2>1. TypeOK'
    BY <1>3 DEF IInv, TypeOK, Goto, Mint
  <2>2. \A d \in Calls \ {c} : Unmoved(d)
    BY <1>3 DEF IInv, TypeOK, Goto, Unmoved
  <2>3. op[c] = "complete" => t \in OfSubject(subject[c])
    BY <1>3
  <2>4. CallInv(c)'
    BY <1>3 DEF IInv, TypeOK, Goto, CallInv
  <2>5. \A d \in Calls : pc'[d] \in Holding <=> pc[d] \in Holding
    BY <1>3 DEF IInv, TypeOK, Goto
  <2>6. \A s \in Subjects : stored[s] \notin alive => stored[s] \notin alive'
    BY <1>3, MintIsFresh DEF IInv
  <2> QED
    BY <1>3, <2>1, <2>2, <2>4, <2>5, <2>6, HoldExclusion, CallStep DEF IInv
<1>4. CASE RefreshedRotated(c)
  <2>1. PICK t \in Tokens :
          /\ Mint(t)
          /\ IF SameAccount(c, Owner(t))
             THEN /\ token' = [token EXCEPT ![c] = t]
                  /\ Goto(c, "rotate")
                  /\ UNCHANGED <<permits, op, subject, empty>>
             ELSE Leave(c)
    BY <1>4 DEF RefreshedRotated
  <2>2. CASE SameAccount(c, Owner(t))
    BY <1>3, <1>4, <2>1, <2>2 DEF RefreshedRotated, SameAccount, OfSubject
  <2>3. CASE ~SameAccount(c, Owner(t))
    BY <1>2, <1>4, <2>1, <2>3 DEF RefreshedRotated
  <2> QED
    BY <2>2, <2>3
<1>5. CASE RefreshedUnderScoped(c)
  <2>1. Owner(token[c]) = subject[c]
    BY <1>5 DEF IInv, CallInv, RefreshedUnderScoped, OfSubject
  <2>2. PICK t \in OfSubject(subject[c]) :
          Mint(t) /\ token' = [token EXCEPT ![c] = t]
    BY <1>5, <2>1 DEF RefreshedUnderScoped
  <2> QED
    BY <1>3, <1>5, <2>2 DEF RefreshedUnderScoped, OfSubject
<1>6. CASE StoreRotation(c)
  <2>1. /\ pc[c] \in {"rotate", "retain"}
        /\ token[c] \in OfSubject(subject[c])
        /\ subject[c] \in Subjects
        /\ stored' = [stored EXCEPT ![subject[c]] = token[c]]
        /\ alive' = alive
    BY <1>6 DEF IInv, CallInv, StoreRotation
  <2>2. CASE pc[c] = "rotate"
    <3>1. Goto(c, "success") /\ UNCHANGED <<permits, op, subject, token, empty>>
      BY <1>6, <2>2 DEF StoreRotation
    <3>2. TypeOK'
      BY <2>1, <3>1 DEF IInv, TypeOK, Goto, OfSubject
    <3>3. \A d \in Calls \ {c} : Unmoved(d)
      BY <3>1 DEF IInv, TypeOK, Goto, Unmoved
    <3>4. CallInv(c)'
      BY <2>1, <3>1 DEF IInv, TypeOK, Goto, CallInv
    <3>5. \A d \in Calls : pc'[d] \in Holding <=> pc[d] \in Holding
      BY <2>1, <3>1 DEF IInv, TypeOK, Goto
    <3> QED
      BY <2>1, <3>1, <3>2, <3>3, <3>4, <3>5, HoldExclusion, CallStep DEF IInv
  <2>3. CASE pc[c] = "retain"
    <3>1. Leave(c)
      BY <1>6, <2>3 DEF StoreRotation
    <3>2. TypeOK'
      BY <2>1, <3>1 DEF IInv, TypeOK, Leave, Released, Goto, Ops, OfSubject
    <3> QED
      BY <2>1, <3>1, <3>2, LeaveCall, LeaveExclusion, CallStep DEF IInv
  <2> QED
    BY <2>1, <2>2, <2>3
<1>7. CASE DeleteRefused(c)
  <2>1. /\ pc[c] = "gone" /\ subject[c] \in Subjects
        /\ stored' = [stored EXCEPT ![subject[c]] = NoToken]
        /\ Goto(c, "consentRevoked")
        /\ UNCHANGED <<alive, permits, op, subject, token, empty>>
    BY <1>7 DEF IInv, CallInv, DeleteRefused, ForgetStored
  <2>2. TypeOK'
    BY <2>1 DEF IInv, TypeOK, Goto
  <2>3. \A d \in Calls \ {c} : Unmoved(d)
    BY <2>1 DEF IInv, TypeOK, Goto, Unmoved
  <2>4. CallInv(c)'
    BY <2>1 DEF IInv, TypeOK, Goto, CallInv
  <2>5. \A d \in Calls : pc'[d] \in Holding <=> pc[d] \in Holding
    BY <2>1 DEF IInv, TypeOK, Goto
  <2> QED
    BY <2>1, <2>2, <2>3, <2>4, <2>5, HoldExclusion, CallStep DEF IInv
<1> QED
  BY <1>1, <1>4, <1>5, <1>6, <1>7 DEF Refresh

LEMMA DisconnectStep == ASSUME IInv, NEW c \in Calls, Disconnect(c)
                        PROVE  IInv'
<1>1. CASE LoadForRevoke(c)
  <2>1. subject[c] \in Subjects
    BY <1>1 DEF IInv, CallInv, LoadForRevoke
  <2>2. TypeOK'
    BY <1>1, <2>1 DEF IInv, TypeOK, LoadForRevoke, Goto
  <2>3. \A d \in Calls \ {c} : Unmoved(d)
    BY <1>1 DEF IInv, TypeOK, LoadForRevoke, Goto, Unmoved
  <2>4. CallInv(c)'
    BY <1>1, <2>1, NoTokenAssumption
       DEF IInv, TypeOK, StoredIsOwn, LoadForRevoke, Goto, CallInv, OfSubject
  <2>5. \A d \in Calls : pc'[d] \in Holding <=> pc[d] \in Holding
    BY <1>1 DEF IInv, TypeOK, LoadForRevoke, Goto
  <2>6. UNCHANGED <<stored, alive, permits, subject>>
    BY <1>1 DEF LoadForRevoke
  <2> QED
    BY <2>2, <2>3, <2>4, <2>5, <2>6, HoldExclusion, QuietStep DEF IInv
<1>2. CASE RevokeConfirmed(c) \/ RevokeRetried(c)
  <2>1. /\ alive' \subseteq alive
        /\ pc'[c] = "confirmed" => token[c] \notin alive'
    BY <1>2 DEF IInv, TypeOK, CallInv, RevokeConfirmed, RevokeRetried, Revoke,
                Goto, OfSubject
  <2>2. TypeOK'
    BY <1>2, <2>1 DEF IInv, TypeOK, RevokeConfirmed, RevokeRetried, Goto
  <2>3. \A d \in Calls \ {c} : Unmoved(d)
    BY <1>2 DEF IInv, TypeOK, RevokeConfirmed, RevokeRetried, Goto, Unmoved
  <2>4. CallInv(c)'
    BY <1>2, <2>1 DEF IInv, TypeOK, RevokeConfirmed, RevokeRetried, Goto,
                      CallInv
  <2>5. \A d \in Calls : pc'[d] \in Holding <=> pc[d] \in Holding
    BY <1>2 DEF IInv, TypeOK, RevokeConfirmed, RevokeRetried, Goto
  <2>6. UNCHANGED <<stored, permits, subject>>
    BY <1>2 DEF RevokeConfirmed, RevokeRetried
  <2> QED
    BY <2>1, <2>2, <2>3, <2>4, <2>5, <2>6, HoldExclusion, CallStep DEF IInv
<1>3. CASE DeleteStored(c)
  <2>1. /\ pc[c] = "held" /\ subject[c] \in Subjects /\ alive' = alive
        /\ stored' = [stored EXCEPT ![subject[c]] = NoToken]
        /\ Leave(c)
    BY <1>3 DEF IInv, CallInv, DeleteStored, ForgetStored
  <2>2. TypeOK'
    BY <2>1 DEF IInv, TypeOK, Leave, Released, Goto, Ops
  <2> QED
    BY <2>1, <2>2, LeaveCall, LeaveExclusion, CallStep DEF IInv
<1> QED
  BY <1>1, <1>2, <1>3 DEF Disconnect

\* The inductive invariant is preserved by every step.
LEMMA Inductive == IInv /\ [Next]_vars => IInv'
<1> SUFFICES ASSUME IInv, [Next]_vars
             PROVE  IInv'
  OBVIOUS
<1>1. ASSUME NEW c \in Calls, Begin(c) \/ Continue(c)
      PROVE  IInv'
  BY <1>1, BeginStep, ClaimStep, CompleteStep, RefreshStep, DisconnectStep,
     ReturnStep DEF Continue
<1>2. ASSUME NEW s \in Subjects, UserRevokes(s)
      PROVE  IInv'
  <2>1. /\ alive' \subseteq alive
        /\ UNCHANGED <<stored, permits, pc, op, subject, token, empty>>
    BY <1>2 DEF UserRevokes, Revoke
  <2>2. TypeOK'
    BY <2>1 DEF IInv, TypeOK
  <2>3. OneMutationPerSubject' /\ StoredIsOwn'
    BY <2>1 DEF IInv, OneMutationPerSubject, StoredIsOwn
  <2>4. \A c \in Calls : CallInv(c)'
    BY <2>1, Frame DEF IInv, Unmoved, CallInv
  <2> QED
    BY <2>2, <2>3, <2>4 DEF IInv
<1>3. CASE Crash
  BY <1>3 DEF Crash, IInv, TypeOK, OneMutationPerSubject, StoredIsOwn,
              CallInv, Ops
<1>4. CASE UNCHANGED vars
  BY <1>4 DEF vars, IInv, TypeOK, OneMutationPerSubject, StoredIsOwn, CallInv
<1> QED
  BY <1>1, <1>2, <1>3, <1>4 DEF Next

-----------------------------------------------------------------------------

\* The inductive invariant holds in every reachable state.
THEOREM Invariance == Spec => []IInv
  BY InitIInv, Inductive, PTL DEF Spec

\* Type correctness.
THEOREM TypeCorrect == Spec => []TypeOK
<1>1. IInv => TypeOK
  BY DEF IInv
<1> QED
  BY Invariance, <1>1, PTL

\* No two calls mutate an account at once, and no permit outlives its call.
THEOREM PermitsExclude == Spec => []OneMutationPerSubject
<1>1. IInv => OneMutationPerSubject
  BY DEF IInv
<1> QED
  BY Invariance, <1>1, PTL

\* A completion that cleans up after itself never revokes over a credential
\* that is stored, whatever other calls do between its snapshot and Google's
\* answer.
THEOREM StrandedSpares == Spec => []StrandedSparesStored
<1>1. IInv => StrandedSparesStored
  BY DEF IInv, CallInv, StrandedSparesStored
<1> QED
  BY Invariance, <1>1, PTL

\* A success that is reported is of the credential that is stored, and
\* ConsentRevoked is reported only with the stored credential deleted.
THEOREM OutcomeStored == Spec => []OutcomeIsStored
<1>1. IInv => OutcomeIsStored
  BY DEF IInv, CallInv, OutcomeIsStored
<1> QED
  BY Invariance, <1>1, PTL

\* A confirmed revocation leaves no stored credential that Google honours.
THEOREM ConfirmedGone == Spec => []ConfirmedIsGone
<1>1. IInv => ConfirmedIsGone
  BY DEF IInv, CallInv, ConfirmedIsGone
<1> QED
  BY Invariance, <1>1, PTL

\* What is stored for an account is always its own.
THEOREM StoredOwn == Spec => []StoredIsOwn
<1>1. IInv => StoredIsOwn
  BY DEF IInv
<1> QED
  BY Invariance, <1>1, PTL

-----------------------------------------------------------------------------
(* The sessions that wait for their redirect.                               *)


\* No session is under two handles, with two calls, or both.
PlaceInv ==
    /\ \A g, h \in Handles :
        pending[g] # None /\ pending[h] # None /\ pending[g].of = pending[h].of
        => g = h
    /\ \A c, d \in Attempts :
        claimed[c] # None /\ claimed[d] # None /\ claimed[c].of = claimed[d].of
        => c = d
    /\ \A h \in Handles, c \in Attempts :
        pending[h] # None /\ claimed[c] # None => pending[h].of # claimed[c].of

\* A session that is somewhere has judged nothing and its call has begun.
Unused(s) == judged[s.of] = 0 /\ place[s.of] # "idle"

UsedInv ==
    /\ \A h \in Handles : pending[h] # None => Unused(pending[h])
    /\ \A c \in Attempts : claimed[c] # None => Unused(claimed[c])
    /\ \A c \in Attempts : place[c] = "idle" => judged[c] = 0

\* What a call holds, at each place.
AttemptInv ==
    \A c \in Attempts :
        /\ place[c] \in {"opening", "waiting", "called"} => handle[c] # None
        /\ place[c] \in {"called", "claimed"} => callback[c] # None
        /\ place[c] = "claimed" <=> claimed[c] # None

SessionsIInv ==
    /\ SessionsTypeOK
    /\ PlaceInv
    /\ UsedInv
    /\ AttemptInv
    /\ AttemptIsTerminal
    /\ GrantIsOwn

-----------------------------------------------------------------------------
(* Types.                                                                   *)

LEMMA OlderType ==
    ASSUME NEW s \in Sessions \cup {None}
    PROVE  /\ Older(s) \in Sessions \cup {None}
           /\ Older(s) = None <=> s = None
           /\ s # None => Older(s).of = s.of
  BY BoundsAssumption, NoneAssumption DEF Older, Less, Sessions

LEMMA ReapedType ==
    ASSUME SessionsTypeOK
    PROVE  /\ Reaped \in [Handles -> Sessions \cup {None}]
           /\ \A h \in Handles : Reaped[h] # None => Reaped[h] = pending[h]
  BY DEF SessionsTypeOK, Reaped

LEMMA SessionsInitIInv == SessionsInit => SessionsIInv
<1> SUFFICES ASSUME SessionsInit PROVE SessionsIInv
  OBVIOUS
<1>1. SessionsTypeOK
  <2>1. 0 \in 0..Deadline /\ 0 \in 0..(MaxConnections - 1) /\ 0 \in Nat
    BY BoundsAssumption
  <2>2. "idle" \in Positions /\ FALSE \in BOOLEAN
    BY DEF Positions
  <2>. QED  BY <2>1, <2>2, Zenon DEF SessionsInit, SessionsTypeOK
<1>2. /\ \A h \in Handles : pending[h] = None
      /\ \A c \in Attempts : claimed[c] = None /\ grant[c] = None
      /\ \A c \in Attempts : place[c] = "idle" /\ judged[c] = 0
  BY DEF SessionsInit
<1>. QED
  BY <1>1, <1>2 DEF SessionsIInv, PlaceInv, UsedInv, AttemptInv, AttemptIsTerminal, GrantIsOwn

\* The steps that reach neither the registry nor a claimed session.
Quiet(c) ==
    \/ Unprepared(c) \/ Unknown(c)
    \/ Listen(c) \/ Stray(c) \/ TimeOut(c) \/ GiveUp(c)
    \/ \E kind \in {"code", "refusal"} : Receive(c, kind)
    \/ \E cb \in Callbacks : Repeat(c, cb)

\* The steps that let sessions go, or grow older.
Shrinking(c) == Refuse(c) \/ Undrawn(c) \/ Panic(c) \/ Drain(c)

LEMMA NextCases ==
    ASSUME SessionsNext
    PROVE  \/ Tick
           \/ \E c \in Attempts : \/ Quiet(c) \/ Shrinking(c) \/ Claim(c) \/ Finish(c)
                               \/ \E h \in Handles : Insert(c, h)
  BY DEF SessionsNext, Quiet, Shrinking

LEMMA QuietType ==
    ASSUME SessionsIInv, NEW c \in Attempts, Quiet(c)
    PROVE  SessionsTypeOK' /\ AttemptInv' /\ GrantIsOwn'
<1> USE DEF SessionsIInv, SessionsTypeOK, AttemptInv, Positions, GrantIsOwn
<1>1. CASE Listen(c)
  BY <1>1, BoundsAssumption DEF Listen
<1>2. CASE Stray(c)
  BY <1>2, BoundsAssumption DEF Stray, Unlisten, LastConnection
<1>3. CASE TimeOut(c) \/ GiveUp(c)
  BY <1>3, BoundsAssumption DEF TimeOut, GiveUp, Unlisten
<1>4. CASE Unprepared(c) \/ Unknown(c)
  BY <1>4 DEF Unprepared, Unknown
<1>5. ASSUME NEW kind \in {"code", "refusal"}, Receive(c, kind)
      PROVE  SessionsTypeOK' /\ AttemptInv' /\ GrantIsOwn'
  BY <1>5, BoundsAssumption, NoneAssumption DEF Receive, Unlisten, Callbacks
<1>6. ASSUME NEW cb \in Callbacks, Repeat(c, cb)
      PROVE  SessionsTypeOK' /\ AttemptInv' /\ GrantIsOwn'
  BY <1>6, NoneAssumption DEF Repeat
<1>. QED  BY <1>1, <1>2, <1>3, <1>4, <1>5, <1>6 DEF Quiet

LEMMA ShrinkingType ==
    ASSUME SessionsIInv, NEW c \in Attempts, Shrinking(c)
    PROVE  SessionsTypeOK' /\ AttemptInv' /\ GrantIsOwn'
<1> USE ReapedType DEF SessionsIInv, SessionsTypeOK, AttemptInv, Positions, GrantIsOwn
<1>1. CASE Refuse(c)
  BY <1>1 DEF Refuse
<1>2. CASE Undrawn(c)
  BY <1>2 DEF Undrawn
<1>3. CASE Panic(c)
  BY <1>3 DEF Panic
<1>4. CASE Drain(c)
  BY <1>4 DEF Drain
<1>. QED  BY <1>1, <1>2, <1>3, <1>4 DEF Shrinking

LEMMA TickType ==
    ASSUME SessionsIInv, Tick
    PROVE  SessionsTypeOK' /\ AttemptInv' /\ GrantIsOwn'
<1>1. \A n \in 0..Deadline : Less(n) \in 0..Deadline
  BY BoundsAssumption DEF Less
<1>. QED
  BY <1>1, OlderType DEF SessionsIInv, SessionsTypeOK, AttemptInv, GrantIsOwn, Tick

LEMMA InsertType ==
    ASSUME SessionsIInv, NEW c \in Attempts, NEW h \in Handles, Insert(c, h)
    PROVE  SessionsTypeOK' /\ AttemptInv' /\ GrantIsOwn'
<1>1. [of |-> c, left |-> Ttl] \in Sessions
  BY BoundsAssumption DEF Sessions
<1>. QED
  BY <1>1, ReapedType, NoneAssumption
     DEF SessionsIInv, SessionsTypeOK, AttemptInv, Positions, GrantIsOwn, Insert

LEMMA ClaimType ==
    ASSUME SessionsIInv, NEW c \in Attempts, Claim(c)
    PROVE  SessionsTypeOK' /\ AttemptInv' /\ GrantIsOwn'
  BY DEF SessionsIInv, SessionsTypeOK, AttemptInv, Positions, GrantIsOwn, Claim, Unregistered

LEMMA FinishType ==
    ASSUME SessionsIInv, NEW c \in Attempts, Finish(c)
    PROVE  SessionsTypeOK' /\ AttemptInv' /\ GrantIsOwn'
<1>1. claimed[c] \in Sessions /\ callback[c] \in Callbacks
  BY DEF SessionsIInv, SessionsTypeOK, AttemptInv, Finish
<1>2. claimed[c].of \in Attempts
  BY <1>1 DEF Sessions
<1>3. [by |-> claimed[c], on |-> callback[c]] \in Grants
  BY <1>1 DEF Grants
<1>. QED
  BY <1>1, <1>2, <1>3, NoneAssumption
     DEF SessionsIInv, SessionsTypeOK, AttemptInv, Positions, GrantIsOwn, Finish, Accepts

-----------------------------------------------------------------------------
(* Places.                                                                  *)

\* A step that moves no session, except out of the registry, disturbs
\* neither where sessions are nor what they have judged.
LEMMA StillThere ==
    ASSUME SessionsIInv,
           \A h \in Handles : pending'[h] # None =>
               pending[h] # None /\ pending'[h].of = pending[h].of,
           \A c \in Attempts : claimed'[c] # None =>
               claimed[c] # None /\ claimed'[c].of = claimed[c].of,
           judged' = judged,
           \A c \in Attempts : place'[c] = "idle" => place[c] = "idle"
    PROVE  PlaceInv' /\ UsedInv' /\ AttemptIsTerminal'
<1>1. \A h \in Handles : pending[h] # None => pending[h].of \in Attempts
  BY DEF SessionsIInv, SessionsTypeOK, Sessions
<1>2. \A c \in Attempts : claimed[c] # None => claimed[c].of \in Attempts
  BY DEF SessionsIInv, SessionsTypeOK, Sessions
<1>3. PlaceInv'
  BY DEF SessionsIInv, PlaceInv
<1>4. UsedInv'
  BY <1>1, <1>2 DEF SessionsIInv, UsedInv, Unused
<1>. QED  BY <1>3, <1>4 DEF SessionsIInv, AttemptIsTerminal

LEMMA QuietPlace ==
    ASSUME SessionsIInv, NEW c \in Attempts, Quiet(c)
    PROVE  PlaceInv' /\ UsedInv' /\ AttemptIsTerminal'
<1>1. UNCHANGED <<pending, claimed, judged>>
  BY DEF Quiet, Unprepared, Unknown, Listen, Stray, TimeOut, GiveUp, Receive,
           Repeat, Unlisten
<1>2. \A d \in Attempts : place'[d] = "idle" => place[d] = "idle"
  BY DEF SessionsIInv, SessionsTypeOK, Quiet, Unprepared, Unknown, Listen, Stray, TimeOut, GiveUp,
         Receive, Repeat, Unlisten
<1>. QED  BY <1>1, <1>2, StillThere

LEMMA ShrinkingPlace ==
    ASSUME SessionsIInv, NEW c \in Attempts, Shrinking(c)
    PROVE  PlaceInv' /\ UsedInv' /\ AttemptIsTerminal'
<1>1. \A h \in Handles : pending'[h] # None =>
          pending[h] # None /\ pending'[h].of = pending[h].of
  BY ReapedType DEF SessionsIInv, Shrinking, Refuse, Undrawn, Panic, Drain
<1>2. UNCHANGED <<claimed, judged>>
  BY DEF Shrinking, Refuse, Undrawn, Panic, Drain
<1>3. \A d \in Attempts : place'[d] = "idle" => place[d] = "idle"
  BY DEF SessionsIInv, SessionsTypeOK, Shrinking, Refuse, Undrawn, Panic, Drain
<1>. QED  BY <1>1, <1>2, <1>3, StillThere

LEMMA TickPlace ==
    ASSUME SessionsIInv, Tick
    PROVE  PlaceInv' /\ UsedInv' /\ AttemptIsTerminal'
<1>1. \A h \in Handles : pending'[h] # None =>
          pending[h] # None /\ pending'[h].of = pending[h].of
  BY OlderType DEF SessionsIInv, SessionsTypeOK, Tick
<1>2. \A c \in Attempts : claimed'[c] # None =>
          claimed[c] # None /\ claimed'[c].of = claimed[c].of
  BY OlderType DEF SessionsIInv, SessionsTypeOK, Tick
<1>3. UNCHANGED <<judged, place>>
  BY DEF Tick
<1>. QED  BY <1>1, <1>2, <1>3, StillThere

LEMMA InsertPlace ==
    ASSUME SessionsIInv, NEW c \in Attempts, NEW h \in Handles, Insert(c, h)
    PROVE  PlaceInv' /\ UsedInv' /\ AttemptIsTerminal'
<1>1. /\ pending'[h] = [of |-> c, left |-> Ttl]
      /\ \A g \in Handles : g # h /\ pending'[g] # None => pending'[g] = pending[g]
  BY ReapedType DEF SessionsIInv, Insert
<1>2. UNCHANGED <<claimed, judged>>
  BY DEF Insert
<1>3. place[c] = "idle" /\ place' = [place EXCEPT ![c] = "opening"]
  BY DEF Insert
<1>4. \A g \in Handles : pending[g] # None =>
          pending[g].of # c /\ pending[g].of \in Attempts
  BY <1>3 DEF SessionsIInv, SessionsTypeOK, UsedInv, Unused, Sessions
<1>5. \A d \in Attempts : claimed[d] # None =>
          claimed[d].of # c /\ claimed[d].of \in Attempts
  BY <1>3 DEF SessionsIInv, SessionsTypeOK, UsedInv, Unused, Sessions
<1>6. PlaceInv'
  BY <1>1, <1>2, <1>4, <1>5 DEF SessionsIInv, PlaceInv
<1>7. UsedInv'
  <2>1. judged[c] = 0
    BY <1>3 DEF SessionsIInv, UsedInv
  <2>2. \A g \in Handles : pending'[g] # None => Unused(pending[g])'
    BY <1>1, <1>2, <1>3, <1>4, <2>1 DEF SessionsIInv, SessionsTypeOK, UsedInv, Unused
  <2>3. \A d \in Attempts : claimed'[d] # None => Unused(claimed[d])'
    BY <1>2, <1>3, <1>5 DEF SessionsIInv, SessionsTypeOK, UsedInv, Unused
  <2>4. \A d \in Attempts : place'[d] = "idle" => judged'[d] = 0
    BY <1>2, <1>3 DEF SessionsIInv, SessionsTypeOK, UsedInv
  <2>. QED  BY <2>2, <2>3, <2>4 DEF UsedInv, Unused
<1>. QED  BY <1>2, <1>6, <1>7 DEF SessionsIInv, AttemptIsTerminal

LEMMA ClaimPlace ==
    ASSUME SessionsIInv, NEW c \in Attempts, Claim(c)
    PROVE  PlaceInv' /\ UsedInv' /\ AttemptIsTerminal'
<1> DEFINE k == handle[c]
<1>1. k \in Handles /\ pending[k] # None /\ place[c] = "called" /\ claimed[c] = None
  BY DEF SessionsIInv, SessionsTypeOK, AttemptInv, Claim
<1>2. /\ pending'[k] = None
      /\ \A g \in Handles : g # k => pending'[g] = pending[g]
  BY <1>1 DEF SessionsIInv, SessionsTypeOK, Claim, Unregistered
<1>3. /\ claimed'[c] = pending[k]
      /\ \A d \in Attempts : d # c => claimed'[d] = claimed[d]
  BY <1>1 DEF SessionsIInv, SessionsTypeOK, Claim
<1>4. /\ judged' = judged
      /\ \A d \in Attempts : place'[d] = "idle" <=> place[d] = "idle"
  BY <1>1 DEF SessionsIInv, SessionsTypeOK, Claim
<1> HIDE DEF k
<1>5. PlaceInv'
  BY <1>1, <1>2, <1>3 DEF SessionsIInv, PlaceInv
<1>6. /\ \A h \in Handles : pending[h] # None => pending[h].of \in Attempts
      /\ \A d \in Attempts : claimed[d] # None => claimed[d].of \in Attempts
  BY DEF SessionsIInv, SessionsTypeOK, Sessions
<1>7. UsedInv'
  BY <1>1, <1>2, <1>3, <1>4, <1>6 DEF SessionsIInv, UsedInv, Unused
<1>. QED  BY <1>4, <1>5, <1>7 DEF SessionsIInv, AttemptIsTerminal

LEMMA FinishPlace ==
    ASSUME SessionsIInv, NEW c \in Attempts, Finish(c)
    PROVE  PlaceInv' /\ UsedInv' /\ AttemptIsTerminal'
<1> DEFINE o == claimed[c].of
<1>1. place[c] = "claimed" /\ claimed[c] # None
  BY DEF SessionsIInv, AttemptInv, Finish
<1>2. o \in Attempts /\ judged[o] = 0 /\ place[o] # "idle"
  BY <1>1 DEF SessionsIInv, SessionsTypeOK, Sessions, UsedInv, Unused
<1>3. /\ pending' = pending
      /\ claimed'[c] = None
      /\ \A d \in Attempts : d # c => claimed'[d] = claimed[d]
  BY DEF SessionsIInv, SessionsTypeOK, Finish
<1>4. /\ judged'[o] = 1
      /\ \A d \in Attempts : d # o => judged'[d] = judged[d]
      /\ \A d \in Attempts : place'[d] = "idle" <=> place[d] = "idle"
  BY <1>1, <1>2 DEF SessionsIInv, SessionsTypeOK, Finish
<1>5. /\ \A h \in Handles : pending[h] # None =>
             pending[h].of \in Attempts /\ pending[h].of # o
      /\ \A d \in Attempts : d # c /\ claimed[d] # None =>
             claimed[d].of \in Attempts /\ claimed[d].of # o
  BY <1>1 DEF SessionsIInv, SessionsTypeOK, Sessions, PlaceInv
<1> HIDE DEF o
<1>6. PlaceInv'
  BY <1>3 DEF SessionsIInv, PlaceInv
<1>7. UsedInv'
  BY <1>2, <1>3, <1>4, <1>5 DEF SessionsIInv, UsedInv, Unused
<1>8. AttemptIsTerminal'
  BY <1>4 DEF SessionsIInv, AttemptIsTerminal
<1>. QED  BY <1>6, <1>7, <1>8

-----------------------------------------------------------------------------

LEMMA NextIInv == SessionsIInv /\ [SessionsNext]_sessionsVars => SessionsIInv'
<1> SUFFICES ASSUME SessionsIInv, [SessionsNext]_sessionsVars PROVE SessionsIInv'
  OBVIOUS
<1>1. CASE Tick
  BY <1>1, TickType, TickPlace DEF SessionsIInv
<1>2. ASSUME NEW c \in Attempts, Quiet(c) PROVE SessionsIInv'
  BY <1>2, QuietType, QuietPlace DEF SessionsIInv
<1>3. ASSUME NEW c \in Attempts, Shrinking(c) PROVE SessionsIInv'
  BY <1>3, ShrinkingType, ShrinkingPlace DEF SessionsIInv
<1>4. ASSUME NEW c \in Attempts, NEW h \in Handles, Insert(c, h) PROVE SessionsIInv'
  BY <1>4, InsertType, InsertPlace DEF SessionsIInv
<1>5. ASSUME NEW c \in Attempts, Claim(c) PROVE SessionsIInv'
  BY <1>5, ClaimType, ClaimPlace DEF SessionsIInv
<1>6. ASSUME NEW c \in Attempts, Finish(c) PROVE SessionsIInv'
  BY <1>6, FinishType, FinishPlace DEF SessionsIInv
<1>7. CASE UNCHANGED sessionsVars
  BY <1>7 DEF sessionsVars, SessionsIInv, SessionsTypeOK, PlaceInv, UsedInv, Unused, AttemptInv,
              AttemptIsTerminal, GrantIsOwn
<1>. QED  BY <1>1, <1>2, <1>3, <1>4, <1>5, <1>6, <1>7, NextCases

LEMMA SessionsInductive == SessionsSpec => []SessionsIInv
  BY SessionsInitIInv, NextIInv, PTL DEF SessionsSpec

\* Every variable keeps its type.
THEOREM SessionsTypeCorrect == SessionsSpec => []SessionsTypeOK
  BY SessionsInductive, PTL DEF SessionsIInv

\* Whoever completes, however often and with whatever callback: a session
\* judges once (complete_authorization, SessionRegistry::claim).
THEOREM Terminal == SessionsSpec => []AttemptIsTerminal
  BY SessionsInductive, PTL DEF SessionsIInv

\* A grant comes from the live session its redirect was made for
\* (AuthorizationSession::finish).
THEOREM OwnGrant == SessionsSpec => []GrantIsOwn
  BY SessionsInductive, PTL DEF SessionsIInv

-----------------------------------------------------------------------------
(* The limit.                                                               *)

BoundInv == IsFiniteSet(Taken(pending)) /\ PendingBound

\* Fewer sessions are within the limit.
LEMMA FewerBound ==
    ASSUME BoundInv, Taken(pending') \subseteq Taken(pending)
    PROVE  BoundInv'
<1>1. /\ IsFiniteSet(Taken(pending'))
      /\ Cardinality(Taken(pending')) <= Cardinality(Taken(pending))
  BY FS_Subset DEF BoundInv
<1>2. /\ Cardinality(Taken(pending)) \in Nat
      /\ Cardinality(Taken(pending')) \in Nat
  BY <1>1, FS_CardinalityType DEF BoundInv
<1>3. Taken(pending)' = Taken(pending')
  BY DEF Taken
<1>. QED  BY <1>1, <1>2, <1>3, BoundsAssumption DEF BoundInv, PendingBound

LEMMA InsertBound ==
    ASSUME SessionsTypeOK, BoundInv, NEW c \in Attempts, NEW h \in Handles, Insert(c, h)
    PROVE  BoundInv'
<1>1. Taken(Reaped) \subseteq Taken(pending)
  BY ReapedType DEF Taken
<1>2. IsFiniteSet(Taken(Reaped))
  BY <1>1, FS_Subset DEF BoundInv
<1>3. Cardinality(Taken(Reaped)) \in Nat /\ Cardinality(Taken(Reaped)) < MaxPending
  BY <1>2, FS_CardinalityType, BoundsAssumption DEF Insert, Full
<1>4. Taken(pending)' \subseteq Taken(Reaped) \cup {h}
  BY ReapedType DEF Insert, Taken
<1>5. /\ IsFiniteSet(Taken(Reaped) \cup {h})
      /\ Cardinality(Taken(Reaped) \cup {h}) <= Cardinality(Taken(Reaped)) + 1
  <2> DEFINE R == Taken(Reaped)
  <2>1. /\ IsFiniteSet(R \cup {h})
        /\ Cardinality(R \cup {h})
             = IF h \in R THEN Cardinality(R) ELSE Cardinality(R) + 1
    BY <1>2, FS_AddElement, Zenon
  <2>2. Cardinality(R) \in Nat
    BY <1>3
  <2> HIDE DEF R
  <2>3. Cardinality(R \cup {h}) <= Cardinality(R) + 1
    BY <2>1, <2>2
  <2>. QED  BY <2>1, <2>3 DEF R
<1>6. /\ IsFiniteSet(Taken(pending)')
      /\ Cardinality(Taken(pending)') <= Cardinality(Taken(Reaped) \cup {h})
  BY <1>4, <1>5, FS_Subset
<1>7. /\ Cardinality(Taken(pending)') \in Nat
      /\ Cardinality(Taken(Reaped) \cup {h}) \in Nat
  BY <1>5, <1>6, FS_CardinalityType
<1>. QED  BY <1>3, <1>5, <1>6, <1>7, BoundsAssumption DEF BoundInv, PendingBound

LEMMA NextBound == SessionsIInv /\ BoundInv /\ [SessionsNext]_sessionsVars => BoundInv'
<1> SUFFICES ASSUME SessionsIInv, BoundInv, [SessionsNext]_sessionsVars PROVE BoundInv'
  OBVIOUS
<1>1. CASE Tick
  BY <1>1, OlderType, FewerBound DEF SessionsIInv, SessionsTypeOK, Tick, Taken
<1>2. ASSUME NEW c \in Attempts, Quiet(c) PROVE BoundInv'
  <2>1. pending' = pending
    BY <1>2 DEF Quiet, Unprepared, Unknown, Listen, Stray, TimeOut, GiveUp, Receive,
           Repeat
  <2>. QED  BY <2>1, FewerBound
<1>3. ASSUME NEW c \in Attempts, Shrinking(c) PROVE BoundInv'
  <2>1. Taken(pending') \subseteq Taken(pending)
    BY <1>3, ReapedType
       DEF SessionsIInv, Taken, Shrinking, Refuse, Undrawn, Panic, Drain
  <2>. QED  BY <2>1, FewerBound
<1>4. ASSUME NEW c \in Attempts, NEW h \in Handles, Insert(c, h) PROVE BoundInv'
  BY <1>4, InsertBound DEF SessionsIInv
<1>5. ASSUME NEW c \in Attempts, Claim(c) PROVE BoundInv'
  <2>1. Taken(pending') \subseteq Taken(pending)
    BY <1>5 DEF SessionsIInv, SessionsTypeOK, Taken, Claim, Unregistered
  <2>. QED  BY <2>1, FewerBound
<1>6. ASSUME NEW c \in Attempts, Finish(c) PROVE BoundInv'
  BY <1>6, FewerBound DEF Finish
<1>7. CASE UNCHANGED sessionsVars
  BY <1>7, FewerBound DEF sessionsVars
<1>. QED  BY <1>1, <1>2, <1>3, <1>4, <1>5, <1>6, <1>7, NextCases

\* The registry never holds more than MAX_PENDING_SESSIONS
\* (SessionRegistry::insert).
THEOREM Bounded == SessionsSpec => []PendingBound
<1>1. SessionsInit => BoundInv
  <2> SUFFICES ASSUME SessionsInit PROVE BoundInv
    OBVIOUS
  <2>1. Taken(pending) = {}
    BY DEF SessionsInit, Taken
  <2>. QED  BY <2>1, FS_EmptySet, BoundsAssumption DEF BoundInv, PendingBound
<1>. QED  BY <1>1, NextBound, SessionsInductive, PTL DEF SessionsSpec, BoundInv

-----------------------------------------------------------------------------
(* Eviction.                                                                *)

\* No live session is displaced: it stays, grows older, or is claimed by a
\* call that holds its handle (SessionRegistry::insert, claim).
THEOREM NoEviction == SessionsSpec => LiveIsKept
<1> DEFINE Kept(h) ==
        pending[h] # None /\ pending[h].left > 0 /\ ~poisoned =>
            \/ pending'[h] # None /\ pending'[h].of = pending[h].of
            \/ \E c \in Attempts : handle[c] = h /\ claimed'[c] = pending[h]
<1>1. ASSUME SessionsIInv, SessionsNext, NEW h \in Handles PROVE Kept(h)
  <2>1. CASE Tick
    BY <1>1, <2>1, OlderType DEF SessionsIInv, SessionsTypeOK, Tick
  <2>2. ASSUME NEW c \in Attempts, Quiet(c) PROVE Kept(h)
    BY <2>2 DEF Quiet, Unprepared, Unknown, Listen, Stray, TimeOut, GiveUp, Receive,
           Repeat
  <2>3. ASSUME NEW c \in Attempts, Shrinking(c) PROVE Kept(h)
    BY <2>3 DEF Shrinking, Refuse, Undrawn, Panic, Drain, Trusted, Reaped, Expired
  <2>4. ASSUME NEW c \in Attempts, NEW g \in Handles, Insert(c, g) PROVE Kept(h)
    BY <2>4 DEF Insert, Reaped, Expired, Taken
  <2>5. ASSUME NEW c \in Attempts, Claim(c) PROVE Kept(h)
    BY <1>1, <2>5 DEF SessionsIInv, SessionsTypeOK, Claim, Unregistered
  <2>6. ASSUME NEW c \in Attempts, Finish(c) PROVE Kept(h)
    BY <2>6 DEF Finish
  <2>. QED  BY <1>1, <2>1, <2>2, <2>3, <2>4, <2>5, <2>6, NextCases
<1>2. SessionsIInv /\ [SessionsNext]_sessionsVars => [\A h \in Handles : Kept(h)]_sessionsVars
  BY <1>1
<1>. QED  BY <1>2, SessionsInductive, PTL DEF SessionsSpec, LiveIsKept

\* A sign-in is refused for want of room only while sessions that live fill it.
THEOREM BusyIsFull == SessionsSpec => BusyMeansFull
<1> DEFINE Alive == {h \in Taken(pending) : pending[h].left > 0}
           Refused(c) == place[c] # "busy" /\ place'[c] = "busy"
<1>1. ASSUME SessionsIInv
      PROVE  Taken(Reaped) = Alive
  <2>1. ASSUME NEW h \in Handles, pending[h] # None
        PROVE  pending[h].left \in Nat
    BY <1>1, <2>1 DEF SessionsIInv, SessionsTypeOK, Sessions
  <2> QED
    BY <2>1 DEF Taken, Reaped, Expired
<1>2. ASSUME SessionsIInv, [SessionsNext]_sessionsVars, NEW c \in Attempts, Refused(c)
      PROVE  Refuse(c)
  <2>1. CASE UNCHANGED place
    BY <1>2, <2>1
  <2>2. ASSUME NEW d \in Attempts, Refuse(d)
        PROVE  d = c
    BY <1>2, <2>2 DEF Refuse, SessionsIInv, SessionsTypeOK
  <2>3. ASSUME NEW d \in Attempts, NEW p, p # "busy", place' = [place EXCEPT ![d] = p]
        PROVE  FALSE
    BY <1>2, <2>3 DEF SessionsIInv, SessionsTypeOK
  <2>4. ASSUME NEW d \in Attempts, Quiet(d)
        PROVE  FALSE
    <3>1. UNCHANGED place \/ \E p \in {"over", "waiting", "called"} : place' = [place EXCEPT ![d] = p]
      BY <2>4 DEF Quiet, Unprepared, Unknown, Listen, Stray, TimeOut, GiveUp, Receive,
                  Repeat, Unlisten
    <3> QED
      BY <1>2, <2>3, <3>1
  <2>5. ASSUME NEW d \in Attempts,
               Undrawn(d) \/ Panic(d) \/ Drain(d) \/ Claim(d) \/ Finish(d)
        PROVE  FALSE
    <3>1. \E p \in {"over", "claimed"} : place' = [place EXCEPT ![d] = p]
      BY <2>5 DEF Undrawn, Panic, Drain, Claim, Finish
    <3> QED
      BY <2>3, <3>1
  <2>6. ASSUME NEW d \in Attempts, NEW h \in Handles, Insert(d, h)
        PROVE  FALSE
    BY <2>3, <2>6 DEF Insert
  <2> QED
    BY <1>2, <2>1, <2>2, <2>4, <2>5, <2>6, NextCases DEF Shrinking, Tick, sessionsVars
<1>3. ASSUME SessionsIInv, [SessionsNext]_sessionsVars
      PROVE  \A c \in Attempts : Refused(c) => Cardinality(Alive) >= MaxPending
  BY <1>1, <1>2, <1>3 DEF Refuse, Full
<1>4. SessionsIInv /\ [SessionsNext]_sessionsVars =>
        [\A c \in Attempts : place[c] # "busy" /\ place'[c] = "busy" =>
            Cardinality({h \in Taken(pending) : pending[h].left > 0}) >= MaxPending]_sessionsVars
  BY <1>3
<1> QED
  BY SessionsInductive, <1>4, PTL DEF SessionsSpec, BusyMeansFull
=============================================================================

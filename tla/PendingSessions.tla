-------------------------- MODULE PendingSessions --------------------------
(***************************************************************************)
(* The sign-ins that wait for a person: BrokerCore::begin_authorization    *)
(* and its registry of pending sessions (registry.rs, handle.rs), the      *)
(* loopback listener that waits for the redirect (loopback.rs), and the    *)
(* front of complete_authorization, which claims the session and lets it   *)
(* judge the callback (crates/application/src/oauth.rs).                   *)
(*                                                                         *)
(* Calls share one registry behind a mutex. Every lock of it is one step,  *)
(* and time may pass between any two steps. Each call has a listener and   *)
(* random secrets of its own, so the redirect and the state of a callback  *)
(* are the call they were made for. Handles are drawn from a source that   *)
(* may repeat itself.                                                      *)
(*                                                                         *)
(* Time is what is left of it: a Tick takes one unit off every session and *)
(* every wait.                                                             *)
(***************************************************************************)
EXTENDS Naturals, FiniteSets

CONSTANTS
    Attempts,           \* attempts to sign in
    Handles,         \* what the entropy source can draw
    None,            \* no handle, no session, no callback
    MaxPending,      \* MAX_PENDING_SESSIONS
    Ttl,             \* the lifetime of a session, SESSION_TTL
    Deadline,        \* how long a listener waits, SIGN_IN_TIMEOUT
    MaxConnections   \* what a listener serves, MAX_CONNECTIONS

ASSUME BoundsAssumption ==
    /\ MaxPending \in Nat \ {0}
    /\ Ttl \in Nat \ {0}
    /\ Deadline \in Nat
    /\ MaxConnections \in Nat \ {0}

\* What a redirect says besides whose it is: a usable code, or anything else
\* (an error, a missing or doubled parameter, a scope without mail).
Callbacks == [of : Attempts, kind : {"code", "refusal"}]
Sessions == [of : Attempts, left : 0..Ttl]
Grants == [by : Sessions, on : Callbacks]

ASSUME NoneAssumption == None \notin Handles \cup Sessions \cup Callbacks \cup Grants

VARIABLES
    pending,      \* the registry: the session under each handle
    poisoned,     \* a thread panicked while it held the registry's lock
    place,        \* where each call is
    handle,       \* the handle each call was given
    wait,         \* what is left of each listener's deadline
    connections,  \* how many connections each listener has served
    callback,     \* the callback each call completes with
    claimed,      \* the session each call has taken out of the registry
    judged,       \* how often each call's session has judged a callback
    grant         \* what each call was granted: by which session, on what

sessionsVars == <<pending, poisoned, place, handle, wait, connections, callback,
                  claimed, judged, grant>>

Positions == {"idle", "opening", "waiting", "called", "claimed", "busy", "over"}

SessionsTypeOK ==
    /\ pending \in [Handles -> Sessions \cup {None}]
    /\ poisoned \in BOOLEAN
    /\ place \in [Attempts -> Positions]
    /\ handle \in [Attempts -> Handles \cup {None}]
    /\ wait \in [Attempts -> 0..Deadline]
    /\ connections \in [Attempts -> 0..(MaxConnections - 1)]
    /\ callback \in [Attempts -> Callbacks \cup {None}]
    /\ claimed \in [Attempts -> Sessions \cup {None}]
    /\ judged \in [Attempts -> Nat]
    /\ grant \in [Attempts -> Grants \cup {None}]

SessionsInit ==
    /\ pending = [h \in Handles |-> None]
    /\ poisoned = FALSE
    /\ place = [c \in Attempts |-> "idle"]
    /\ handle = [c \in Attempts |-> None]
    /\ wait = [c \in Attempts |-> 0]
    /\ connections = [c \in Attempts |-> 0]
    /\ callback = [c \in Attempts |-> None]
    /\ claimed = [c \in Attempts |-> None]
    /\ judged = [c \in Attempts |-> 0]
    /\ grant = [c \in Attempts |-> None]

-----------------------------------------------------------------------------
(* Time.                                                                    *)

Less(n) == IF n = 0 THEN 0 ELSE n - 1
Older(s) == IF s = None THEN None ELSE [s EXCEPT !.left = Less(@)]

Tick ==
    /\ pending' = [h \in Handles |-> Older(pending[h])]
    /\ claimed' = [c \in Attempts |-> Older(claimed[c])]
    /\ wait' = [c \in Attempts |-> Less(wait[c])]
    /\ UNCHANGED <<poisoned, place, handle, connections, callback, judged, grant>>

-----------------------------------------------------------------------------
(* The registry.                                                            *)

\* lock_sessions fails for good once the lock is poisoned.
Trusted == ~poisoned

\* (mutant of Expired: the last unit of the lifetime is taken away)
ExpiredSoon(s) == s # None /\ s.left <= 1

Expired(s) == s # None /\ s.left = 0

\* (mutant of Reaped: insert does not reap)
ReapedNever == pending

\* Every insert first lets the expired sessions go.
Reaped == [h \in Handles |-> IF Expired(pending[h]) THEN None ELSE pending[h]]
Taken(sessions) == {h \in Handles : sessions[h] # None}

Full(sessions) == Cardinality(Taken(sessions)) >= MaxPending

\* The redirect is refused or the secrets cannot be drawn: the registry is
\* not reached, and nothing is reaped.
Unprepared(c) ==
    /\ place[c] = "idle"
    /\ place' = [place EXCEPT ![c] = "over"]
    /\ UNCHANGED <<pending, poisoned, handle, wait, connections, callback,
                   claimed, judged, grant>>

\* begin_authorization finds no room among the sessions that live.
Refuse(c) ==
    /\ place[c] = "idle"
    /\ Trusted
    /\ Full(Reaped)
    /\ pending' = Reaped
    /\ place' = [place EXCEPT ![c] = "busy"]
    /\ UNCHANGED <<poisoned, handle, wait, connections, callback, claimed,
                   judged, grant>>

\* A session goes in under a handle no live session has.
Insert(c, h) ==
    /\ place[c] = "idle"
    /\ Trusted
    /\ ~Full(Reaped)
    /\ h \notin Taken(Reaped)
    /\ pending' = [Reaped EXCEPT ![h] = [of |-> c, left |-> Ttl]]
    /\ handle' = [handle EXCEPT ![c] = h]
    /\ place' = [place EXCEPT ![c] = "opening"]
    /\ UNCHANGED <<poisoned, wait, connections, callback, claimed, judged, grant>>

\* No handle: the source failed, or repeated live handles too often.
Undrawn(c) ==
    /\ place[c] = "idle"
    /\ Trusted
    /\ ~Full(Reaped)
    /\ pending' = Reaped
    /\ place' = [place EXCEPT ![c] = "over"]
    /\ UNCHANGED <<poisoned, handle, wait, connections, callback, claimed,
                   judged, grant>>

\* The source panics while insert holds the lock.
Panic(c) ==
    /\ place[c] = "idle"
    /\ Trusted
    /\ ~Full(Reaped)
    /\ pending' = Reaped
    /\ poisoned' = TRUE
    /\ place' = [place EXCEPT ![c] = "over"]
    /\ UNCHANGED <<handle, wait, connections, callback, claimed, judged, grant>>

\* Whoever next locks a poisoned registry empties it and fails.
Drain(c) ==
    /\ ~Trusted
    /\ place[c] \in {"idle", "called"}
    /\ pending' = [h \in Handles |-> None]
    /\ callback' = [callback EXCEPT ![c] = None]
    /\ place' = [place EXCEPT ![c] = "over"]
    /\ UNCHANGED <<poisoned, handle, wait, connections, claimed, judged, grant>>

-----------------------------------------------------------------------------
(* The listener.                                                            *)

\* The listener and its timer go with the wait.
Unlisten(c, position) ==
    /\ place' = [place EXCEPT ![c] = position]
    /\ wait' = [wait EXCEPT ![c] = 0]
    /\ connections' = [connections EXCEPT ![c] = 0]

\* The browser has been started; its opener may take its time.
Listen(c) ==
    /\ place[c] = "opening"
    /\ wait' = [wait EXCEPT ![c] = Deadline]
    /\ place' = [place EXCEPT ![c] = "waiting"]
    /\ UNCHANGED <<pending, poisoned, handle, connections, callback, claimed,
                   judged, grant>>

LastConnection(c) == connections[c] + 1 = MaxConnections

\* A connection that brings no matching callback is answered and forgotten.
Stray(c) ==
    /\ place[c] = "waiting"
    /\ IF LastConnection(c)
       THEN Unlisten(c, "over")
       ELSE /\ connections' = [connections EXCEPT ![c] = @ + 1]
            /\ UNCHANGED <<place, wait>>
    /\ UNCHANGED <<pending, poisoned, handle, callback, claimed, judged, grant>>

\* The redirect of this call's browser. The listener looks at the state alone.
Receive(c, kind) ==
    /\ place[c] = "waiting"
    /\ callback' = [callback EXCEPT ![c] = [of |-> c, kind |-> kind]]
    /\ Unlisten(c, "called")
    /\ UNCHANGED <<pending, poisoned, handle, claimed, judged, grant>>

\* (mutant of TimeOut: the timer runs only once something has connected)
TimeOutReading(c) ==
    /\ place[c] = "waiting"
    /\ wait[c] = 0
    /\ connections[c] # 0
    /\ Unlisten(c, "over")
    /\ UNCHANGED <<pending, poisoned, handle, callback, claimed, judged, grant>>

\* The deadline is for the whole wait. The session stays behind.
TimeOut(c) ==
    /\ place[c] = "waiting"
    /\ wait[c] = 0
    /\ Unlisten(c, "over")
    /\ UNCHANGED <<pending, poisoned, handle, callback, claimed, judged, grant>>

\* accept fails, or the future is dropped.
GiveUp(c) ==
    /\ place[c] = "waiting"
    /\ Unlisten(c, "over")
    /\ UNCHANGED <<pending, poisoned, handle, callback, claimed, judged, grant>>

-----------------------------------------------------------------------------
(* The completion.                                                          *)

\* (mutant of Unregistered: claim copies the session)
UnregisteredLater(h) == pending

\* claim: whatever follows, the session is out of the registry.
Unregistered(h) == [pending EXCEPT ![h] = None]

Claim(c) ==
    /\ place[c] = "called"
    /\ Trusted
    /\ pending[handle[c]] # None
    /\ claimed' = [claimed EXCEPT ![c] = pending[handle[c]]]
    /\ pending' = Unregistered(handle[c])
    /\ place' = [place EXCEPT ![c] = "claimed"]
    /\ UNCHANGED <<poisoned, handle, wait, connections, callback, judged, grant>>

\* SessionUnknown.
Unknown(c) ==
    /\ place[c] = "called"
    /\ Trusted
    /\ pending[handle[c]] = None
    /\ callback' = [callback EXCEPT ![c] = None]
    /\ place' = [place EXCEPT ![c] = "over"]
    /\ UNCHANGED <<pending, poisoned, handle, wait, connections, claimed,
                   judged, grant>>

\* (mutant of Accepts: the state is not compared)
AcceptsAnyState(s, cb) == s.left > 0 /\ cb.kind = "code"

\* validate_callback: in time, this session's redirect and state, a code.
Accepts(s, cb) == s.left > 0 /\ cb.of = s.of /\ cb.kind = "code"

\* finish consumes the session before it judges.
Finish(c) ==
    /\ place[c] = "claimed"
    /\ judged' = [judged EXCEPT ![claimed[c].of] = @ + 1]
    /\ grant' = [grant EXCEPT ![c] =
                    IF Accepts(claimed[c], callback[c])
                    THEN [by |-> claimed[c], on |-> callback[c]] ELSE None]
    /\ claimed' = [claimed EXCEPT ![c] = None]
    /\ callback' = [callback EXCEPT ![c] = None]
    /\ place' = [place EXCEPT ![c] = "over"]
    /\ UNCHANGED <<pending, poisoned, handle, wait, connections>>

\* complete_authorization is public: a holder of the handle may call it
\* again, and with any callback.
Repeat(c, cb) ==
    /\ place[c] = "over"
    /\ handle[c] # None
    /\ callback' = [callback EXCEPT ![c] = cb]
    /\ grant' = [grant EXCEPT ![c] = None]
    /\ place' = [place EXCEPT ![c] = "called"]
    /\ UNCHANGED <<pending, poisoned, handle, wait, connections, claimed, judged>>

-----------------------------------------------------------------------------
SessionsNext ==
    \/ Tick
    \/ \E c \in Attempts :
        \/ Unprepared(c) \/ Refuse(c) \/ Undrawn(c) \/ Panic(c) \/ Drain(c)
        \/ \E h \in Handles : Insert(c, h)
        \/ Listen(c) \/ Stray(c) \/ TimeOut(c) \/ GiveUp(c)
        \/ \E kind \in {"code", "refusal"} : Receive(c, kind)
        \/ Claim(c) \/ Unknown(c) \/ Finish(c)
        \/ \E cb \in Callbacks : Repeat(c, cb)

SessionsSpec == SessionsInit /\ [][SessionsNext]_sessionsVars

\* Time goes on, and a timer that is due is served. Nobody owes the listener
\* a connection, and the opener of the browser owes nobody its end.
SessionsFairSpec ==
    /\ SessionsSpec
    /\ WF_sessionsVars(Tick)
    /\ \A c \in Attempts : WF_sessionsVars(TimeOut(c))

-----------------------------------------------------------------------------
\* A session judges one callback, whoever brings it and however often: claim
\* removes it before anything is looked at, so a repeated, refused or foreign
\* callback leaves nothing to try again.
AttemptIsTerminal == \A c \in Attempts : judged[c] <= 1

\* A grant is made by the session the redirect was made for, while it lives:
\* also when a handle was drawn again after its session expired, and a call
\* that still holds it claims its successor's session.
GrantIsOwn ==
    \A c \in Attempts : grant[c] # None =>
        grant[c].on.of = grant[c].by.of /\ grant[c].by.left > 0

\* The registry holds no more than its limit, counting the sessions that have
\* expired and wait to be reaped.
PendingBound == Cardinality(Taken(pending)) <= MaxPending

\* A session that lives leaves the registry only by a claim of its handle:
\* room for a new one is never made at the cost of another.
LiveIsKept ==
    [][\A h \in Handles :
        pending[h] # None /\ pending[h].left > 0 /\ ~poisoned =>
            \/ pending'[h] # None /\ pending'[h].of = pending[h].of
            \/ \E c \in Attempts : handle[c] = h /\ claimed'[c] = pending[h]]_sessionsVars

\* Busy means that the limit is reached by sessions that live: abandoned
\* sign-ins hold their room for their lifetime and no longer.
BusyMeansFull ==
    [][\A c \in Attempts : place[c] # "busy" /\ place'[c] = "busy" =>
        Cardinality({h \in Taken(pending) : pending[h].left > 0}) >= MaxPending]_sessionsVars

\* A listener does not wait for ever, whatever connections arrive or stall:
\* the deadline is for the whole wait, not for one connection.
WaitEnds == \A c \in Attempts : place[c] = "waiting" ~> place[c] # "waiting"
=============================================================================

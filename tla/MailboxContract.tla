--------------------------- MODULE MailboxContract ---------------------------
(***************************************************************************)
(* What a caller of one account's mailbox store may rely on: the documents *)
(* of the ports MailboxReader, MailboxStore, AccountIdentityStore,         *)
(* AccountPurgeStore and AccountLifecycleStore (crates/application). Each  *)
(* call is one step, takes effect whole or not at all, and says which; its *)
(* effect is stated by what the tables hold afterwards, not by how they    *)
(* are written.                                                            *)
(***************************************************************************)
EXTENDS Integers, Sequences, FiniteSets

CONSTANTS
    Ids,          \* message identifiers, ordered like their texts
    Threads,      \* thread identifiers
    Envelopes,    \* envelope snapshots a mailbox may send
    Bodies,       \* complete contents
    Identities,   \* identity hashes
    Times,        \* times of a successful sync that may be recorded, some before the epoch
    MAX,          \* StoreLimit::MAX
    None          \* an absent row, identity, credential, marker or content

ASSUME ContractAssumption ==
    /\ Ids \subseteq Nat /\ IsFiniteSet(Ids)
    /\ Envelopes \subseteq [id : Ids, thread : Threads, received : Nat, hits : BOOLEAN, unread : BOOLEAN]
    /\ Times \subseteq Int
    /\ MAX \in Nat \ {0}
    /\ None \notin Bodies \cup Identities

VARIABLES
    disk,         \* the committed tables
    returned      \* what the last call returned

vars == <<disk, returned>>

Message == [thread : Threads, received : Nat, hits : BOOLEAN, unread : BOOLEAN,
            content : Bodies \cup {None}]

\* An absent row is no row.
ASSUME AbsentAssumption == None \notin Message

DisconnectRecoveryState == {"IncompleteTeardown", "RevokeUnconfirmed"}
MailboxStoreError == {"Storage", "Corrupted", "IdentityChanged", "IdentityRaced"}
StoreLimit == 1..MAX

Tables ==
    [rows : [Ids -> Message \cup {None}],
     identity : Identities \cup {None},
     binding : BOOLEAN,                          \* the row holds a broker's subject or token
     recovery : DisconnectRecoveryState \cup {None},
     freshness : Nat \cup {None}]

Init ==
    /\ disk = [rows |-> [i \in Ids |-> None], identity |-> None, binding |-> FALSE,
               recovery |-> None, freshness |-> None]
    /\ returned = [kind |-> "nothing", ids |-> <<>>, content |-> None]

-----------------------------------------------------------------------------
Present(rows) == {i \in Ids : rows[i] # None}

\* Received later; of two received together, the smaller identifier.
Newer(rows, i, j) ==
    \/ rows[i].received > rows[j].received
    \/ rows[i].received = rows[j].received /\ i < j

\* The places of the snapshots of one message.
Of(envelopes, i) == {k \in DOMAIN envelopes : envelopes[k].id = i}

\* A message takes the last snapshot sent of it, keeps its body, and is
\* unread only if it was, or is new, and every snapshot says so.
Merged(rows, envelopes) ==
    [i \in Ids |->
        IF Of(envelopes, i) = {} THEN rows[i]
        ELSE LET last == CHOOSE k \in Of(envelopes, i) : \A n \in Of(envelopes, i) : n <= k
             IN  [thread |-> envelopes[last].thread, received |-> envelopes[last].received,
                  hits |-> envelopes[last].hits,
                  unread |-> /\ rows[i] # None => rows[i].unread
                             /\ \A k \in Of(envelopes, i) : envelopes[k].unread,
                  content |-> IF rows[i] = None THEN None ELSE rows[i].content]]

\* What is left when only the n newest rows are kept.
Newest(rows, n) ==
    [i \in Ids |->
        IF i \in Present(rows) /\ Cardinality({j \in Present(rows) : Newer(rows, j, i)}) < n
        THEN rows[i] ELSE None]

\* A sequence of identifiers names each surviving input once, in the order in
\* which they were first sent.
NamesSurvivors(ids, envelopes, rows) ==
    LET first(i) == CHOOSE k \in Of(envelopes, i) : \A n \in Of(envelopes, i) : k <= n
    IN  /\ {ids[n] : n \in DOMAIN ids} =
               {i \in Present(rows) : Of(envelopes, i) # {}}
        /\ \A m, n \in DOMAIN ids : m < n => first(ids[m]) < first(ids[n])

\* A sequence lists the first n of a set of rows, newest first.
Lists(ids, among, rows, n) ==
    /\ {ids[k] : k \in DOMAIN ids} \subseteq among
    /\ Len(ids) = IF Cardinality(among) < n THEN Cardinality(among) ELSE n
    /\ \A k, m \in DOMAIN ids : k < m => Newer(rows, ids[k], ids[m])
    /\ \A i \in among : (\E k \in DOMAIN ids : ids[k] = i)
                        \/ \A k \in DOMAIN ids : Newer(rows, ids[k], i)

-----------------------------------------------------------------------------
\* Of any kind; with identifiers if it is a listing, and a content if it is one.
Answer(kind) == returned' = [kind |-> kind, ids |-> <<>>, content |-> None]
Listing(kind) == returned'.kind = kind /\ returned'.content = None

\* Any call may fail, and a call by a process that dies answers nothing.
Fail == (Answer("Storage") \/ Answer("Corrupted")) /\ UNCHANGED disk
Die == Answer("nothing") /\ UNCHANGED disk

Reconcile(envelopes, keep, fence) ==
    IF disk.identity = fence
    THEN LET rows == Newest(Merged(disk.rows, envelopes), keep)
         IN  /\ disk' = [disk EXCEPT !.rows = rows]
             /\ Listing("survivors")
             /\ NamesSurvivors(returned'.ids, envelopes, rows)
    ELSE UNCHANGED disk /\ Answer("IdentityChanged")

Cache(envelope, body, fence) ==
    IF disk.identity = fence
    THEN IF disk.rows[envelope.id] = None
         THEN UNCHANGED disk /\ Answer("absent")
         ELSE /\ disk' = [disk EXCEPT !.rows =
                     [Merged(@, <<envelope>>) EXCEPT ![envelope.id].content = body]]
              /\ Answer("cached")
    ELSE UNCHANGED disk /\ Answer("IdentityChanged")

Upsert(envelopes) == disk' = [disk EXCEPT !.rows = Merged(@, envelopes)] /\ Answer("ok")

Put(envelope, body) ==
    /\ disk' = [disk EXCEPT !.rows = [Merged(@, <<envelope>>) EXCEPT ![envelope.id].content = body]]
    /\ Answer("ok")

\* Another identity takes neither the mail nor its freshness over.
RecordIdentity(fresh, expected) ==
    IF disk.identity = expected
    THEN /\ disk' = IF expected = None
                    THEN [disk EXCEPT !.identity = fresh]
                    ELSE [disk EXCEPT !.identity = fresh, !.rows = [i \in Ids |-> None],
                                      !.freshness = None]
         /\ Answer("ok")
    ELSE UNCHANGED disk /\ Answer("IdentityRaced")

\* Only the recovery marker outlives the account's local data.
Purge ==
    /\ disk' = [disk EXCEPT !.rows = [i \in Ids |-> None], !.identity = None, !.binding = FALSE,
                            !.freshness = None]
    /\ Answer("ok")

MarkRead(which) ==
    /\ disk' = [disk EXCEPT !.rows = [i \in Ids |->
            IF i \in which \cap Present(disk.rows)
            THEN [disk.rows[i] EXCEPT !.unread = FALSE] ELSE disk.rows[i]]]
    /\ Answer("ok")

Set(field, value) == disk' = [disk EXCEPT ![field] = value] /\ Answer("ok")

Inbox(limit) ==
    /\ UNCHANGED disk
    /\ Listing("inbox") /\ Lists(returned'.ids, Present(disk.rows), disk.rows, limit)

\* One thread, oldest first; of two received together, the smaller identifier.
Thread(thread, limit) ==
    /\ UNCHANGED disk
    /\ Listing("thread")
    /\ LET among == {i \in Present(disk.rows) : disk.rows[i].thread = thread}
           ids == returned'.ids
           before(i, j) ==
               \/ disk.rows[i].received < disk.rows[j].received
               \/ disk.rows[i].received = disk.rows[j].received /\ i < j
       IN  /\ {ids[k] : k \in DOMAIN ids} =
                  {i \in among : Cardinality({j \in among : before(j, i)}) < limit}
           /\ \A k, m \in DOMAIN ids : k < m => before(ids[k], ids[m])

\* A search finds what matches in the whole of a cache of at most MAX rows.
Search(limit) ==
    /\ UNCHANGED disk
    /\ Listing("search")
    /\ Cardinality(Present(disk.rows)) <= MAX =>
           Lists(returned'.ids, {i \in Present(disk.rows) : disk.rows[i].hits}, disk.rows, limit)

GetMessage(i) ==
    /\ UNCHANGED disk
    /\ returned' = [kind |-> "message", ids |-> <<>>,
                    content |-> IF disk.rows[i] = None THEN None ELSE disk.rows[i].content]

\* What the account's row records: who it is, its markers.
Load(field) ==
    /\ UNCHANGED disk
    /\ returned' = [kind |-> field, ids |-> <<>>, content |-> disk[field]]

Batches == UNION {[1..n -> Envelopes] : n \in 0..MAX}

Next ==
    \/ Fail \/ Die \/ Purge
    \/ \E batch \in Batches :
          \/ Upsert(batch)
          \/ \E keep \in StoreLimit, fence \in Identities : Reconcile(batch, keep, fence)
    \/ \E envelope \in Envelopes, body \in Bodies :
          \/ Put(envelope, body)
          \/ \E fence \in Identities : Cache(envelope, body, fence)
    \/ \E fresh \in Identities, expected \in Identities \cup {None} : RecordIdentity(fresh, expected)
    \/ \E i \in Ids : MarkRead({i}) \/ GetMessage(i)
    \/ \E thread \in Threads :
          \/ MarkRead({i \in Present(disk.rows) : disk.rows[i].thread = thread})
          \/ \E limit \in StoreLimit : Thread(thread, limit)
    \/ \E limit \in StoreLimit : Inbox(limit) \/ Search(limit)
    \/ \E b \in BOOLEAN : Set("binding", b)
    \/ \E field \in {"identity", "binding", "recovery", "freshness"} : Load(field)
    \/ \E mark \in DisconnectRecoveryState \cup {None} : Set("recovery", mark)
    \/ \E time \in Times :
          IF time >= 0 THEN Set("freshness", time) ELSE UNCHANGED disk /\ Answer("Corrupted")

Spec == Init /\ [][Next]_vars
=============================================================================

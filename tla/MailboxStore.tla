---------------------------- MODULE MailboxStore ----------------------------
(***************************************************************************)
(* One account's mailbox store (adapters/store-sqlcipher) statement by     *)
(* statement: the writers' transactions with their SQL in its order, the   *)
(* single statements that commit by themselves, the listings with their    *)
(* ORDER BY and LIMIT, and the search and the documents built on them      *)
(* (crates/application/src/mailbox_search.rs, mailbox_metadata.rs). A      *)
(* transaction holds the write lock of the file from its first write on;   *)
(* other connections wait for it, or give up, and read what is committed.  *)
(* Any statement may fail and the process may die between any two.         *)
(***************************************************************************)
EXTENDS MailboxContract, SequencesExt

VARIABLES
    work          \* the transaction that holds the write lock, or None

tables == <<disk, returned, work>>

\* The statements a transaction may still have to run.
StatementNames ==
    {"write", "update", "prune", "survivors", "fence", "expected", "deleteMessages",
     "clearFreshness", "insertIdentity", "deleteIdentity", "clearBinding", "commit"}

NoWork == None

\* The types; and a transaction that ended holds nothing.
TypeOK ==
    /\ disk \in Tables
    /\ returned.kind \in MailboxStoreError
           \cup {"nothing", "ok", "survivors", "cached", "absent", "inbox", "thread", "search", "message",
            "identity", "binding", "recovery", "freshness"}
    /\ \A k \in DOMAIN returned.ids : returned.ids[k] \in Ids
    /\ returned.kind \in {"identity", "binding", "recovery", "freshness"} \/ returned.content \in Bodies \cup {None}
    /\ work # NoWork =>
           /\ work.image \in Tables
           /\ work.steps # <<>>
           /\ \A k \in DOMAIN work.steps : work.steps[k] \in StatementNames
           /\ Last(work.steps) = "commit"
           /\ Len(work.left) <= Len(work.batch)

StoreInit == Init /\ work = NoWork

-----------------------------------------------------------------------------
(* The rows.                                                                *)

\* (mutant of Unread: what the mailbox says last counts)
UnreadAsSent(row, envelope) == envelope.unread

\* A message that was read here stays read.
Unread(row, envelope) == row.unread /\ envelope.unread

RowOf(envelope, unread, content) ==
    [thread |-> envelope.thread, received |-> envelope.received, hits |-> envelope.hits,
     unread |-> unread, content |-> content]

\* INSERT .. ON CONFLICT DO UPDATE; without a content the one that is there stays.
WriteEnvelope(rows, envelope, content) ==
    [rows EXCEPT ![envelope.id] =
        IF @ = None THEN RowOf(envelope, envelope.unread, content)
        ELSE RowOf(envelope, Unread(@, envelope), IF content = None THEN @.content ELSE content)]

\* UPDATE .. WHERE message_id: no row is inserted.
UpdateRow(rows, envelope, content) ==
    IF rows[envelope.id] = None THEN rows ELSE WriteEnvelope(rows, envelope, content)

\* ORDER BY received_at ASC, message_id ASC
Before(rows, i, j) ==
    \/ rows[i].received < rows[j].received
    \/ rows[i].received = rows[j].received /\ i < j

\* The members of a finite set, each once, in the order of a relation.
OrderBy(S, before) ==
    CHOOSE s \in [1..Cardinality(S) -> S] :
        \A k, m \in 1..Cardinality(S) : k < m => <<s[k], s[m]>> \in before

NewestFirst(rows, S) == {p \in S \X S : Newer(rows, p[1], p[2])}
OldestFirst(rows, S) == {p \in S \X S : Before(rows, p[1], p[2])}
Ascending(S) == {p \in S \X S : p[1] < p[2]}

\* What a sequence has at some places, in its own order.
Filtered(s, places) ==
    [k \in 1..Cardinality(places) |-> s[OrderBy(places, Ascending(places))[k]]]

Limited(ids, limit) == SubSeq(ids, 1, IF Len(ids) < limit THEN Len(ids) ELSE limit)

\* ORDER BY received_at DESC, message_id ASC LIMIT ?
ListEnvelopes(rows, limit) ==
    Limited(OrderBy(Present(rows), NewestFirst(rows, Present(rows))), limit)

ListThread(rows, thread, limit) ==
    LET among == {i \in Present(rows) : rows[i].thread = thread}
    IN  Limited(OrderBy(among, OldestFirst(rows, among)), limit)

\* The whole cache is listed and searched, and then cut.
SearchMetadata(rows, limit) ==
    LET listed == ListEnvelopes(rows, MAX)
    IN  Limited(Filtered(listed, {k \in DOMAIN listed : rows[listed[k]].hits}), limit)

-----------------------------------------------------------------------------
(* Transactions.                                                            *)

\* BEGIN IMMEDIATE, or the first write of a deferred transaction.
Transaction(steps, batch, content, keep, fence, fresh) ==
    /\ work = NoWork
    /\ work' = [steps |-> steps, image |-> disk, batch |-> batch, left |-> batch,
                content |-> content, keep |-> keep, fence |-> fence, fresh |-> fresh,
                answer |-> [kind |-> "ok", ids |-> <<>>, content |-> None]]
    /\ Answer("nothing")
    /\ UNCHANGED disk

\* A statement for each envelope.
Writes(batch) == [k \in DOMAIN batch |-> "write"]

BeginReconcile(batch, keep, fence) ==
    /\ Transaction(Writes(batch) \o <<"prune", "survivors", "fence", "commit">>,
                   batch, None, keep, fence, None)

\* Answered without the database.
Refused == Answer("Storage") /\ UNCHANGED <<disk, work>>

\* A batch longer than MAX is refused before anything is opened.
RefuseReconcile == work = NoWork /\ Refused

BeginCache(envelope, body, fence) ==
    Transaction(<<"update", "fence", "commit">>, <<envelope>>, body, MAX, fence, None)

BeginUpsert(batch) ==
    Transaction(Writes(batch) \o <<"commit">>, batch, None, MAX, None, None)

BeginPut(envelope, body) ==
    Transaction(<<"write", "commit">>, <<envelope>>, body, MAX, None, None)

\* The fence of this one is the identity the gate has seen.
BeginRecord(fresh, expected) ==
    /\ fresh # expected
    /\ Transaction(IF expected = None THEN <<"expected", "insertIdentity", "commit">>
                   ELSE <<"expected", "deleteMessages", "clearFreshness", "insertIdentity", "commit">>,
                   <<>>, None, MAX, expected, fresh)

BeginPurge ==
    Transaction(<<"deleteMessages", "deleteIdentity", "clearBinding", "clearFreshness", "commit">>,
                <<>>, None, MAX, None, None)

-----------------------------------------------------------------------------
(* Their statements, each on the image of its transaction.                  *)

Next1 == Tail(work.steps)
At(name) == work # NoWork /\ Head(work.steps) = name

\* The statement changes the image, and the next one follows.
Run(image) ==
    /\ work' = [work EXCEPT !.image = image, !.steps = Next1]
    /\ UNCHANGED <<disk, returned>>

Write ==
    /\ At("write")
    /\ work' = [work EXCEPT !.image.rows = WriteEnvelope(@, Head(work.left), work.content),
                            !.left = Tail(@), !.steps = Next1]
    /\ UNCHANGED <<disk, returned>>

Update ==
    /\ At("update")
    /\ work' = [work EXCEPT !.image.rows = UpdateRow(@, Head(work.left), work.content),
                            !.answer.kind = IF work.image.rows[Head(work.left).id] = None
                                            THEN "absent" ELSE "cached",
                            !.steps = Next1]
    /\ UNCHANGED <<disk, returned>>

\* DELETE .. WHERE message_id NOT IN (the newest)
Prune ==
    /\ At("prune")
    /\ LET kept == ToSet(ListEnvelopes(work.image.rows, work.keep))
       IN  Run([work.image EXCEPT !.rows = [i \in Ids |-> IF i \in kept THEN @[i] ELSE None]])

\* The first of its message in the batch.
FirstOf(batch, k) == \A n \in 1..(k - 1) : batch[n].id # batch[k].id

Survivors ==
    /\ At("survivors")
    /\ LET named == Filtered(work.batch,
                             {k \in DOMAIN work.batch :
                                 /\ FirstOf(work.batch, k)
                                 /\ work.image.rows[work.batch[k].id] # None})
       IN  work' = [work EXCEPT !.answer.kind = "survivors",
                                !.answer.ids = [k \in DOMAIN named |-> named[k].id],
                                !.steps = Next1]
    /\ UNCHANGED <<disk, returned>>

\* A transaction that is given up is rolled back.
Rollback(kind) ==
    /\ work' = NoWork
    /\ Answer(kind)
    /\ UNCHANGED disk

\* assert_identity_unchanged
CheckFence ==
    /\ At("fence")
    /\ IF work.image.identity = work.fence THEN Run(work.image) ELSE Rollback("IdentityChanged")

\* assert_identity_matches_expected
CheckExpected ==
    /\ At("expected")
    /\ IF work.image.identity = work.fence THEN Run(work.image) ELSE Rollback("IdentityRaced")

DeleteMessages ==
    /\ At("deleteMessages")
    /\ Run([work.image EXCEPT !.rows = [i \in Ids |-> None]])

ClearFreshness == At("clearFreshness") /\ Run([work.image EXCEPT !.freshness = None])
InsertIdentity == At("insertIdentity") /\ Run([work.image EXCEPT !.identity = work.fresh])
DeleteIdentity == At("deleteIdentity") /\ Run([work.image EXCEPT !.identity = None])
ClearBinding ==
    At("clearBinding") /\ Run([work.image EXCEPT !.binding = FALSE])

Commit ==
    /\ At("commit")
    /\ disk' = work.image
    /\ returned' = work.answer
    /\ work' = NoWork

\* A statement fails, and so does the transaction.
Fault == work # NoWork /\ (Rollback("Storage") \/ Rollback("Corrupted"))

\* The process dies; SQLite rolls back what it has not committed.
Crash == work # NoWork /\ Rollback("nothing")

\* The lock is not free within BUSY_TIMEOUT.
Busy == work # NoWork /\ Refused

-----------------------------------------------------------------------------
(* Single statements, and reads.                                            *)

Single(tablesThen) ==
    /\ work = NoWork
    /\ disk' = tablesThen
    /\ Answer("ok")
    /\ UNCHANGED work

Read(which) ==
    [i \in Ids |-> IF disk.rows[i] # None /\ which[i] THEN [disk.rows[i] EXCEPT !.unread = FALSE]
                   ELSE disk.rows[i]]

MarkMessageRead(id) == Single([disk EXCEPT !.rows = Read([i \in Ids |-> i = id])])
MarkThreadRead(thread) ==
    Single([disk EXCEPT !.rows = Read([i \in Ids |-> disk.rows[i] # None /\ disk.rows[i].thread = thread])])

\* store_broker_subject and store_refresh_token; or clear_refresh_token, with no
\* subject there.
UpdateBinding(there) == Single([disk EXCEPT !.binding = there])
UpdateRecovery(mark) == Single([disk EXCEPT !.recovery = mark])

Storable(time) == time >= 0

RecordSuccessfulSync(time) ==
    \/ Storable(time) /\ Single([disk EXCEPT !.freshness = time])
    \/ ~Storable(time) /\ work = NoWork /\ Answer("Corrupted") /\ UNCHANGED <<disk, work>>

\* A listing. Of what is committed: what another connection lists while a
\* transaction runs it could list before it began.
List(kind, ids) ==
    /\ work = NoWork
    /\ returned' = [kind |-> kind, ids |-> ids, content |-> None]
    /\ UNCHANGED <<disk, work>>

InboxMetadata(limit) == List("inbox", ListEnvelopes(disk.rows, limit))
ThreadMetadata(thread, limit) == List("thread", ListThread(disk.rows, thread, limit))
SearchCache(limit) == List("search", SearchMetadata(disk.rows, limit))

\* A row without a body is as good as none.
GetCompleteMessage(id) ==
    /\ work = NoWork
    /\ returned' = [kind |-> "message", ids |-> <<>>,
                    content |-> IF disk.rows[id] = None THEN None ELSE disk.rows[id].content]
    /\ UNCHANGED <<disk, work>>

LoadColumn(field) ==
    /\ work = NoWork
    /\ returned' = [kind |-> field, ids |-> <<>>, content |-> disk[field]]
    /\ UNCHANGED <<disk, work>>

ReadIdentityHash == LoadColumn("identity")
LoadBinding == LoadColumn("binding")
ReadLifecycleMetadata == LoadColumn("recovery") \/ LoadColumn("freshness")

\* A call for another account is refused before it touches the connection.
OtherAccount == work = NoWork /\ Refused

-----------------------------------------------------------------------------
Begins ==
    \/ \E batch \in Batches :
          \/ BeginUpsert(batch)
          \/ \E keep \in StoreLimit, fence \in Identities : BeginReconcile(batch, keep, fence)
    \/ \E envelope \in Envelopes, body \in Bodies :
          \/ BeginPut(envelope, body)
          \/ \E fence \in Identities : BeginCache(envelope, body, fence)
    \/ \E fresh \in Identities, expected \in Identities \cup {None} : BeginRecord(fresh, expected)
    \/ BeginPurge \/ RefuseReconcile

Statement ==
    \/ Write \/ Update \/ Prune \/ Survivors \/ CheckFence \/ CheckExpected
    \/ DeleteMessages \/ ClearFreshness \/ InsertIdentity \/ DeleteIdentity \/ ClearBinding
    \/ Commit

Singles ==
    \/ \E id \in Ids : MarkMessageRead(id) \/ GetCompleteMessage(id)
    \/ \E thread \in Threads :
          MarkThreadRead(thread) \/ \E limit \in StoreLimit : ThreadMetadata(thread, limit)
    \/ \E limit \in StoreLimit : InboxMetadata(limit) \/ SearchCache(limit)
    \/ \E there \in BOOLEAN : UpdateBinding(there)
    \/ \E mark \in DisconnectRecoveryState \cup {None} : UpdateRecovery(mark)
    \/ \E time \in Times : RecordSuccessfulSync(time)
    \/ ReadIdentityHash \/ LoadBinding \/ ReadLifecycleMetadata \/ OtherAccount

StoreNext == Begins \/ Statement \/ Fault \/ Crash \/ Busy \/ Singles

StoreSpec == StoreInit /\ [][StoreNext]_tables

-----------------------------------------------------------------------------
(* Properties.                                                              *)

\* What the ports promise: whatever is interrupted, each call took effect
\* whole or not at all, and what it answers is true of what is stored.
Contract == INSTANCE MailboxContract WITH
    Ids <- Ids, Threads <- Threads, Envelopes <- Envelopes, Bodies <- Bodies,
    Identities <- Identities, Times <- Times, MAX <- MAX, None <- None,
    disk <- disk, returned <- returned

KeepsContract == Contract!Spec
=============================================================================

------------------------------ MODULE GmailRest ------------------------------
(***************************************************************************)
(* A session of an account and its Gmail mailbox (adapters/gmail-rest,     *)
(* sync-runtime/src/session.rs): the broker asks Google, judges the answer *)
(* and settles what is stored; the token of a refresh becomes a session;   *)
(* then pages are listed and messages fetched with it. A page is a listing *)
(* and one request more for each message it lists, a message is two        *)
(* requests, and the mailbox goes on changing between them. Each answer is *)
(* a step. Google tells the truth about what is there; the data it sends   *)
(* is whatever it sends.                                                   *)
(***************************************************************************)
EXTENDS BrokerAnswers, FiniteSets

CONSTANTS
    Ids,          \* message identifiers
    PathIds,      \* those among them that are "." or ".."
    Threads,      \* thread identifiers
    NotAnId,      \* a text that is no identifier, or no page token
    Slots,        \* local accounts
    MaxPage,      \* the largest page asked for
    JSON_LIMIT, RAW_JSON_LIMIT, MaxContent   \* lengths, with JSON_LIMIT < RAW_JSON_LIMIT

ASSUME PageAssumption == MaxPage \in Nat \ {0} /\ Ids \cap (1..MaxPage) = {} /\ NotAnId \notin Ids

VARIABLES
    asked,        \* what the broker was called for
    again,        \* whether it asks Google a second time
    requested,    \* the subject it was called with
    held,         \* the account of the credential stored under that subject before
    answer,       \* Google's answer
    times,        \* the clock and the two times of the identity in that answer
    ended,        \* how the call ended
    storeFault,   \* what the store did in it
    mail,         \* the thread of each message of the mailbox; None when it is gone
    session,      \* None, or the session with the local account it is for
    pc,           \* the request that is under way
    wanted,       \* the page size, or the message, that was asked for
    listing,      \* what was listed
    at,           \* the place of the listing that is looked up
    page,         \* envelopes so far
    content,      \* the content that was fetched
    error         \* how the call ended

call == <<pc, wanted, listing, at, page, content, error>>
token == <<asked, again, requested, held, answer, times, ended, storeFault>>
vars == <<token, mail, session, call>>

Statuses == {200, 400, 401, 403, 404, 429, 500}
Reasons == {"rateLimitExceeded", "authError"}
RemoteMailboxError ==
    {"AuthorizationRequired", "RateLimited", "NotFound", "Transport", "InvalidResponse"}
Envelopes == [id : Ids, thread : Threads]
Listed == [id : Ids \cup {NotAnId}, thread : Threads \cup {NotAnId}]

NoCall ==
    /\ asked = None /\ again = FALSE /\ requested = None /\ held = None
    /\ answer = None /\ times = None /\ ended = None /\ storeFault = "none"

BrokerTypes ==
    /\ asked \in Requests \cup {None}
    /\ requested \in Subjects \cup {None}
    /\ held \in Subjects \cup {None}
    /\ times \in {None} \cup [now : 0..MaxSecond, issued : 0..MaxSecond, expires : 0..MaxSecond]
    /\ ended \in {None} \cup [result : BrokerError \cup {"ok"}, stored : Stored, revokes : BOOLEAN]
    /\ storeFault \in StoreFaults

SessionTypes ==
    session # None =>
        /\ NoCall
        /\ session.slot \in Slots /\ session.owner \in Subjects /\ session.subject \in Texts

MailboxTypes ==
    /\ mail \in [Ids -> Threads \cup {None}]
    /\ pc \in {"idle", "list", "hydrate", "metadata", "raw", "done"}
    /\ wanted \in {None} \cup Ids \cup 1..MaxPage
    /\ listing \in Seq(Listed) /\ Len(listing) <= MaxPage
    /\ at \in 0..(MaxPage + 1)
    /\ page \in Seq(Envelopes) /\ Len(page) <= MaxPage
    /\ error \in RemoteMailboxError \cup {"none"}

\* One type per variable; no broker call while a session is open, and no page is
\* larger than the largest that may be asked for, whatever the server lists.
TypeOK == BrokerTypes /\ SessionTypes /\ MailboxTypes

Init ==
    /\ NoCall
    /\ mail = [m \in Ids |-> None]
    /\ session = None
    /\ pc = "idle"
    /\ wanted = None
    /\ listing = <<>>
    /\ at = 0
    /\ page = <<>>
    /\ content = None
    /\ error = "none"

-----------------------------------------------------------------------------
(* What Gmail sends, as values of the mailbox.                              *)

\* MessageId::new and ThreadId::new take it; so does PageToken::new.
IsIdentifier(text) == text # NotAnId
IsPageToken(text) == text # NotAnId

\* The texts of the headers and the date are within their bounds.
WithinBounds(m) == m.valid

-----------------------------------------------------------------------------
(* One request.                                                             *)

\* "." and ".." would be taken for path segments.
MessageRequest(id) == id \notin PathIds

ReadsResponseBody(status) == status \in {200, 403}

BodyLimit(status, limit) == IF status = 200 THEN limit ELSE JSON_LIMIT

\* Too long by what it declares, or by what has come of it.
Bounded(r, limit) ==
    /\ r.declared # None => r.declared <= limit
    /\ r.length <= limit

MapForbidden(reasons) ==
    CASE "rateLimitExceeded" \in reasons -> "RateLimited"
      [] reasons = {"authError"} -> "AuthorizationRequired"
      [] OTHER -> "InvalidResponse"

MapStatus(r) ==
    CASE r.status = 401 -> "AuthorizationRequired"
      [] r.status = 404 -> "NotFound"
      [] r.status = 429 -> "RateLimited"
      [] r.status = 500 -> "Transport"
      [] r.status = 403 -> MapForbidden(r.reasons)
      [] OTHER -> "InvalidResponse"

\* "none", or how request_json fails; status 0 is no answer.
RequestError(r, limit) ==
    CASE r.status = 0 -> "Transport"
      [] ReadsResponseBody(r.status) /\ ~Bounded(r, BodyLimit(r.status, limit))
            -> "InvalidResponse"
      [] OTHER -> IF r.status # 200 THEN MapStatus(r)
                  ELSE IF r.parses THEN "none" ELSE "InvalidResponse"

\* Answers, with their lengths, but for the data of the successful ones.
Responses(limit) ==
    [status : {0, 400, 401, 404, 429, 500}]
    \cup [status : {403}, declared : {None}, length : {1, JSON_LIMIT + 1},
          reasons : SUBSET Reasons]
    \cup [status : {200}, declared : {None, 1, limit + 1}, length : {1, limit, limit + 1},
          parses : BOOLEAN]

\* How the request of a message may end: one that is there is not reported
\* missing, and one that is gone is not sent.
EndsFor(id, limit) ==
    {RequestError(r, limit) : r \in {q \in Responses(limit) :
        q.status # IF mail[id] = None THEN 200 ELSE 404}}

ListEnds == {RequestError(r, JSON_LIMIT) : r \in Responses(JSON_LIMIT)}

-----------------------------------------------------------------------------
(* The metadata of a message.                                               *)

\* Names of the headers that were asked for, and whether date and texts are
\* within their bounds.
Metadata == [id : Ids, thread : Threads \cup {NotAnId}, headers : {<<>>, <<"From", "Subject">>,
             <<"From", "From">>, <<"Subject", "From", "Subject">>}, valid : BOOLEAN]

\* At most one of each.
Headers(names) == Cardinality({names[i] : i \in DOMAIN names}) = Len(names)

EnvelopeFrom(m, expected) ==
    m.id = expected /\ IsIdentifier(m.thread) /\ Headers(m.headers) /\ WithinBounds(m)

Finish(how) ==
    /\ pc' = "done"
    /\ error' = how

-----------------------------------------------------------------------------
(* list_recent_envelopes.                                                   *)

CheckedAccount(slot) == session.slot = slot

StartList(slot, n) ==
    /\ pc = "idle" /\ session # None
    /\ wanted' = n
    /\ IF CheckedAccount(slot)
       THEN pc' = "list" /\ error' = "none"
       ELSE Finish("AuthorizationRequired")
    /\ listing' = <<>> /\ at' = 0 /\ page' = <<>> /\ content' = None
    /\ UNCHANGED <<token, mail, session>>

\* What is listed was in the mailbox; its thread, and the rest, may be anything.
Listable == [id : {m \in Ids : mail[m] # None} \cup {NotAnId}, thread : Threads \cup {NotAnId}]

Listings == UNION {[1..n -> Listable] : n \in 0..(wanted + 1)}

AcceptsList(listed, next) == Len(listed) <= wanted /\ IsPageToken(next)

ReceiveList ==
    /\ pc = "list"
    /\ \/ \E listed \in Listings, next \in {None, NotAnId} :
             IF AcceptsList(listed, next)
             THEN listing' = listed /\ at' = 1 /\ pc' = "hydrate" /\ UNCHANGED error
             ELSE Finish("InvalidResponse") /\ UNCHANGED <<listing, at>>
       \/ \E e \in ListEnds \ {"none"} : Finish(e) /\ UNCHANGED <<listing, at>>
    /\ UNCHANGED <<token, mail, session, wanted, page, content>>

\* The loop over the listing has ended.
FinishPage ==
    /\ pc = "hydrate" /\ at > Len(listing)
    /\ Finish("none")
    /\ UNCHANGED <<token, mail, session, wanted, listing, at, page, content>>

\* An entry no request can be made for.
RefuseEntry ==
    /\ pc = "hydrate" /\ at <= Len(listing)
    /\ \/ ~IsIdentifier(listing[at].id) \/ ~IsIdentifier(listing[at].thread)
       \/ IsIdentifier(listing[at].id) /\ ~MessageRequest(listing[at].id)
    /\ Finish("InvalidResponse")
    /\ UNCHANGED <<token, mail, session, wanted, listing, at, page, content>>

Requested ==
    /\ pc = "hydrate" /\ at <= Len(listing)
    /\ IsIdentifier(listing[at].id) /\ IsIdentifier(listing[at].thread)
    /\ MessageRequest(listing[at].id)

\* (mutant of Skips: whatever fails is left out)
SkipsErrors(e) == e # "none"

\* Only a message that was deleted since it was listed is left out.
Skips(e) == e = "NotFound"

Fitting(m, listed) == EnvelopeFrom(m, listed.id) /\ m.thread = listed.thread

Hydrate ==
    /\ Requested
    /\ \E e \in EndsFor(listing[at].id, JSON_LIMIT) :
          CASE e = "none" ->
                 \E m \in Metadata :
                    IF Fitting(m, listing[at])
                    THEN /\ page' = Append(page, [id |-> m.id, thread |-> m.thread])
                         /\ at' = at + 1
                         /\ UNCHANGED <<pc, error>>
                    ELSE Finish("InvalidResponse") /\ UNCHANGED <<page, at>>
            [] Skips(e) -> at' = at + 1 /\ UNCHANGED <<page, pc, error>>
            [] OTHER -> Finish(e) /\ UNCHANGED <<page, at>>
    /\ UNCHANGED <<token, mail, session, wanted, listing, content>>

-----------------------------------------------------------------------------
(* fetch_message.                                                           *)

StartFetch(slot, id) ==
    /\ pc = "idle" /\ session # None
    /\ wanted' = id
    /\ IF ~CheckedAccount(slot) THEN Finish("AuthorizationRequired")
       ELSE IF ~MessageRequest(id) THEN Finish("InvalidResponse")
       ELSE pc' = "metadata" /\ error' = "none"
    /\ listing' = <<>> /\ at' = 0 /\ page' = <<>> /\ content' = None
    /\ UNCHANGED <<token, mail, session>>

ReceiveMetadata ==
    /\ pc = "metadata"
    /\ \E e \in EndsFor(wanted, JSON_LIMIT), m \in Metadata :
          IF e = "none" /\ EnvelopeFrom(m, wanted)
          THEN /\ page' = <<[id |-> m.id, thread |-> m.thread]>>
               /\ pc' = "raw"
               /\ UNCHANGED error
          ELSE /\ Finish(IF e = "none" THEN "InvalidResponse" ELSE e)
               /\ UNCHANGED page
    /\ UNCHANGED <<token, mail, session, wanted, listing, at, content>>

Raws == [id : Ids, thread : Threads, length : {1, MaxContent, MaxContent + 1}, decodes : BOOLEAN]

\* decode_raw_with_limit, and the limit of the content itself.
DecodeRaw(c) == c.decodes /\ c.length <= MaxContent

Matches(c) == c.id = wanted /\ c.thread = page[1].thread

ReceiveRaw ==
    /\ pc = "raw"
    /\ \E e \in EndsFor(wanted, RAW_JSON_LIMIT), c \in Raws :
          IF e = "none" /\ Matches(c) /\ DecodeRaw(c)
          THEN Finish("none") /\ content' = [id |-> c.id, thread |-> c.thread]
          ELSE Finish(IF e = "none" THEN "InvalidResponse" ELSE e) /\ UNCHANGED content
    /\ UNCHANGED <<token, mail, session, wanted, listing, at, page>>

-----------------------------------------------------------------------------
(* The session, its caller, and the mailbox.                                *)

\* A call of the broker: to complete a sign-in, which names no subject; to
\* refresh or to revoke what is stored under one.
Ask(request, subject, owner) ==
    /\ session = None /\ asked = None
    /\ IF request = "exchange" THEN subject = None ELSE subject # None /\ owner # None
    /\ asked' = request /\ requested' = subject /\ held' = owner
    /\ UNCHANGED <<again, answer, times, ended, storeFault, mail, session, call>>

\* A call that ends before Google is asked: its callback is refused, or nothing
\* is stored, or the store fails.
EndUnasked(request, subject, owner, e, fault) ==
    /\ session = None /\ asked = None
    /\ asked' = request /\ held' = owner
    /\ LET snapshot == IF owner = None THEN "none" ELSE "old"
       IN  IF request = "exchange"
           THEN /\ requested' = None /\ storeFault' = "none"
                /\ ended' = Ended(MapOAuthError(e), snapshot, FALSE)
           ELSE /\ owner = None \/ fault = "load"
                /\ requested' = subject /\ storeFault' = fault
                /\ ended' = Unasked(request, snapshot, fault)
    /\ UNCHANGED <<again, answer, times, mail, session, call>>

ReceiveAnswer(a) ==
    /\ asked # None /\ answer = None /\ ended = None
    /\ answer' = a
    /\ UNCHANGED <<asked, again, requested, held, times, ended, storeFault, mail, session, call>>

\* The broker has an identity to look at its wall clock for.
NeedsClock ==
    /\ answer # None
    /\ \/ asked = "exchange" /\ ExchangeOutcome(answer) = "Granted"
          /\ ValidSubject(TokenSuccess(answer).subject)
       \/ asked = "refresh" /\ RefreshOutcome(answer) = "Granted"
          /\ SameAccount(TokenSuccess(answer), requested)

ReadClock(now, issued, expires) ==
    /\ NeedsClock /\ times = None
    /\ times' = [now |-> now, issued |-> issued, expires |-> expires]
    /\ UNCHANGED <<asked, again, requested, held, answer, ended, storeFault, mail, session, call>>

\* A revocation that was not confirmed is asked for once more.
AskAgain ==
    /\ asked = "revoke" /\ answer # None /\ ended = None /\ ~again /\ ~Confirms(answer)
    /\ again' = TRUE /\ answer' = None
    /\ UNCHANGED <<asked, requested, held, times, ended, storeFault, mail, session, call>>

\* A sign-in reads and writes the store after the answer, a refresh only writes
\* it, a revocation does neither.
FaultsAfter(request) ==
    {fault \in StoreFaults : /\ fault = "load" => request = "exchange"
                             /\ fault = "write" => request # "revoke"}

Conclude(fault) ==
    /\ answer # None /\ ended = None
    /\ fault \in FaultsAfter(asked)
    /\ storeFault' = fault
    /\ NeedsClock => times # None
    /\ asked = "revoke" => Confirms(answer) \/ again
    /\ ended' = CASE asked = "exchange" ->
                       Complete(answer, times, IF held = None THEN "none" ELSE "old", fault)
                  [] asked = "refresh" -> Refresh(answer, times, requested, fault)
                  [] asked = "revoke" -> Revoke(answer)
    /\ UNCHANGED <<asked, again, requested, held, answer, times, mail, session, call>>

EndCall ==
    /\ asked' = None /\ again' = FALSE /\ requested' = None /\ held' = None
    /\ answer' = None /\ times' = None /\ ended' = None /\ storeFault' = "none"

\* GmailSession::new, with the token of a refresh.
OpenSession(slot, m) ==
    /\ ended # None /\ asked = "refresh" /\ ended.result = "ok" /\ Opens(TokenSuccess(answer))
    /\ session' = [slot |-> slot, owner |-> answer.owner,
                   subject |-> TokenSuccess(answer).subject]
    /\ mail' = m
    /\ EndCall
    /\ UNCHANGED call

Dismiss ==
    /\ ended # None
    /\ EndCall
    /\ UNCHANGED <<mail, session, call>>

Return ==
    /\ pc = "done"
    /\ pc' = "idle" /\ wanted' = None /\ listing' = <<>> /\ at' = 0 /\ page' = <<>>
    /\ content' = None /\ error' = "none"
    /\ UNCHANGED <<token, mail, session>>

Delete(id) ==
    /\ mail[id] # None
    /\ mail' = [mail EXCEPT ![id] = None]
    /\ UNCHANGED <<token, session, call>>

\* Every request is answered, or times out after REQUEST_TIMEOUT_SECS.
Answer ==
    ReceiveList \/ FinishPage \/ RefuseEntry \/ Hydrate \/ ReceiveMetadata \/ ReceiveRaw

Next ==
    \/ \E request \in Requests, subject, owner \in Subjects \cup {None} :
          \/ Ask(request, subject, owner)
          \/ \E e \in OAuthError, fault \in StoreFaults :
                EndUnasked(request, subject, owner, e, fault)
    \/ asked # None /\ answer = None /\ ended = None /\ \E a \in AnswersTo(asked, held) : ReceiveAnswer(a)
    \/ \E now, issued, expires \in 0..MaxSecond : ReadClock(now, issued, expires)
    \/ AskAgain
    \/ \E fault \in StoreFaults : Conclude(fault)
    \/ \E slot \in Slots, m \in [Ids -> Threads \cup {None}] : OpenSession(slot, m)
    \/ Dismiss
    \/ \E slot \in Slots : (\E n \in 1..MaxPage : StartList(slot, n))
                           \/ (\E id \in Ids : StartFetch(slot, id))
    \/ Answer \/ Return
    \/ \E id \in Ids : Delete(id)

Spec == Init /\ [][Next]_vars

-----------------------------------------------------------------------------
(* Properties.                                                              *)

\* What an error says of the stored credential is so (error.rs): it is deleted
\* when, and only when, ConsentRevoked is told, and that only after Google
\* answered a refresh with invalid_grant; the person is told that the access
\* was revoked after a refresh only if nothing is stored any more; a sign-in
\* that reports success has what it was given stored; and once Google rotated
\* the credential in an under-scoped answer, or in one whose identity is the one
\* asked for, only a failing write keeps the rotation from being stored. (An
\* answer that the token layer cannot take, with an empty access token or a
\* lifetime beyond the clock, is dropped with all it holds.)
ErrorsSayWhatIsStored ==
    ended # None =>
        /\ held # None =>
             (ended.stored = "none" <=> ended.result = "ConsentRevoked")
        /\ asked = "refresh" /\ Told(ended.result) = "revoked" => ended.stored = "none"
        /\ ended.result = "ConsentRevoked" =>
             /\ asked = "refresh"
             /\ answer.status \in {400, 500} /\ answer.fits /\ answer.parses
             /\ answer.error = "invalid_grant"
        /\ asked = "exchange" => (ended.result = "ok" <=> ended.stored = "new")
        /\ asked = "refresh" /\ answer # None /\ storeFault # "write" =>
             \/ answer.status # 200 \/ ~answer.fits \/ ~answer.parses
             \/ answer.refresh # "usable" \/ answer.access = "empty"
             \/ ended.stored = "new"
             \/ answer.scope # "other" /\ times = None

\* Google granted what was asked for, to this client, for an account that
\* credentials can be stored under: the answer says so, in a form that is read.
GrantedToKnown(a) ==
    /\ a.status = 200 /\ a.fits /\ a.parses
    /\ a.access # "empty" /\ a.lifetime # "overflows" /\ a.scope # "other"
    /\ a.id_token \notin {None, Malformed}
    /\ a.id_token.issuer \in GOOGLE_ISSUERS /\ a.id_token.party = ThisClient
    /\ a.id_token.subject \in Subjects

\* A sign-in that fails has the grant revoked exactly when it knows that nobody
\* needs it: Google granted it to a known account, the store could be read and
\* had nothing for that account, and there is a token to revoke it with. So it
\* does whether the clock, the access token, the refresh token or the write of
\* the store fails. It never revokes over a stored credential or one it could
\* not look for; and an under-scoped or unverified grant is left to the person,
\* as complete_authorization documents.
StrandedIsRevoked ==
    ended # None /\ asked = "exchange" =>
        /\ ended.revokes => held = None
        /\ ended.result # "ok" =>
             (ended.revokes <=>
                /\ answer # None /\ GrantedToKnown(answer)
                /\ held = None /\ storeFault # "load"
                /\ answer.refresh = "usable" \/ answer.access # "oversized")

\* An identity is accepted between its two times widened by the skew, as if
\* seconds had no largest; only in the last second nothing is accepted.
FreshnessExact ==
    times # None =>
        (IsFresh(times.now, times.issued, times.expires) <=>
            /\ times.now < MaxSecond
            /\ times.now < times.expires + Skew
            /\ times.issued - Skew <= times.now)

\* The identity that the gate is given is of the mailbox that is read: both
\* come from one answer, and no id_token minted for another client passes. What
\* a sign-in stores, and what a refresh stores or hands out, is a credential of
\* the account it is filed under, or asked for; only an under-scoped refresh,
\* which carries no identity, leaves the credential with the account that the
\* one it replaces was of.
SubjectIsOwner ==
    /\ session # None => session.subject = session.owner
    /\ ended # None /\ asked # "revoke" /\ (ended.stored = "new" \/ ended.result = "ok") =>
         \/ answer.owner = IF asked = "refresh" THEN requested ELSE TokenSuccess(answer).subject
         \/ /\ asked = "refresh" /\ ended.result = "InsufficientScope"
            /\ answer.scope = "other" /\ answer.owner = held

\* A page is what was listed, in that order and in those threads, and
\* lacks the messages that were deleted meanwhile and no other.
PageComplete ==
    pc = "done" /\ error = "none" /\ wanted \in 1..MaxPage =>
        /\ Len(page) <= wanted
        /\ \E place \in [DOMAIN page -> DOMAIN listing] :
              /\ \A i, j \in DOMAIN page : i < j => place[i] < place[j]
              /\ \A i \in DOMAIN page : page[i] = listing[place[i]]
              /\ \A k \in DOMAIN listing : k \in {place[i] : i \in DOMAIN page}
                                           \/ mail[listing[k].id] = None

\* A message that is returned is the one that was asked for, with an envelope
\* and a content that are of each other; one reported missing is gone.
MessageWhole ==
    pc = "done" /\ wanted \in Ids =>
        /\ error = "none" => /\ page[1].id = wanted
                             /\ content = page[1]
        /\ error = "NotFound" => mail[wanted] = None

\* What Gmail deletes, truncates or answers wrongly between two requests of a
\* call never shows as a result that is less, or other, than what was asked.
ResultsAreWhole == PageComplete /\ MessageWhole
=============================================================================

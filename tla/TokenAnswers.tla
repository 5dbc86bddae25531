---------------------------- MODULE TokenAnswers ----------------------------
(***************************************************************************)
(* What the program makes of an answer of Google's token and revocation    *)
(* endpoints: the parsing transport (adapters/gmail-rest), the state       *)
(* machine over parsed responses and the validation of the identity        *)
(* (crates/application/src/token.rs), and the session built from both      *)
(* (adapters/sync-runtime/src/session.rs).                                 *)
(*                                                                         *)
(* Texts are told apart as far as the validations do. An answer also       *)
(* carries what the program cannot see: the account its access token is    *)
(* of, and the client its id_token was minted for.                         *)
(***************************************************************************)
EXTENDS Integers, Sequences

CONSTANTS
    ThisClient, OtherClient,   \* OAuth clients; the first is config.client_id
    Subjects,                  \* subjects of Google accounts
    None,                      \* an absent claim, token or identity
    Malformed,                 \* an id_token that does not decode
    Skew,                      \* IDENTITY_FRESHNESS_SKEW_SECS
    MaxSecond                  \* u64::MAX

Clients == {ThisClient, OtherClient}

\* A subject as it is when trimmed; "spaced" is one with a space inside, or
\* beyond ASCII.
Texts == Subjects \cup {"blank", "oversized", "spaced"}

Requests == {"exchange", "refresh", "revoke"}

ASSUME NoneAssumption == None \notin Texts \cup Clients \cup Requests
ASSUME SubjectAssumption == Subjects \cap {"blank", "oversized", "spaced"} = {}
ASSUME ClockAssumption == Skew \in Nat /\ MaxSecond \in Nat

GOOGLE_ISSUERS == {"accounts.google.com", "https://accounts.google.com"}
Issuers == GOOGLE_ISSUERS \cup {"another"}

IdTokenClaims ==
    [subject : Texts, audiences : UNION {[1..n -> Clients] : n \in 0..2},
     issuer : Issuers, authorized_party : Clients \cup {None}, party : Clients]

-----------------------------------------------------------------------------
(* Google. An id_token it issued names the client it was minted for as its *)
(* audience, and as its authorized party if there are more; only one that  *)
(* was minted for this client is of the access token it came with.         *)

Minted(c) ==
    /\ \E i \in DOMAIN c.audiences : c.audiences[i] = c.party
    /\ c.authorized_party \in {None, c.party}
    /\ Len(c.audiences) > 1 => c.authorized_party = c.party

Truthful(c, owner) ==
    c.issuer \in GOOGLE_ISSUERS =>
        Minted(c) /\ (c.party = ThisClient /\ c.subject \in Subjects => c.subject = owner)

Refusals ==
    [status : {400, 500}, fits : BOOLEAN, parses : BOOLEAN,
     error : {"invalid_grant", "invalid_token", "another"}]

Identity(owner) ==
    [subject |-> owner, audiences |-> <<ThisClient>>,
     issuer |-> "https://accounts.google.com", authorized_party |-> None, party |-> ThisClient]

\* Everything an answer may be like with few identities, and every identity
\* with one kind of answer. An access token is "oversized" for the broker; a
\* lifetime is of no use to it, or overflows the clock.
PlainAnswers ==
    [status : {200}, access : {"empty", "usable", "control", "oversized"},
     lifetime : {"usable", "unusable", "overflows"},
     refresh : {"absent", "usable", "malformed"}, scope : {"absent", "mail", "other"}]

GoodAnswer == [status |-> 200, access |-> "usable", lifetime |-> "usable",
               refresh |-> "absent", scope |-> "mail"]

WholeAnswer(p, fits, parses, owner, id) ==
    [status |-> 200, access |-> p.access, lifetime |-> p.lifetime, refresh |-> p.refresh,
     scope |-> p.scope, fits |-> fits, parses |-> parses, owner |-> owner, id_token |-> id]

SuccessesFor(owner) ==
    (UNION {{WholeAnswer(p, TRUE, TRUE, owner, id) : p \in PlainAnswers}
            : id \in {None, Malformed, Identity(owner)}})
    \cup {WholeAnswer(GoodAnswer, fits, FALSE, owner, None) : fits \in BOOLEAN}
    \cup {WholeAnswer(GoodAnswer, TRUE, TRUE, owner, id) :
             id \in {c \in IdTokenClaims : Truthful(c, owner)}}

Successes == UNION {SuccessesFor(owner) : owner \in Subjects}

\* No answer at all.
Silence == [status |-> 0]

\* What a request may be answered; a refresh is of the account `owner`.
AnswersTo(request, owner) ==
    {Silence} \cup Refusals \cup
        CASE request = "exchange" -> Successes
          [] request = "refresh" -> {a \in Successes : a.owner = owner}
          [] request = "revoke" -> [status : {200}, fits : BOOLEAN]

-----------------------------------------------------------------------------
(* adapters/gmail-rest: from bytes to a parsed response, or an error.      *)

\* Only an explicit list without the scope withholds it.
GmailReadGranted(a) == a.scope # "other"

\* The id_token of an under-scoped answer is not looked at.
ParsesIdentity(a) == GmailReadGranted(a) => a.id_token # Malformed

\* "none", or the error parse_token_response ends with.
ParseError(a) == IF a.parses /\ ParsesIdentity(a) THEN "none" ELSE "MalformedResponse"

MapErrorResponse(a) ==
    CASE ~a.parses -> "MalformedResponse"
      [] a.parses /\ a.error = "invalid_grant" -> "InvalidGrant"
      [] OTHER -> "ProviderRejected"

MapRevokeErrorResponse(a) ==
    IF a.parses /\ a.error = "invalid_token" THEN "InvalidToken" ELSE MapErrorResponse(a)

\* Every body is read, and none beyond its limit.
Posted(a, success, refusal) ==
    CASE a.status = 0 -> "Transport"
      [] a.status # 0 /\ ~a.fits -> "MalformedResponse"
      [] a.status = 200 /\ a.fits -> success
      [] OTHER -> refusal

PostToken(a) ==
    Posted(a, IF a.status = 200 THEN ParseError(a) ELSE "none",
              IF a.status \in {400, 500} THEN MapErrorResponse(a) ELSE "none")

\* "none" is a confirmation; so is "InvalidToken".
RevokeError(a) ==
    Posted(a, "none", IF a.status \in {400, 500} THEN MapRevokeErrorResponse(a) ELSE "none")

-----------------------------------------------------------------------------
(* token.rs: from a parsed response to an outcome.                          *)

MapTransportError(e) ==
    CASE e = "InvalidGrant" -> "ConsentRevoked"
      [] e = "InvalidToken" -> "ProviderRejected"
      [] OTHER -> e

MapExchangeTransportError(e) ==
    IF e = "InvalidGrant" THEN "AuthorizationCodeRejected" ELSE MapTransportError(e)

\* One audience, this client; or among others, with azp naming it.
MintedForThisClient(c) ==
    \/ c.audiences = <<ThisClient>>
    \/ /\ \E i \in DOMAIN c.audiences : c.audiences[i] = ThisClient
       /\ c.authorized_party = ThisClient

\* The trimmed subject; None if it is not verified.
ValidateAccountSubject(id) ==
    IF /\ id # None
       /\ MintedForThisClient(id)
       /\ id.issuer \in GOOGLE_ISSUERS
       /\ id.subject \notin {"blank", "oversized"}
    THEN id.subject ELSE None

\* "Granted", "InsufficientScope", or the error of a parsed response.
ScopeOutcome(a) ==
    CASE a.access = "empty" -> "MalformedResponse"
      [] a.access # "empty" /\ ~GmailReadGranted(a) -> "InsufficientScope"
      [] a.access # "empty" /\ GmailReadGranted(a) /\ a.lifetime = "overflows" -> "MalformedResponse"
      [] OTHER -> IF ValidateAccountSubject(a.id_token) = None
                  THEN "IdentityUnverified" ELSE "Granted"

\* What an answer that grants is to its caller.
TokenSuccess(a) ==
    [access |-> a.access, lifetime |-> a.lifetime, refresh |-> a.refresh,
     subject |-> ValidateAccountSubject(a.id_token)]

Outcome(a, mapped) == IF PostToken(a) = "none" THEN ScopeOutcome(a) ELSE mapped

\* exchange_grant_with_scope_outcome, and refresh_access_token_with_scope_outcome.
ExchangeOutcome(a) == Outcome(a, MapExchangeTransportError(PostToken(a)))
RefreshOutcome(a) == Outcome(a, MapTransportError(PostToken(a)))

SaturatingAdd(a, b) == IF a + b > MaxSecond THEN MaxSecond ELSE a + b

\* validate_fresh, of an identity issued and expiring at given seconds.
IsFresh(now, issued, expires) ==
    /\ now < SaturatingAdd(expires, Skew)
    /\ issued <= SaturatingAdd(now, Skew)

-----------------------------------------------------------------------------
(* session.rs: the subject and the access token are checked once more.     *)

FromBrokerValidated(subject) == subject \notin {None, "blank", "oversized", "spaced"}

ValidateAccessToken(text) == text \in {"usable", "oversized"}

Opens(success) == FromBrokerValidated(success.subject) /\ ValidateAccessToken(success.access)
=============================================================================

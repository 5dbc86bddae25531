-------------------------- MODULE GmailRestProofs --------------------------
(***************************************************************************)
(* Proofs about GmailRest, for any accounts, clock and answers: what a     *)
(* broker call leaves stored and says of it, that a session is of the      *)
(* account of its token, that saturation spoils no freshness; and, for any *)
(* mailbox and page size, that what a call returns is whole.               *)
(***************************************************************************)
EXTENDS GmailRest, TLAPS

\* One request at a time; an answer is one to it; the clock is looked at only
\* for an identity, and only by a call that goes on.
Proceeds ==
    /\ asked = None => answer = None /\ times = None /\ ended = None
    /\ answer # None => answer \in AnswersTo(asked, held)
    /\ times # None =>
         /\ NeedsClock
         /\ times \in [now : 0..MaxSecond, issued : 0..MaxSecond, expires : 0..MaxSecond]

\* How a call that was answered may have ended, and one that was not.
Settled ==
    ended # None =>
        \/ /\ answer # None
           /\ NeedsClock => times # None
           /\ ended = CASE asked = "exchange" ->
                             Complete(answer, times, IF held = None THEN "none" ELSE "old", storeFault)
                        [] asked = "refresh" -> Refresh(answer, times, requested, storeFault)
                        [] asked = "revoke" -> Revoke(answer)
        \/ /\ answer = None /\ times = None
           /\ LET snapshot == IF held = None THEN "none" ELSE "old"
              IN  \/ /\ asked = "exchange"
                     /\ \E e \in OAuthError : ended = Ended(MapOAuthError(e), snapshot, FALSE)
                  \/ /\ asked # "exchange"
                     /\ \E fault \in StoreFaults :
                          /\ held = None \/ fault = "load"
                          /\ ended = Unasked(asked, snapshot, fault)

IInv ==
    /\ asked \in Requests \cup {None}
    /\ storeFault \in StoreFaults
    /\ Proceeds /\ Settled
    /\ session # None => session.subject = session.owner

-----------------------------------------------------------------------------
(* Answers.                                                                 *)

LEMMA SuccessFacts ==
    ASSUME NEW a \in Successes
    PROVE  /\ a.status = 200 /\ a.owner \in Subjects
           /\ a.access \in {"empty", "usable", "control", "oversized"}
           /\ a.lifetime \in {"usable", "unusable", "overflows"}
           /\ a.refresh \in {"absent", "usable", "malformed"}
           /\ a.scope \in {"absent", "mail", "other"}
           /\ a.id_token \in {None, Malformed, Identity(a.owner)}
                            \cup {c \in IdTokenClaims : Truthful(c, a.owner)}
<1>1. PICK owner \in Subjects : a \in SuccessesFor(owner)
  BY DEF Successes
<1>2. CASE \E p \in PlainAnswers, id \in {None, Malformed, Identity(owner)} :
               a = WholeAnswer(p, TRUE, TRUE, owner, id)
  <2>1. PICK p \in PlainAnswers, id \in {None, Malformed, Identity(owner)} :
               a = WholeAnswer(p, TRUE, TRUE, owner, id)
    BY <1>2
  <2>2. /\ p.access \in {"empty", "usable", "control", "oversized"}
        /\ p.lifetime \in {"usable", "unusable", "overflows"}
        /\ p.refresh \in {"absent", "usable", "malformed"}
        /\ p.scope \in {"absent", "mail", "other"}
    BY DEF PlainAnswers
  <2>3. /\ a.status = 200 /\ a.owner = owner /\ a.access = p.access
        /\ a.lifetime = p.lifetime /\ a.refresh = p.refresh /\ a.scope = p.scope
        /\ a.id_token = id
    BY <2>1 DEF WholeAnswer
  <2> QED
    BY <2>2, <2>3
<1>3. CASE \E fits \in BOOLEAN : a = WholeAnswer(GoodAnswer, fits, FALSE, owner, None)
  BY <1>3 DEF GoodAnswer, WholeAnswer
<1>4. CASE \E id \in {c \in IdTokenClaims : Truthful(c, owner)} :
               a = WholeAnswer(GoodAnswer, TRUE, TRUE, owner, id)
  BY <1>4 DEF GoodAnswer, WholeAnswer
<1>5. \/ a \in UNION {{WholeAnswer(p, TRUE, TRUE, owner, id) : p \in PlainAnswers}
                     : id \in {None, Malformed, Identity(owner)}}
      \/ a \in {WholeAnswer(GoodAnswer, fits, FALSE, owner, None) : fits \in BOOLEAN}
      \/ a \in {WholeAnswer(GoodAnswer, TRUE, TRUE, owner, id) :
                id \in {c \in IdTokenClaims : Truthful(c, owner)}}
  BY <1>1, Zenon DEF SuccessesFor
<1>6. \/ \E p \in PlainAnswers, id \in {None, Malformed, Identity(owner)} :
            a = WholeAnswer(p, TRUE, TRUE, owner, id)
      \/ \E fits \in BOOLEAN : a = WholeAnswer(GoodAnswer, fits, FALSE, owner, None)
      \/ \E id \in {c \in IdTokenClaims : Truthful(c, owner)} :
            a = WholeAnswer(GoodAnswer, TRUE, TRUE, owner, id)
  BY <1>5, Zenon
<1> QED
  BY <1>2, <1>3, <1>4, <1>6, Zenon

LEMMA AnswerFacts ==
    ASSUME NEW owner, NEW request \in Requests, NEW a \in AnswersTo(request, owner)
    PROVE  /\ a.status \in {0, 200, 400, 500}
           /\ a.status = 200 /\ request # "revoke" =>
                /\ a \in Successes
                /\ request = "refresh" => a.owner = owner
<1>1. CASE a = Silence
  BY <1>1 DEF Silence
<1>2. CASE a \in Refusals
  BY <1>2 DEF Refusals
<1>3. CASE a \in Successes
  <2>1. a.status = 200
    BY <1>3, SuccessFacts
  <2>2. a # Silence /\ a \notin Refusals
    BY <2>1 DEF Silence, Refusals
  <2> QED
    BY <1>3, <2>1, <2>2 DEF AnswersTo, Requests
<1>4. CASE request = "revoke" /\ a \in [status : {200}, fits : BOOLEAN]
  BY <1>4
<1> QED
  BY <1>1, <1>2, <1>3, <1>4 DEF AnswersTo, Requests

\* An identity that is accepted is of the account of the access token.
LEMMA GrantIsOwner ==
    ASSUME NEW a \in Successes, ScopeOutcome(a) = "Granted", ParseError(a) = "none",
           TokenSuccess(a).subject \in Subjects \/ ValidSubject(TokenSuccess(a).subject)
    PROVE  TokenSuccess(a).subject = a.owner
<1>1. /\ ValidateAccountSubject(a.id_token) # None
      /\ a.id_token # Malformed
      /\ TokenSuccess(a).subject = ValidateAccountSubject(a.id_token)
  BY DEF ScopeOutcome, ParseError, ParsesIdentity, TokenSuccess
<1>2. /\ a.id_token # None /\ MintedForThisClient(a.id_token)
      /\ a.id_token.issuer \in GOOGLE_ISSUERS
      /\ TokenSuccess(a).subject = a.id_token.subject
  BY <1>1 DEF ValidateAccountSubject
<1>3. CASE a.id_token = Identity(a.owner)
  BY <1>2, <1>3 DEF Identity
<1>4. ASSUME NEW c \in IdTokenClaims, c = a.id_token, Truthful(c, a.owner)
      PROVE  c.subject = a.owner
  <2>1. Minted(c) /\ (c.party = ThisClient /\ c.subject \in Subjects => c.subject = a.owner)
    BY <1>2, <1>4 DEF Truthful
  <2>2. c.party = ThisClient
    <3>1. CASE c.audiences = <<ThisClient>>
      BY <2>1, <3>1 DEF Minted
    <3>2. CASE c.authorized_party = ThisClient
      BY <2>1, <3>2, NoneAssumption DEF Minted, Clients
    <3> QED
      BY <1>2, <1>4, <3>1, <3>2 DEF MintedForThisClient
  <2>3. c.subject \in Subjects
    BY <1>2, <1>4 DEF IdTokenClaims, Texts, ValidSubject
  <2> QED
    BY <2>1, <2>2, <2>3
<1> QED
  BY <1>1, <1>2, <1>3, <1>4, SuccessFacts

\* What parsing and the state machine may end with, and after which answers.
LEMMA OutcomeFacts ==
    ASSUME NEW a, a.status \in {0, 200, 400, 500}
    PROVE  /\ PostToken(a) \in {"none", "Transport", "MalformedResponse", "InvalidGrant",
                               "ProviderRejected"}
           /\ PostToken(a) = "none" => a.status = 200 /\ a.fits /\ ParseError(a) = "none"
           /\ PostToken(a) = "InvalidGrant" =>
                /\ a.status \in {400, 500} /\ a.fits /\ a.parses
                /\ a.error = "invalid_grant"
           /\ a.status = 200 /\ a.fits /\ ParseError(a) = "none" => PostToken(a) = "none"
           /\ ScopeOutcome(a) \in {"MalformedResponse", "InsufficientScope",
                                  "IdentityUnverified", "Granted"}
  BY DEF PostToken, Posted, ParseError, MapErrorResponse, ScopeOutcome

LEMMA ExchangeOutcomes ==
    ASSUME NEW a, a.status \in {0, 200, 400, 500}
    PROVE  /\ ExchangeOutcome(a) \in
                {"Transport", "MalformedResponse", "AuthorizationCodeRejected",
                 "ProviderRejected", "InsufficientScope", "IdentityUnverified", "Granted"}
           /\ ExchangeOutcome(a) = "Granted" =>
                a.status = 200 /\ ParseError(a) = "none" /\ ScopeOutcome(a) = "Granted"
  BY OutcomeFacts DEF ExchangeOutcome, Outcome, MapExchangeTransportError, MapTransportError

LEMMA RefreshOutcomes ==
    ASSUME NEW a, a.status \in {0, 200, 400, 500}
    PROVE  /\ RefreshOutcome(a) \in
                {"Transport", "MalformedResponse", "ConsentRevoked",
                 "ProviderRejected", "InsufficientScope", "IdentityUnverified", "Granted"}
           /\ RefreshOutcome(a) \in {"Granted", "InsufficientScope"} =>
                a.status = 200 /\ ParseError(a) = "none" /\ ScopeOutcome(a) = RefreshOutcome(a)
           /\ RefreshOutcome(a) = "ConsentRevoked" =>
                /\ a.status \in {400, 500} /\ a.fits /\ a.parses
                /\ a.error = "invalid_grant"
           /\ a.status = 200 /\ a.fits /\ ParseError(a) = "none" =>
                RefreshOutcome(a) = ScopeOutcome(a)
  BY OutcomeFacts DEF RefreshOutcome, Outcome, MapTransportError

LEMMA UnderScoped ==
    ASSUME NEW a, a.status \in {0, 200, 400, 500}
    PROVE  a.status = 200 /\ a.fits /\ a.parses /\ a.access # "empty" /\ a.scope = "other"
              => RefreshOutcome(a) = "InsufficientScope"
<1>1. a.parses /\ a.access # "empty" /\ a.scope = "other" =>
        ParseError(a) = "none" /\ ScopeOutcome(a) = "InsufficientScope"
  BY DEF ParseError, ParsesIdentity, GmailReadGranted, ScopeOutcome
<1> QED
  BY <1>1, RefreshOutcomes

\* An exchange is granted for a subject that is a key of the store exactly
\* after an answer by which Google granted it to a known account.
LEMMA KnownGrants ==
    ASSUME NEW a, a.status \in {0, 200, 400, 500}, a.status = 200 => a \in Successes
    PROVE  ExchangeOutcome(a) = "Granted" /\ ValidSubject(TokenSuccess(a).subject)
              <=> GrantedToKnown(a)
<1>1. CASE a.status # 200
  BY <1>1, ExchangeOutcomes DEF GrantedToKnown
<1>2. ASSUME a.status = 200
      PROVE  ExchangeOutcome(a) = "Granted"
                <=> a.fits /\ ParseError(a) = "none" /\ ScopeOutcome(a) = "Granted"
  BY <1>2, OutcomeFacts DEF ExchangeOutcome, Outcome, MapExchangeTransportError, MapTransportError,
     PostToken, Posted
<1>3. ParseError(a) = "none" /\ ScopeOutcome(a) = "Granted" <=>
        /\ a.parses /\ a.access # "empty" /\ a.lifetime # "overflows" /\ a.scope # "other"
        /\ a.id_token # Malformed /\ ValidateAccountSubject(a.id_token) # None
  BY DEF ParseError, ParsesIdentity, GmailReadGranted, ScopeOutcome
<1>4. ASSUME NEW c \in IdTokenClaims, Truthful(c, a.owner), c.issuer \in GOOGLE_ISSUERS
      PROVE  MintedForThisClient(c) <=> c.party = ThisClient
  <2>1. Minted(c) /\ c.audiences \in UNION {[1..n -> Clients] : n \in 0..2}
    BY <1>4 DEF Truthful, IdTokenClaims
  <2>2. MintedForThisClient(c) => c.party = ThisClient
    <3>1. CASE c.audiences = <<ThisClient>>
      BY <2>1, <3>1 DEF Minted
    <3>2. CASE c.authorized_party = ThisClient
      BY <2>1, <3>2, NoneAssumption DEF Minted, Clients
    <3> QED
      BY <3>1, <3>2 DEF MintedForThisClient
  <2>3. ASSUME c.party = ThisClient
        PROVE  MintedForThisClient(c)
    <3>1. PICK n \in 0..2 : c.audiences \in [1..n -> Clients]
      BY <2>1
    <3>2. \E i \in DOMAIN c.audiences : c.audiences[i] = ThisClient
      BY <2>1, <2>3 DEF Minted
    <3>3. CASE n = 1
      BY <3>1, <3>2, <3>3 DEF MintedForThisClient
    <3>4. CASE n = 2
      <4>1. Len(c.audiences) = 2
        BY <3>1, <3>4
      <4> QED
        BY <2>1, <2>3, <3>2, <4>1 DEF Minted, MintedForThisClient
    <3> QED
      BY <3>1, <3>2, <3>3, <3>4
  <2> QED
    BY <2>2, <2>3
<1>5. ASSUME a.status = 200, a.id_token \notin {None, Malformed}
      PROVE  ValidateAccountSubject(a.id_token) # None /\ ValidSubject(ValidateAccountSubject(a.id_token))
                <=> /\ a.id_token.issuer \in GOOGLE_ISSUERS /\ a.id_token.party = ThisClient
                    /\ a.id_token.subject \in Subjects
  <2>1. a \in Successes
    BY <1>5
  <2>2. a.id_token.issuer \in GOOGLE_ISSUERS =>
           (MintedForThisClient(a.id_token) <=> a.id_token.party = ThisClient)
    <3>1. CASE a.id_token = Identity(a.owner)
      BY <3>1 DEF Identity, MintedForThisClient
    <3> QED
      BY <1>4, <1>5, <2>1, <3>1, SuccessFacts
  <2>3. a.id_token.subject \in Texts
    <3>1. CASE a.id_token = Identity(a.owner)
      BY <2>1, <3>1, SuccessFacts DEF Identity, Texts
    <3> QED
      BY <1>5, <2>1, <3>1, SuccessFacts DEF IdTokenClaims
  <2>4. a.id_token.subject # None /\ None \notin Subjects
    BY <2>3, NoneAssumption DEF Texts
  <2>5. a.id_token.subject \in Subjects <=> a.id_token.subject \notin {"blank", "oversized", "spaced"}
    BY <2>3, SubjectAssumption DEF Texts
  <2> QED
    BY <1>5, <2>2, <2>3, <2>4, <2>5 DEF ValidateAccountSubject, ValidSubject
<1>6. a.id_token = None => ValidateAccountSubject(a.id_token) = None
  BY DEF ValidateAccountSubject
<1>7. TokenSuccess(a).subject = ValidateAccountSubject(a.id_token)
  BY DEF TokenSuccess
<1> QED
  BY <1>1, <1>2, <1>3, <1>5, <1>6, <1>7 DEF GrantedToKnown

LEMMA CompleteFacts ==
    ASSUME NEW owner, NEW a \in AnswersTo("exchange", owner), NEW t,
           NEW snapshot \in {"none", "old"}, NEW fault \in StoreFaults,
           NEW e, e = Complete(a, t, snapshot, fault)
    PROVE  /\ e.result = "ok" <=> e.stored = "new"
           /\ e.result # "ConsentRevoked" /\ e.stored \in {snapshot, "new"}
           /\ e.revokes => snapshot = "none"
           /\ e.stored = "new" => TokenSuccess(a).subject = a.owner
           /\ e.result = "ok" => ExchangeOutcome(a) = "Granted"
           /\ e.result # "ok" =>
                (e.revokes <=>
                    /\ ExchangeOutcome(a) = "Granted" /\ ValidSubject(TokenSuccess(a).subject)
                    /\ snapshot = "none" /\ fault # "load"
                    /\ a.refresh = "usable" \/ a.access # "oversized")
<1>1. a.status \in {0, 200, 400, 500} /\ (a.status = 200 => a \in Successes)
  BY AnswerFacts DEF Requests
<1>2. CASE ExchangeOutcome(a) # "Granted"
  <2>1. e = Ended(MapTokenError(ExchangeOutcome(a)), snapshot, FALSE)
    BY <1>2 DEF Complete
  <2>2. MapTokenError(ExchangeOutcome(a)) \notin {"ok", "ConsentRevoked"}
    BY <1>1, ExchangeOutcomes DEF MapTokenError, TokenError
  <2> QED
    BY <1>2, <2>1, <2>2 DEF Ended
<1>3. CASE ExchangeOutcome(a) = "Granted" /\ ~ValidSubject(TokenSuccess(a).subject)
  BY <1>3 DEF Complete, Ended
<1>4. CASE ExchangeOutcome(a) = "Granted" /\ ValidSubject(TokenSuccess(a).subject)
  <2>1. /\ TokenSuccess(a).subject = a.owner
        /\ a.refresh \in {"absent", "usable", "malformed"}
        /\ TokenSuccess(a).refresh = a.refresh /\ TokenSuccess(a).access = a.access
    <3>1. a \in Successes /\ ScopeOutcome(a) = "Granted" /\ ParseError(a) = "none"
      BY <1>1, <1>4, ExchangeOutcomes
    <3>2. TokenSuccess(a).subject = a.owner
      BY <1>4, <3>1, GrantIsOwner
    <3> QED
      BY <3>1, <3>2, SuccessFacts DEF TokenSuccess
  <2>2. \/ fault = "load" /\ e = Ended("PersistenceFailed", snapshot, FALSE)
        \/ fault # "load" /\ \E how \in {"IdentityUnverified", "MalformedResponse", "MissingRefreshToken",
                       "PersistenceFailed"} : e = Stranded(how, snapshot, TokenSuccess(a))
        \/ e = Ended("ok", "new", FALSE)
    BY <1>4 DEF Complete
  <2>3. ASSUME NEW how \in {"IdentityUnverified", "MalformedResponse", "MissingRefreshToken",
                           "PersistenceFailed"}, e = Stranded(how, snapshot, TokenSuccess(a))
        PROVE  /\ e.result = how /\ e.stored = snapshot
               /\ e.revokes => snapshot = "none"
               /\ e.revokes <=> /\ snapshot = "none"
                                /\ a.refresh = "usable" \/ a.access # "oversized"
    <3> DEFINE revokes == LicensesRevoke(snapshot) /\ RevokeHandle(TokenSuccess(a))
    <3>1. /\ revokes => snapshot = "none"
          /\ revokes <=> snapshot = "none" /\ (a.refresh = "usable" \/ a.access # "oversized")
      BY <2>1 DEF LicensesRevoke, RevokeHandle
    <3>2. e = [result |-> how, stored |-> snapshot, revokes |-> revokes]
      BY <2>3 DEF Stranded, Ended
    <3>3. e.revokes = revokes /\ e.result = how /\ e.stored = snapshot
      BY <3>2
    <3> QED
      BY <3>1, <3>3
  <2>4. CASE fault = "load" /\ e = Ended("PersistenceFailed", snapshot, FALSE)
    BY <2>1, <2>4 DEF Ended
  <2>5. CASE e = Ended("ok", "new", FALSE)
    BY <1>4, <2>1, <2>5 DEF Ended
  <2> QED
    BY <1>4, <2>1, <2>2, <2>3, <2>4, <2>5
<1> QED
  BY <1>2, <1>3, <1>4

LEMMA RefreshFacts ==
    ASSUME NEW owner, NEW a \in AnswersTo("refresh", owner), NEW t,
           NEW who, NEW fault \in StoreFaults, NEW e, e = Refresh(a, t, who, fault)
    PROVE  /\ e.stored = "none" <=> e.result = "ConsentRevoked"
           /\ e.result # "MissingRefreshToken"
           /\ e.result = "ConsentRevoked" =>
                /\ a.status \in {400, 500} /\ a.fits /\ a.parses
                /\ a.error = "invalid_grant"
           /\ ~e.revokes
           /\ e.result = "ok" => RefreshOutcome(a) = "Granted"
           /\ e.stored = "new" \/ e.result = "ok" =>
                \/ RefreshOutcome(a) = "Granted" /\ TokenSuccess(a).subject = who
                \/ /\ RefreshOutcome(a) = "InsufficientScope" /\ a.owner = owner
                   /\ e.result = "InsufficientScope"
           /\ fault # "write" =>
                \/ a.status # 200 \/ a.refresh # "usable" \/ e.stored = "new"
                \/ /\ RefreshOutcome(a) # "InsufficientScope"
                   /\ RefreshOutcome(a) = "Granted" => TokenSuccess(a).subject # who
<1>1. a.status \in {0, 200, 400, 500} /\ (a.status = 200 => a \in Successes /\ a.owner = owner)
  BY AnswerFacts DEF Requests
<1>2. CASE RefreshOutcome(a) = "ConsentRevoked"
  BY <1>1, <1>2, RefreshOutcomes DEF Refresh, Ended
<1>3. ASSUME NEW how \in {"InsufficientScope", "IdentityUnverified", "MalformedResponse", "ok"},
             RefreshOutcome(a) \in {"InsufficientScope", "Granted"},
             how = "ok" => RefreshOutcome(a) = "Granted",
             e = Retain(a, t, fault, how)
      PROVE  /\ e.stored \in {"old", "new"} /\ ~e.revokes
             /\ e.result \in {how, "MalformedResponse", "PersistenceFailed"}
             /\ e.stored = "new" => e.result = how
             /\ fault # "write" /\ a.refresh = "usable" => e.stored = "new"
             /\ a.status = 200
  BY <1>1, <1>3, RefreshOutcomes DEF Retain, Rotates, Ended
<1>4. CASE RefreshOutcome(a) = "InsufficientScope"
  <2>1. e = Retain(a, t, fault, "InsufficientScope")
    BY <1>4 DEF Refresh
  <2> QED
    BY <1>1, <1>3, <1>4, <2>1
<1>5. CASE RefreshOutcome(a) = "Granted" /\ TokenSuccess(a).subject = who
  <2>1. PICK how \in {"IdentityUnverified", "MalformedResponse", "ok"} :
          e = Retain(a, t, fault, how)
    BY <1>5 DEF Refresh, SameAccount
  <2> QED
    BY <1>1, <1>3, <1>5, <2>1
<1>6. CASE /\ RefreshOutcome(a) \notin {"ConsentRevoked", "InsufficientScope"}
           /\ RefreshOutcome(a) = "Granted" => TokenSuccess(a).subject # who
  <2>1. \/ e = Ended("IdentityMismatch", "old", FALSE)
        \/ e = Ended(MapTokenError(RefreshOutcome(a)), "old", FALSE) /\ RefreshOutcome(a) # "Granted"
    BY <1>6 DEF Refresh, SameAccount
  <2>2. RefreshOutcome(a) # "Granted" =>
          MapTokenError(RefreshOutcome(a)) \notin {"ok", "ConsentRevoked", "MissingRefreshToken"}
    BY <1>1, <1>6, RefreshOutcomes DEF MapTokenError, TokenError
  <2> QED
    BY <1>6, <2>1, <2>2 DEF Ended
<1> QED
  BY <1>2, <1>4, <1>5, <1>6

-----------------------------------------------------------------------------
(* What the invariant says of the properties.                               *)

Snapshot == IF held = None THEN "none" ELSE "old"

\* The three calls, and the calls that ended before Google was asked.
LEMMA Ends ==
    ASSUME IInv, ended # None
    PROVE  \/ /\ asked = "exchange" /\ answer \in AnswersTo("exchange", held) /\ answer # None
              /\ NeedsClock => times # None
              /\ ended = Complete(answer, times, Snapshot, storeFault)
           \/ /\ asked = "refresh" /\ answer \in AnswersTo("refresh", held)
              /\ NeedsClock => times # None
              /\ ended = Refresh(answer, times, requested, storeFault)
           \/ asked = "revoke" /\ ended = Revoke(answer)
           \/ /\ asked = "exchange" /\ answer = None /\ times = None
              /\ \E e \in OAuthError : ended = Ended(MapOAuthError(e), Snapshot, FALSE)
           \/ /\ asked \in {"refresh", "revoke"} /\ answer = None /\ times = None
              /\ \E fault \in StoreFaults :
                   /\ held = None \/ fault = "load"
                   /\ ended = Unasked(asked, Snapshot, fault)
<1>1. asked \in Requests
  BY DEF IInv, Proceeds
<1>2. answer # None => answer \in AnswersTo(asked, held)
  BY DEF IInv, Proceeds
<1> QED
  BY <1>1, <1>2 DEF IInv, Settled, Snapshot, Requests

LEMMA UnaskedFacts ==
    ASSUME NEW fault \in StoreFaults, NEW snapshot, NEW request \in {"refresh", "revoke"},
           NEW e, e = Unasked(request, snapshot, fault)
    PROVE  /\ e.stored = snapshot /\ ~e.revokes
           /\ fault = "load" <=> e.result = "PersistenceFailed"
           /\ e.result = "MissingRefreshToken" => request = "refresh" /\ fault # "load"
           /\ e.result \in {"MissingRefreshToken", "PersistenceFailed"}
                \/ (e.result = "ok" /\ request = "revoke")
<1>1. CASE fault = "load"
  <2>1. e = [result |-> "PersistenceFailed", stored |-> snapshot, revokes |-> FALSE]
    BY <1>1 DEF Unasked, Ended
  <2>2. e.result = "PersistenceFailed"
    BY <2>1
  <2>3. e.stored = snapshot
    BY <2>1
  <2>4. ~e.revokes
    BY <2>1
  <2> QED
    BY <1>1, <2>2, <2>3, <2>4
<1>2. CASE fault # "load" /\ request = "refresh"
  <2>1. e = [result |-> "MissingRefreshToken", stored |-> snapshot, revokes |-> FALSE]
    BY <1>2 DEF Unasked, Ended
  <2> QED
    BY <1>2, <2>1
<1>3. CASE fault # "load" /\ request = "revoke"
  BY <1>3 DEF Unasked, Ended
<1> QED
  BY <1>1, <1>2, <1>3

LEMMA RefusedFacts ==
    ASSUME NEW how \in OAuthError, NEW e, NEW snapshot,
           e = Ended(MapOAuthError(how), snapshot, FALSE)
    PROVE  /\ e.result \notin {"ok", "ConsentRevoked", "MissingRefreshToken"}
           /\ e.stored = snapshot /\ ~e.revokes
  BY DEF Ended, MapOAuthError, OAuthError

LEMMA RevokeFacts ==
    ASSUME NEW a, NEW e, e = Revoke(a)
    PROVE  e.stored = "old" /\ e.result \in {"ok", "RevokeUnconfirmed"}
  BY DEF Revoke, Ended

\* What is told of the stored credential, for every way to end.
LEMMA StoredAsTold == IInv => ErrorsSayWhatIsStored
<1> SUFFICES ASSUME IInv, ended # None
             PROVE  ErrorsSayWhatIsStored
  BY DEF ErrorsSayWhatIsStored
<1>1. /\ Snapshot \in {"none", "old"} /\ (Snapshot = "none" <=> held = None)
      /\ storeFault \in StoreFaults
  BY DEF Snapshot, IInv
<1>2. ASSUME ended = Complete(answer, times, Snapshot, storeFault),
             asked = "exchange", answer \in AnswersTo("exchange", held)
      PROVE  ErrorsSayWhatIsStored
  <2>1. /\ ended.result = "ok" <=> ended.stored = "new"
        /\ ended.result # "ConsentRevoked" /\ ended.stored \in {Snapshot, "new"}
    BY <1>1, <1>2, CompleteFacts
  <2> QED
    BY <1>1, <1>2, <2>1 DEF ErrorsSayWhatIsStored
<1>3. ASSUME ended = Refresh(answer, times, requested, storeFault),
             asked = "refresh", answer \in AnswersTo("refresh", held)
      PROVE  ErrorsSayWhatIsStored
  <2>1. /\ ended.stored = "none" <=> ended.result = "ConsentRevoked"
        /\ ended.result # "MissingRefreshToken"
        /\ ended.result = "ConsentRevoked" =>
             /\ answer.status \in {400, 500} /\ answer.fits /\ answer.parses
             /\ answer.error = "invalid_grant"
        /\ storeFault # "write" =>
             \/ answer.status # 200 \/ answer.refresh # "usable" \/ ended.stored = "new"
             \/ /\ RefreshOutcome(answer) # "InsufficientScope"
                /\ RefreshOutcome(answer) = "Granted" => TokenSuccess(answer).subject # requested
    BY <1>1, <1>3, RefreshFacts
  <2>2. /\ answer.status \in {0, 200, 400, 500}
        /\ times # None => /\ RefreshOutcome(answer) = "Granted"
                           /\ TokenSuccess(answer).subject = requested
    <3>1. answer.status \in {0, 200, 400, 500}
      BY <1>3, AnswerFacts DEF Requests
    <3>2. times # None => NeedsClock
      BY DEF IInv, Proceeds
    <3> QED
      BY <1>3, <3>1, <3>2 DEF NeedsClock, SameAccount
  <2>3. answer.status = 200 /\ answer.fits /\ answer.parses /\ answer.access # "empty"
            /\ answer.scope = "other" => RefreshOutcome(answer) = "InsufficientScope"
    BY <2>2, UnderScoped
  <2>4. storeFault # "write" =>
             \/ answer.status # 200 \/ ~answer.fits \/ ~answer.parses
             \/ answer.refresh # "usable" \/ answer.access = "empty"
             \/ ended.stored = "new"
             \/ answer.scope # "other" /\ times = None
    BY <2>1, <2>2, <2>3
  <2> QED
    BY <1>3, <2>1, <2>4 DEF ErrorsSayWhatIsStored, Told
<1>4. CASE asked = "revoke" /\ ended = Revoke(answer)
  BY <1>4, RevokeFacts DEF ErrorsSayWhatIsStored
<1>5. ASSUME NEW e \in OAuthError, ended = Ended(MapOAuthError(e), Snapshot, FALSE),
             asked = "exchange"
      PROVE  ErrorsSayWhatIsStored
  BY <1>1, <1>5, RefusedFacts DEF ErrorsSayWhatIsStored
<1>6. ASSUME NEW fault \in StoreFaults, ended = Unasked(asked, Snapshot, fault),
             asked \in {"refresh", "revoke"}, answer = None, held = None \/ fault = "load"
      PROVE  ErrorsSayWhatIsStored
  BY <1>1, <1>6, UnaskedFacts DEF ErrorsSayWhatIsStored, Told
<1> QED
  BY <1>2, <1>3, <1>4, <1>5, <1>6, Ends

LEMMA StrandedRevoked == IInv => StrandedIsRevoked
<1> SUFFICES ASSUME IInv, ended # None, asked = "exchange"
             PROVE  StrandedIsRevoked
  BY DEF StrandedIsRevoked
<1>1. /\ Snapshot \in {"none", "old"} /\ (Snapshot = "none" <=> held = None)
      /\ storeFault \in StoreFaults
  BY DEF Snapshot, IInv
<1>2. ASSUME ended = Complete(answer, times, Snapshot, storeFault),
             answer \in AnswersTo("exchange", held), answer # None
      PROVE  StrandedIsRevoked
  <2>1. ExchangeOutcome(answer) = "Granted" /\ ValidSubject(TokenSuccess(answer).subject)
           <=> GrantedToKnown(answer)
    <3>1. answer.status \in {0, 200, 400, 500} /\ (answer.status = 200 => answer \in Successes)
      BY <1>2, AnswerFacts DEF Requests
    <3> QED
      BY <3>1, KnownGrants
  <2>2. /\ ended.revokes => Snapshot = "none"
        /\ ended.result # "ok" =>
             (ended.revokes <=>
                /\ ExchangeOutcome(answer) = "Granted"
                /\ ValidSubject(TokenSuccess(answer).subject)
                /\ Snapshot = "none" /\ storeFault # "load"
                /\ answer.refresh = "usable" \/ answer.access # "oversized")
    BY <1>1, <1>2, CompleteFacts
  <2> QED
    BY <1>1, <1>2, <2>1, <2>2 DEF StrandedIsRevoked
<1>3. ASSUME NEW e \in OAuthError, ended = Ended(MapOAuthError(e), Snapshot, FALSE), answer = None
      PROVE  StrandedIsRevoked
  BY <1>3, RefusedFacts DEF StrandedIsRevoked
<1> QED
  BY <1>2, <1>3, Ends

LEMMA OwnSubject == IInv /\ TypeOK => SubjectIsOwner
<1> SUFFICES ASSUME IInv, TypeOK, ended # None, asked # "revoke", ended.stored = "new" \/ ended.result = "ok"
             PROVE  \/ answer.owner = IF asked = "refresh" THEN requested
                                      ELSE TokenSuccess(answer).subject
                    \/ /\ asked = "refresh" /\ ended.result = "InsufficientScope"
                       /\ answer.scope = "other" /\ answer.owner = held
  BY DEF SubjectIsOwner, IInv
<1>1. Snapshot \in {"none", "old"} /\ storeFault \in StoreFaults
  BY DEF Snapshot, IInv
<1>2. CASE asked = "exchange" /\ answer \in AnswersTo("exchange", held)
             /\ ended = Complete(answer, times, Snapshot, storeFault)
  BY <1>1, <1>2, CompleteFacts
<1>3. CASE asked = "refresh" /\ answer \in AnswersTo("refresh", held)
             /\ ended = Refresh(answer, times, requested, storeFault)
  <2>1. answer.status \in {0, 200, 400, 500} /\ (answer.status = 200 => answer \in Successes)
    BY <1>3, AnswerFacts DEF Requests
  <2>2. \/ RefreshOutcome(answer) = "Granted" /\ TokenSuccess(answer).subject = requested
        \/ /\ RefreshOutcome(answer) = "InsufficientScope" /\ answer.owner = held
           /\ ended.result = "InsufficientScope"
    BY <1>1, <1>3, RefreshFacts
  <2>3. ASSUME RefreshOutcome(answer) = "Granted", TokenSuccess(answer).subject = requested
        PROVE  answer.owner = requested
    <3>1. answer \in Successes /\ ScopeOutcome(answer) = "Granted" /\ ParseError(answer) = "none"
      BY <2>1, <2>3, RefreshOutcomes
    <3>2. requested \in Subjects
      <4>1. ValidateAccountSubject(answer.id_token) # None
        BY <3>1 DEF ScopeOutcome
      <4> QED
        BY <2>3, <4>1 DEF TypeOK, BrokerTypes, TokenSuccess
    <3> QED
      BY <2>3, <3>1, <3>2, GrantIsOwner
  <2>4. RefreshOutcome(answer) = "InsufficientScope" => answer.scope = "other"
    BY <2>1, RefreshOutcomes DEF ScopeOutcome, GmailReadGranted
  <2> QED
    BY <1>3, <2>2, <2>3, <2>4
<1>5. ~\E e \in OAuthError : ended = Ended(MapOAuthError(e), Snapshot, FALSE)
  BY <1>1, RefusedFacts
<1>6. ~(asked \in {"refresh", "revoke"} /\ \E fault \in StoreFaults :
                                           ended = Unasked(asked, Snapshot, fault))
  BY <1>1, UnaskedFacts
<1> QED
  BY <1>2, <1>3, <1>5, <1>6, Ends

-----------------------------------------------------------------------------
(* Every step preserves the invariant.                                      *)

LEMMA InitIInv == Init => IInv
  BY DEF Init, StoreFaults, NoCall, IInv, Proceeds, Settled

LEMMA TokenUnchanged ==
    ASSUME IInv, UNCHANGED token, session' # None => session'.subject = session'.owner
    PROVE  IInv'
  BY DEF IInv, Proceeds, Settled, NeedsClock, token

LEMMA CallEnded ==
    ASSUME EndCall, session' # None => session'.subject = session'.owner
    PROVE  IInv'
  BY DEF EndCall, StoreFaults, IInv, Proceeds, Settled

LEMMA AskStep ==
    ASSUME IInv, NEW request \in Requests, NEW who, NEW owner, Ask(request, who, owner)
    PROVE  IInv'
<1>1. /\ asked' = request /\ answer' = None /\ times' = None /\ ended' = None
      /\ UNCHANGED <<session, storeFault>>
  BY DEF Ask, IInv, Proceeds
<1> QED
  BY <1>1 DEF IInv, Proceeds, Settled

LEMMA UnaskedStep ==
    ASSUME IInv, NEW request \in Requests, NEW who, NEW owner, NEW e \in OAuthError,
           NEW fault \in StoreFaults, EndUnasked(request, who, owner, e, fault)
    PROVE  IInv'
<1>1. asked = None /\ answer = None /\ times = None
  BY DEF EndUnasked, IInv, Proceeds
<1>2. /\ asked' = request /\ answer' = None /\ times' = None /\ session' = session
      /\ held' = owner /\ storeFault' \in StoreFaults
  BY <1>1 DEF EndUnasked, StoreFaults
<1>3. LET snapshot == IF held' = None THEN "none" ELSE "old"
      IN  \/ request = "exchange" /\ ended' = Ended(MapOAuthError(e), snapshot, FALSE)
          \/ /\ request # "exchange" /\ (held' = None \/ fault = "load")
             /\ ended' = Unasked(request, snapshot, fault)
  BY <1>2 DEF EndUnasked
<1>4. request # None
  BY NoneAssumption
<1>5. Proceeds'
  BY <1>2, <1>4 DEF Proceeds
<1>6. Settled'
  BY <1>2, <1>3 DEF Settled
<1> QED
  BY <1>2, <1>5, <1>6 DEF IInv

LEMMA AnswerStep ==
    ASSUME IInv, asked # None, answer = None, ended = None,
           NEW a \in AnswersTo(asked, held), ReceiveAnswer(a)
    PROVE  IInv'
<1>1. times = None
  BY DEF IInv, Proceeds, NeedsClock
<1>2. /\ answer' = a /\ times' = None /\ ended' = None
      /\ UNCHANGED <<asked, held, session, storeFault>>
  BY <1>1 DEF ReceiveAnswer
<1> QED
  BY <1>2 DEF IInv, Proceeds, Settled

LEMMA ClockStep ==
    ASSUME IInv, NEW now \in 0..MaxSecond, NEW issued \in 0..MaxSecond,
           NEW expires \in 0..MaxSecond, ReadClock(now, issued, expires)
    PROVE  IInv'
<1>1. /\ NeedsClock' /\ answer # None
      /\ times' = [now |-> now, issued |-> issued, expires |-> expires]
      /\ UNCHANGED <<asked, requested, held, answer, ended, session, storeFault>>
  BY DEF ReadClock, NeedsClock
<1>2. ended = None
  BY <1>1 DEF IInv, Settled, ReadClock
<1> QED
  BY <1>1, <1>2 DEF IInv, Proceeds, Settled

LEMMA AgainStep ==
    ASSUME IInv, AskAgain
    PROVE  IInv'
<1>1. times = None
  BY DEF AskAgain, IInv, Proceeds, NeedsClock
<1> QED
  BY <1>1 DEF AskAgain, IInv, Proceeds, Settled

LEMMA ConcludeStep ==
    ASSUME IInv, NEW fault \in StoreFaults, Conclude(fault)
    PROVE  IInv'
<1>1. /\ answer # None /\ (NeedsClock => times # None)
      /\ UNCHANGED <<asked, requested, held, answer, times, session>>
      /\ storeFault' = fault
      /\ ended' = CASE asked = "exchange" ->
                         Complete(answer, times, IF held = None THEN "none" ELSE "old", fault)
                    [] asked = "refresh" -> Refresh(answer, times, requested, fault)
                    [] asked = "revoke" -> Revoke(answer)
  BY DEF Conclude
<1>2. Proceeds'
  BY <1>1 DEF IInv, Proceeds, NeedsClock
<1>3. Settled'
  BY <1>1 DEF Settled, NeedsClock
<1> QED
  BY <1>1, <1>2, <1>3 DEF IInv

\* The session gets the subject of an identity that was accepted, and that is
\* the owner of the token it came with.
LEMMA SessionStep ==
    ASSUME IInv, NEW slot, NEW m, OpenSession(slot, m)
    PROVE  IInv'
<1>1. /\ ended # None /\ asked = "refresh" /\ ended.result = "ok"
      /\ Opens(TokenSuccess(answer)) /\ EndCall
      /\ session' = [slot |-> slot, owner |-> answer.owner,
                     subject |-> TokenSuccess(answer).subject]
  BY DEF OpenSession
<1>2. /\ ended = Refresh(answer, times, requested, storeFault)
      /\ answer \in AnswersTo("refresh", held) /\ storeFault \in StoreFaults
  BY <1>1, Ends, UnaskedFacts DEF IInv
<1>3. RefreshOutcome(answer) = "Granted"
  BY <1>1, <1>2, RefreshFacts
<1>4. /\ answer \in Successes /\ ScopeOutcome(answer) = "Granted"
      /\ ParseError(answer) = "none"
  BY <1>2, <1>3, AnswerFacts, RefreshOutcomes DEF Requests
<1>5. ValidSubject(TokenSuccess(answer).subject)
  BY <1>1 DEF Opens, FromBrokerValidated, ValidSubject
<1>6. TokenSuccess(answer).subject = answer.owner
  BY <1>4, <1>5, GrantIsOwner
<1> QED
  BY <1>1, <1>6, CallEnded

LEMMA StepIInv == IInv /\ [Next]_vars => IInv'
<1> SUFFICES ASSUME IInv, [Next]_vars
             PROVE  IInv'
  OBVIOUS
<1>1. session # None => session.subject = session.owner
  BY DEF IInv
<1>2. CASE \E request \in Requests, who, owner \in Subjects \cup {None} :
             \/ Ask(request, who, owner)
             \/ \E e \in OAuthError, fault \in StoreFaults :
                   EndUnasked(request, who, owner, e, fault)
  BY <1>2, AskStep, UnaskedStep
<1>3. CASE asked # None /\ answer = None /\ ended = None
             /\ \E a \in AnswersTo(asked, held) : ReceiveAnswer(a)
  BY <1>3, AnswerStep
<1>4. CASE \E now, issued, expires \in 0..MaxSecond : ReadClock(now, issued, expires)
  BY <1>4, ClockStep
<1>5. CASE AskAgain
  BY <1>5, AgainStep
<1>6. CASE \E fault \in StoreFaults : Conclude(fault)
  BY <1>6, ConcludeStep
<1>7. CASE \E slot \in Slots, m \in [Ids -> Threads \cup {None}] : OpenSession(slot, m)
  BY <1>7, SessionStep
<1>8. CASE Dismiss
  BY <1>1, <1>8, CallEnded DEF Dismiss
<1>9. CASE UNCHANGED <<token, session>>
  BY <1>1, <1>9, TokenUnchanged
<1>10. CASE \/ \E slot \in Slots : (\E n \in 1..MaxPage : StartList(slot, n))
                                   \/ (\E id \in Ids : StartFetch(slot, id))
            \/ Answer \/ Return
            \/ \E id \in Ids : Delete(id)
            \/ UNCHANGED vars
  <2>1. UNCHANGED <<token, session>>
    BY <1>10 DEF StartList, StartFetch, Answer, Return, Delete, vars, ReceiveList, FinishPage,
                 RefuseEntry, Hydrate, ReceiveMetadata, ReceiveRaw
  <2> QED
    BY <2>1, <1>9
<1> QED
  BY <1>2, <1>3, <1>4, <1>5, <1>6, <1>7, <1>8, <1>10 DEF Next

-----------------------------------------------------------------------------
(* The mailbox calls.                                                       *)

\* The first n entries of the listing are on the page, in their order, or gone.
Upto(n) ==
    \E place \in [DOMAIN page -> 1..n] :
       /\ \A i, j \in DOMAIN page : i < j => place[i] < place[j]
       /\ \A i \in DOMAIN page : page[i] = listing[place[i]]
       /\ \A k \in 1..n : /\ listing[k].id \in Ids
                          /\ \/ k \in {place[i] : i \in DOMAIN page}
                             \/ mail[listing[k].id] = None

Hydrated(n) ==
    /\ listing \in Seq(Listed) /\ Len(listing) <= wanted
    /\ page \in Seq(Envelopes) /\ Len(page) <= n /\ n <= Len(listing)
    /\ Upto(n)

CallInv ==
    /\ asked # None => session = None
    /\ pc # "idle" => session # None
    /\ mail \in [Ids -> Threads \cup {None}]
    /\ pc \in {"list", "hydrate"} => wanted \in 1..MaxPage
    /\ pc \in {"metadata", "raw"} => wanted \in Ids
    /\ pc = "list" => page = <<>>
    /\ pc = "hydrate" => at \in Nat \ {0} /\ Hydrated(at - 1)
    /\ pc = "raw" => \E t \in Threads : page = <<[id |-> wanted, thread |-> t]>>
    /\ pc = "done" /\ error = "none" /\ wanted \in 1..MaxPage => Hydrated(Len(listing))
    /\ MessageWhole

LEMMA NotFoundIsGone ==
    ASSUME NEW id, NEW limit, NEW e \in EndsFor(id, limit), e = "NotFound"
    PROVE  mail[id] = None
<1>1. PICK r \in Responses(limit) : /\ r.status # IF mail[id] = None THEN 200 ELSE 404
                                   /\ RequestError(r, limit) = "NotFound"
  BY DEF EndsFor
<1>2. r.status = 404
  BY <1>1 DEF RequestError, MapStatus, MapForbidden
<1> QED
  BY <1>1, <1>2

\* A message that goes takes none from a page it is not on, and makes no
\* entry less gone.
LEMMA UptoStays ==
    ASSUME NEW n, Upto(n), mail \in [Ids -> Threads \cup {None}],
           UNCHANGED <<page, listing>>,
           \A id \in Ids : mail[id] = None => mail'[id] = None
    PROVE  Upto(n)'
<1>1. PICK place \in [DOMAIN page -> 1..n] :
       /\ \A i, j \in DOMAIN page : i < j => place[i] < place[j]
       /\ \A i \in DOMAIN page : page[i] = listing[place[i]]
       /\ \A k \in 1..n : /\ listing[k].id \in Ids
                          /\ \/ k \in {place[i] : i \in DOMAIN page}
                             \/ mail[listing[k].id] = None
  BY DEF Upto
<1>2. \A k \in 1..n : mail[listing[k].id] = None => mail'[listing[k].id] = None
  BY <1>1
<1> QED
  BY <1>1, <1>2 DEF Upto

LEMMA NothingYet ==
    ASSUME page' = <<>>
    PROVE  Upto(0)'
<1>1. DOMAIN page' = {} /\ 1..0 = {}
  OBVIOUS
<1>2. [i \in {} |-> 0] \in [DOMAIN page' -> 1..0]
  BY <1>1
<1> QED
  BY <1>1, <1>2 DEF Upto

LEMMA Appended ==
    ASSUME NEW S, NEW s \in Seq(S), NEW x \in S
    PROVE  /\ Append(s, x) \in Seq(S) /\ Len(Append(s, x)) = Len(s) + 1
           /\ DOMAIN Append(s, x) = 1..(Len(s) + 1)
           /\ Append(s, x)[Len(s) + 1] = x
           /\ \A i \in 1..Len(s) : Append(s, x)[i] = s[i]
  OBVIOUS

\* The next entry: its message is put at the end of the page, or is gone.
LEMMA NextEntry ==
    ASSUME NEW n \in Nat, Hydrated(n), n < Len(listing), listing[n + 1].id \in Ids,
           UNCHANGED <<wanted, listing, mail>>,
           \/ page' = Append(page, listing[n + 1]) /\ listing[n + 1] \in Envelopes
           \/ page' = page /\ mail[listing[n + 1].id] = None
    PROVE  Hydrated(n + 1)'
<1>1. PICK place \in [DOMAIN page -> 1..n] :
       /\ \A i, j \in DOMAIN page : i < j => place[i] < place[j]
       /\ \A i \in DOMAIN page : page[i] = listing[place[i]]
       /\ \A k \in 1..n : /\ listing[k].id \in Ids
                          /\ \/ k \in {place[i] : i \in DOMAIN page}
                             \/ mail[listing[k].id] = None
  BY DEF Hydrated, Upto
<1>2. page \in Seq(Envelopes) /\ Len(page) \in Nat /\ DOMAIN page = 1..Len(page)
  BY DEF Hydrated
<1>3. CASE page' = page /\ mail[listing[n + 1].id] = None
  <2>1. place \in [DOMAIN page -> 1..(n + 1)]
    BY <1>1
  <2>2. \A k \in 1..(n + 1) : /\ listing[k].id \in Ids
                             /\ \/ k \in {place[i] : i \in DOMAIN page}
                                \/ mail[listing[k].id] = None
    BY <1>1, <1>3
  <2>3. Upto(n + 1)'
    BY <1>1, <1>3, <2>1, <2>2 DEF Upto
  <2> QED
    BY <1>2, <1>3, <2>3 DEF Hydrated
<1>4. CASE page' = Append(page, listing[n + 1]) /\ listing[n + 1] \in Envelopes
  <2> DEFINE l == Len(page) + 1
             longer == [i \in 1..l |-> IF i = l THEN n + 1 ELSE place[i]]
  <2>1. /\ page' \in Seq(Envelopes) /\ Len(page') = l /\ DOMAIN page' = 1..l
        /\ page'[l] = listing[n + 1]
        /\ \A i \in 1..Len(page) : page'[i] = page[i]
    <3> DEFINE x == listing[n + 1]
    <3>1. x \in Envelopes /\ page' = Append(page, x)
      BY <1>4
    <3> HIDE DEF x
    <3>2. /\ Append(page, x) \in Seq(Envelopes) /\ Len(Append(page, x)) = l
          /\ DOMAIN Append(page, x) = 1..l
          /\ Append(page, x)[l] = x
          /\ \A i \in 1..Len(page) : Append(page, x)[i] = page[i]
      BY <1>2, <3>1, Appended
    <3> QED
      BY <3>1, <3>2 DEF x
  <2>2. longer \in [1..l -> 1..(n + 1)]
    BY <1>1, <1>2
  <2>3. longer[l] = n + 1 /\ \A i \in 1..Len(page) : longer[i] = place[i] /\ place[i] \in 1..n
    <3>1. l \in 1..l /\ \A i \in 1..Len(page) : i \in 1..l /\ i # l
      BY <1>2
    <3>2. \A i \in 1..Len(page) : place[i] \in 1..n
      BY <1>1, <1>2
    <3> QED
      BY <3>1, <3>2
  <2> HIDE DEF longer
  <2>4. \A i, j \in 1..l : i < j => longer[i] < longer[j]
    <3> SUFFICES ASSUME NEW i \in 1..l, NEW j \in 1..l, i < j
                 PROVE  longer[i] < longer[j]
      OBVIOUS
    <3>1. i \in 1..Len(page)
      BY <1>2
    <3>2. CASE j = l
      BY <2>3, <3>1, <3>2
    <3>3. CASE j # l
      <4>1. i \in DOMAIN page /\ j \in DOMAIN page /\ j \in 1..Len(page)
        BY <1>2, <3>1, <3>3
      <4>2. place[i] < place[j]
        BY <1>1, <4>1
      <4> QED
        BY <2>3, <3>1, <4>1, <4>2
    <3> QED
      BY <3>2, <3>3
  <2>5. \A i \in 1..l : page'[i] = listing[longer[i]]
    <3>1. \A i \in 1..Len(page) : page'[i] = listing[longer[i]]
      BY <1>1, <1>2, <2>1, <2>3
    <3> QED
      BY <1>2, <2>1, <2>3, <3>1
  <2>6. \A k \in 1..(n + 1) : /\ listing[k].id \in Ids
                             /\ \/ k \in {longer[i] : i \in 1..l}
                                \/ mail[listing[k].id] = None
    <3>1. \A k \in 1..n : k \in {place[i] : i \in 1..Len(page)} => k \in {longer[i] : i \in 1..l}
      BY <1>2, <2>3
    <3>2. n + 1 \in {longer[i] : i \in 1..l}
      BY <1>2, <2>3
    <3>3. ASSUME NEW k \in 1..n
          PROVE  /\ listing[k].id \in Ids
                 /\ k \in {longer[i] : i \in 1..l} \/ mail[listing[k].id] = None
      BY <1>1, <1>2, <3>1
    <3>4. \A k \in 1..(n + 1) : k \in 1..n \/ k = n + 1
      OBVIOUS
    <3> HIDE DEF l
    <3> QED
      BY <3>2, <3>3, <3>4
  <2>7. Upto(n + 1)'
    <3>1. mail' = mail /\ listing' = listing
      OBVIOUS
    <3> HIDE DEF l
    <3>2. longer \in [DOMAIN page' -> 1..(n + 1)]
      BY <2>1, <2>2
    <3>3. \A i, j \in DOMAIN page' : i < j => longer[i] < longer[j]
      BY <2>1, <2>4
    <3>4. \A i \in DOMAIN page' : page'[i] = listing'[longer[i]]
      BY <2>1, <2>5, <3>1
    <3>5. \A k \in 1..(n + 1) : /\ listing'[k].id \in Ids
                               /\ \/ k \in {longer[i] : i \in DOMAIN page'}
                                  \/ mail'[listing'[k].id] = None
      BY <2>1, <2>6, <3>1
    <3> QED
      BY <3>2, <3>3, <3>4, <3>5 DEF Upto
  <2> QED
    BY <1>2, <2>1, <2>7 DEF Hydrated
<1> QED
  BY <1>3, <1>4

LEMMA InitCallInv == Init => CallInv
  BY DEF Init, NoCall, CallInv, MessageWhole

\* Between calls, and after one that failed with anything but NotFound,
\* nothing is claimed.
LEMMA NothingClaimed ==
    ASSUME CallInv, asked' # None => session' = None, pc' # "idle" => session' # None,
           mail' \in [Ids -> Threads \cup {None}],
           pc' = "idle" \/ (pc' = "done" /\ error' \notin {"none", "NotFound"})
    PROVE  CallInv'
  BY DEF CallInv, MessageWhole

\* A message is deleted, or nothing of a call changes.
LEMMA MailStep ==
    ASSUME CallInv, UNCHANGED call, asked' # None => session' = None,
           session' = session, mail' \in [Ids -> Threads \cup {None}],
           \A id \in Ids : mail[id] = None => mail'[id] = None
    PROVE  CallInv'
<1>1. UNCHANGED <<pc, wanted, listing, at, page, content, error>>
  BY DEF call
<1>2. ASSUME NEW n, Hydrated(n)
      PROVE  Hydrated(n)'
  BY <1>1, <1>2, UptoStays DEF CallInv, Hydrated
<1>3. ASSUME pc = "hydrate"
      PROVE  at' \in Nat \ {0} /\ Hydrated(at - 1)'
  <2>1. at \in Nat \ {0} /\ Hydrated(at - 1)
    BY <1>3 DEF CallInv
  <2>2. PICK n : n = at - 1
    OBVIOUS
  <2>3. Hydrated(n)'
    BY <1>2, <2>1, <2>2
  <2>4. n = at' - 1
    BY <1>1, <2>2
  <2> QED
    BY <1>1, <2>1, <2>3, <2>4
<1>4. ASSUME pc = "done", error = "none", wanted \in 1..MaxPage
      PROVE  Hydrated(Len(listing))'
  <2>1. Hydrated(Len(listing))
    BY <1>4 DEF CallInv
  <2>2. PICK n : n = Len(listing)
    OBVIOUS
  <2>3. Hydrated(n)'
    BY <1>2, <2>1, <2>2
  <2>4. n = Len(listing')
    BY <1>1, <2>2
  <2> QED
    BY <2>3, <2>4
<1>5. MessageWhole'
  BY <1>1 DEF CallInv, MessageWhole
<1> QED
  BY <1>1, <1>3, <1>4, <1>5 DEF CallInv

LEMMA StartSteps ==
    ASSUME CallInv, NEW slot \in Slots,
           \/ \E n \in 1..MaxPage : StartList(slot, n)
           \/ \E id \in Ids : StartFetch(slot, id)
    PROVE  CallInv'
<1>1. session # None /\ UNCHANGED <<asked, session, mail>>
  BY DEF StartList, StartFetch, token
<1>2. CASE pc' = "done"
  <2>1. error' \notin {"none", "NotFound"}
    BY <1>2 DEF StartList, StartFetch, Finish
  <2> QED
    BY <1>1, <1>2, <2>1, NothingClaimed DEF CallInv
<1>3. CASE pc' # "done"
  <2>1. \/ pc' = "list" /\ wanted' \in 1..MaxPage /\ page' = <<>>
        \/ pc' = "metadata" /\ wanted' \in Ids
    BY <1>3 DEF StartList, StartFetch, Finish
  <2> QED
    BY <1>1, <1>3, <2>1 DEF CallInv, MessageWhole
<1> QED
  BY <1>2, <1>3

LEMMA ListStep ==
    ASSUME CallInv, ReceiveList
    PROVE  CallInv'
<1>1. /\ UNCHANGED <<asked, session, mail, wanted, page, content>>
      /\ session # None /\ wanted \in 1..MaxPage /\ page = <<>>
  BY DEF ReceiveList, token, CallInv
<1>2. CASE pc' = "done"
  <2>1. error' # "none"
    BY <1>2 DEF ReceiveList, Finish
  <2>2. wanted' \notin Ids
    BY <1>1, PageAssumption
  <2> QED
    BY <1>1, <1>2, <2>1, <2>2 DEF CallInv, MessageWhole
<1>3. CASE pc' # "done"
  <2>1. PICK listed \in Listings : /\ listing' = listed /\ Len(listed) <= wanted
                                  /\ at' = 1 /\ pc' = "hydrate"
    BY <1>3 DEF ReceiveList, AcceptsList, Finish
  <2>2. Listable \subseteq Listed
    BY DEF Listable, Listed
  <2>3. listing' \in Seq(Listed)
    <3>1. PICK n \in 0..(wanted + 1) : listed \in [1..n -> Listable]
      BY DEF Listings
    <3>2. n \in Nat /\ listed \in [1..n -> Listed]
      BY <1>1, <2>2, <3>1, PageAssumption
    <3> QED
      BY <2>1, <3>2
  <2>4. Hydrated(0)'
    <3>1. page' \in Seq(Envelopes) /\ Len(page') = 0 /\ Len(listing') \in Nat
      BY <1>1, <2>3
    <3> QED
      BY <1>1, <2>1, <2>3, <3>1, NothingYet DEF Hydrated
  <2>5. Hydrated(at - 1)'
    BY <2>1, <2>4
  <2> QED
    BY <1>1, <2>1, <2>5 DEF CallInv, MessageWhole
<1> QED
  BY <1>2, <1>3

LEMMA PageSteps ==
    ASSUME CallInv, FinishPage \/ RefuseEntry
    PROVE  CallInv'
<1>1. /\ UNCHANGED <<asked, session, mail, wanted, listing, page>>
      /\ session # None /\ wanted \in 1..MaxPage /\ pc' = "done" /\ at \in Nat \ {0}
      /\ Hydrated(at - 1) /\ mail \in [Ids -> Threads \cup {None}]
      /\ asked # None => session = None
  BY DEF FinishPage, RefuseEntry, Finish, token, CallInv
<1>2. wanted' \notin Ids
  BY <1>1, PageAssumption
<1>3. CASE FinishPage
  <2>1. Len(listing) \in Nat /\ at > Len(listing) /\ at - 1 <= Len(listing)
    BY <1>1, <1>3 DEF FinishPage, Hydrated
  <2>2. at - 1 = Len(listing)
    BY <1>1, <2>1
  <2>3. PICK n : n = at - 1 /\ n = Len(listing)
    BY <2>2
  <2>4. Hydrated(Len(listing))'
    <3>1. Hydrated(n)
      BY <1>1, <2>3
    <3>2. Hydrated(n)'
      BY <1>1, <3>1, UptoStays DEF Hydrated
    <3>3. n = Len(listing')
      BY <1>1, <2>3
    <3> QED
      BY <3>2, <3>3
  <2> QED
    BY <1>1, <1>2, <2>4 DEF CallInv, MessageWhole
<1>4. CASE RefuseEntry
  BY <1>1, <1>4, NothingClaimed DEF RefuseEntry, Finish
<1> QED
  BY <1>3, <1>4

LEMMA HydrateStep ==
    ASSUME CallInv, Hydrate
    PROVE  CallInv'
<1>1. /\ UNCHANGED <<asked, session, mail, wanted, listing>>
      /\ session # None /\ wanted \in 1..MaxPage /\ at \in Nat \ {0}
      /\ Hydrated(at - 1) /\ mail \in [Ids -> Threads \cup {None}]
      /\ asked # None => session = None
      /\ at <= Len(listing) /\ listing[at].id # NotAnId
  BY DEF Hydrate, Requested, IsIdentifier, token, CallInv
<1>2. wanted' \notin Ids
  BY <1>1, PageAssumption
<1>3. /\ listing[at] \in Listed /\ listing[at].id \in Ids
      /\ at - 1 \in Nat /\ (at - 1) + 1 = at /\ at - 1 < Len(listing)
  <2>1. listing \in Seq(Listed) /\ at \in 1..Len(listing)
    BY <1>1 DEF Hydrated
  <2>2. listing[at] \in Listed
    BY <2>1
  <2> QED
    BY <1>1, <2>1, <2>2 DEF Listed
<1>4. CASE pc' = "done"
  <2>1. error' # "none"
    BY <1>4 DEF Hydrate, Requested, Finish
  <2> QED
    BY <1>1, <1>2, <1>4, <2>1 DEF CallInv, MessageWhole
<1>5. CASE pc' # "done"
  <2>1. /\ pc' = "hydrate" /\ at' = at + 1
        /\ \/ \E m \in Metadata : /\ Fitting(m, listing[at])
                                /\ page' = Append(page, [id |-> m.id, thread |-> m.thread])
           \/ page' = page /\ "NotFound" \in EndsFor(listing[at].id, JSON_LIMIT)
    BY <1>5 DEF Hydrate, Requested, Finish, Skips
  <2>2. \/ page' = Append(page, listing[at]) /\ listing[at] \in Envelopes
        \/ page' = page /\ mail[listing[at].id] = None
    <3>1. ASSUME NEW m \in Metadata, Fitting(m, listing[at])
          PROVE  /\ listing[at] = [id |-> m.id, thread |-> m.thread]
                 /\ listing[at] \in Envelopes
      <4>1. /\ m.id = listing[at].id /\ m.thread = listing[at].thread
            /\ m.thread # NotAnId /\ m.thread \in Threads \cup {NotAnId}
        BY <3>1 DEF Fitting, EnvelopeFrom, IsIdentifier, Metadata
      <4> QED
        BY <1>3, <4>1 DEF Listed, Envelopes
    <3> QED
      BY <2>1, <3>1, NotFoundIsGone
  <2>3. PICK n \in Nat : n = at - 1
    BY <1>1
  <2>4. Hydrated(n + 1)'
    <3>1. Hydrated(n) /\ n < Len(listing) /\ listing[n + 1] = listing[at]
      BY <1>1, <1>3, <2>3
    <3> QED
      BY <1>1, <1>3, <2>2, <3>1, NextEntry
  <2>5. Hydrated(at - 1)'
    <3>1. at' - 1 = n + 1
      BY <1>1, <2>1, <2>3
    <3> QED
      BY <2>4, <3>1
  <2> QED
    BY <1>1, <2>1, <2>5 DEF CallInv, MessageWhole
<1> QED
  BY <1>4, <1>5

LEMMA FetchSteps ==
    ASSUME CallInv, ReceiveMetadata \/ ReceiveRaw
    PROVE  CallInv'
<1>1. /\ UNCHANGED <<asked, session, mail, wanted>>
      /\ session # None /\ wanted \in Ids /\ mail \in [Ids -> Threads \cup {None}]
      /\ asked # None => session = None
  BY DEF ReceiveMetadata, ReceiveRaw, token, CallInv
<1>2. wanted' \notin 1..MaxPage
  BY <1>1, PageAssumption
<1>3. CASE ReceiveMetadata
  <2>1. PICK e \in EndsFor(wanted, JSON_LIMIT), m \in Metadata :
          IF e = "none" /\ EnvelopeFrom(m, wanted)
          THEN page' = <<[id |-> m.id, thread |-> m.thread]>> /\ pc' = "raw"
          ELSE pc' = "done" /\ error' = IF e = "none" THEN "InvalidResponse" ELSE e
    BY <1>3 DEF ReceiveMetadata, Finish
  <2>2. CASE e = "none" /\ EnvelopeFrom(m, wanted)
    <3>1. m.id = wanted /\ m.thread \in Threads
      BY <2>2 DEF EnvelopeFrom, IsIdentifier, Metadata
    <3> QED
      BY <1>1, <2>1, <2>2, <3>1 DEF CallInv, MessageWhole
  <2>3. CASE ~(e = "none" /\ EnvelopeFrom(m, wanted))
    <3>1. pc' = "done" /\ error' # "none" /\ (error' = "NotFound" => mail[wanted] = None)
      BY <2>1, <2>3, NotFoundIsGone
    <3> QED
      BY <1>1, <3>1 DEF CallInv, MessageWhole
  <2> QED
    BY <2>2, <2>3
<1>4. CASE ReceiveRaw
  <2>1. PICK e \in EndsFor(wanted, RAW_JSON_LIMIT), c \in Raws :
          IF e = "none" /\ Matches(c) /\ DecodeRaw(c)
          THEN pc' = "done" /\ error' = "none" /\ content' = [id |-> c.id, thread |-> c.thread]
          ELSE pc' = "done" /\ error' = IF e = "none" THEN "InvalidResponse" ELSE e
    BY <1>4 DEF ReceiveRaw, Finish
  <2>2. PICK t \in Threads : page = <<[id |-> wanted, thread |-> t]>>
    BY <1>4 DEF ReceiveRaw, CallInv
  <2>3. page' = page /\ page[1] = [id |-> wanted, thread |-> t]
    BY <1>4, <2>2 DEF ReceiveRaw
  <2>4. pc' = "done" /\ (error' = "NotFound" => mail[wanted] = None)
    BY <2>1, NotFoundIsGone
  <2>5. error' = "none" => page[1].id = wanted /\ content' = page[1]
    BY <2>1, <2>3 DEF Matches
  <2> QED
    BY <1>1, <1>2, <2>3, <2>4, <2>5 DEF CallInv, MessageWhole
<1> QED
  BY <1>3, <1>4

LEMMA TokenSteps ==
    ASSUME CallInv, UNCHANGED <<mail, session, call>>, asked' \in {asked, None} \/ session = None
    PROVE  CallInv'
<1>1. asked' # None => session' = None
  BY DEF CallInv
<1> QED
  BY <1>1, MailStep DEF CallInv

LEMMA StepCallInv == IInv /\ CallInv /\ [Next]_vars => CallInv'
<1> SUFFICES ASSUME IInv, CallInv, [Next]_vars
             PROVE  CallInv'
  OBVIOUS
<1>1. CASE \E slot \in Slots, m \in [Ids -> Threads \cup {None}] : OpenSession(slot, m)
  <2>1. PICK slot \in Slots, m \in [Ids -> Threads \cup {None}] : OpenSession(slot, m)
    BY <1>1
  <2>2. asked # None
    BY <2>1, NoneAssumption DEF OpenSession, Requests
  <2>3. pc' = "idle" /\ asked' = None /\ mail' = m
    BY <2>1, <2>2 DEF OpenSession, EndCall, call, CallInv
  <2> QED
    BY <2>3, NothingClaimed
<1>2. CASE \E slot \in Slots : (\E n \in 1..MaxPage : StartList(slot, n))
                              \/ (\E id \in Ids : StartFetch(slot, id))
  BY <1>2, StartSteps
<1>3. CASE Answer
  BY <1>3, ListStep, PageSteps, HydrateStep, FetchSteps DEF Answer
<1>4. CASE Return
  BY <1>4, NothingClaimed DEF Return, CallInv, token
<1>5. CASE \E id \in Ids : Delete(id)
  <2>1. PICK id \in Ids : Delete(id)
    BY <1>5
  <2>2. /\ mail' \in [Ids -> Threads \cup {None}] /\ UNCHANGED <<call, session, asked>>
        /\ \A m \in Ids : mail[m] = None => mail'[m] = None
    BY <2>1 DEF Delete, CallInv, token
  <2> QED
    BY <2>2, MailStep DEF CallInv
<1>6. CASE \/ UNCHANGED <<mail, session, call>> /\ (asked' \in {asked, None} \/ session = None)
           \/ UNCHANGED vars
  BY <1>6, TokenSteps DEF vars, token
<1>7. CASE \E request \in Requests, who, owner \in Subjects \cup {None} :
             \/ Ask(request, who, owner)
             \/ \E e \in OAuthError, fault \in StoreFaults :
                   EndUnasked(request, who, owner, e, fault)
  BY <1>6, <1>7 DEF Ask, EndUnasked
<1>8. CASE \/ \E a \in AnswersTo(asked, held) : ReceiveAnswer(a)
           \/ \E now, issued, expires \in 0..MaxSecond : ReadClock(now, issued, expires)
           \/ AskAgain \/ Dismiss \/ \E fault \in StoreFaults : Conclude(fault)
  BY <1>6, <1>8 DEF ReceiveAnswer, ReadClock, AskAgain, Dismiss, Conclude, EndCall
<1> QED
  BY <1>1, <1>2, <1>3, <1>4, <1>5, <1>6, <1>7, <1>8 DEF Next

-----------------------------------------------------------------------------
(* Types.                                                                   *)

LEMMA EndedType ==
    ASSUME NEW r \in BrokerError \cup {"ok"}, NEW s \in Stored, NEW b \in BOOLEAN
    PROVE  Ended(r, s, b) \in [result : BrokerError \cup {"ok"}, stored : Stored,
                               revokes : BOOLEAN]
  BY DEF Ended

LEMMA CompleteType ==
    ASSUME NEW owner, NEW a \in AnswersTo("exchange", owner), NEW t,
           NEW snapshot \in {"none", "old"}, NEW fault \in StoreFaults
    PROVE  Complete(a, t, snapshot, fault) \in
               [result : BrokerError \cup {"ok"}, stored : Stored, revokes : BOOLEAN]
<1>1. snapshot \in Stored /\ "new" \in Stored
  BY DEF Stored
<1>2. MapTokenError(ExchangeOutcome(a)) \in BrokerError
  <2>1. a.status \in {0, 200, 400, 500}
    BY AnswerFacts DEF Requests
  <2> QED
    BY <2>1, ExchangeOutcomes DEF MapTokenError, TokenError, BrokerError
<1>3. ASSUME NEW r \in BrokerError
      PROVE  Stranded(r, snapshot, TokenSuccess(a)) \in
                 [result : BrokerError \cup {"ok"}, stored : Stored, revokes : BOOLEAN]
  <2>1. (LicensesRevoke(snapshot) /\ RevokeHandle(TokenSuccess(a))) \in BOOLEAN
    OBVIOUS
  <2> QED
    BY <1>1, <2>1, EndedType DEF Stranded
<1>4. {"IdentityUnverified", "PersistenceFailed", "MalformedResponse", "MissingRefreshToken"}
        \subseteq BrokerError
  BY DEF BrokerError
<1>5. \A r \in BrokerError \cup {"ok"}, s \in Stored :
        Ended(r, s, FALSE) \in [result : BrokerError \cup {"ok"}, stored : Stored, revokes : BOOLEAN]
  BY EndedType
<1> QED
  BY <1>1, <1>2, <1>3, <1>4, <1>5 DEF Complete

LEMMA RefreshType ==
    ASSUME NEW owner, NEW a \in AnswersTo("refresh", owner), NEW t, NEW who,
           NEW fault \in StoreFaults
    PROVE  Refresh(a, t, who, fault) \in
               [result : BrokerError \cup {"ok"}, stored : Stored, revokes : BOOLEAN]
<1>1. "old" \in Stored /\ "new" \in Stored /\ "none" \in Stored
  BY DEF Stored
<1>2. MapTokenError(RefreshOutcome(a)) \in BrokerError
  <2>1. a.status \in {0, 200, 400, 500}
    BY AnswerFacts DEF Requests
  <2> QED
    BY <2>1, RefreshOutcomes DEF MapTokenError, TokenError, BrokerError
<1>3. {"IdentityUnverified", "PersistenceFailed", "MalformedResponse", "ConsentRevoked",
       "InsufficientScope", "IdentityMismatch"} \subseteq BrokerError
  BY DEF BrokerError
<1>4. \A r \in BrokerError \cup {"ok"}, s \in Stored :
        Ended(r, s, FALSE) \in [result : BrokerError \cup {"ok"}, stored : Stored, revokes : BOOLEAN]
  BY EndedType
<1>5. \A r \in BrokerError \cup {"ok"} :
        Retain(a, t, fault, r) \in
            [result : BrokerError \cup {"ok"}, stored : Stored, revokes : BOOLEAN]
  BY <1>1, <1>3, <1>4 DEF Retain
<1> QED
  BY <1>1, <1>2, <1>3, <1>4, <1>5 DEF Refresh

EndType ==
    ended \in {None} \cup [result : BrokerError \cup {"ok"}, stored : Stored, revokes : BOOLEAN]

\* However a call ends, its end is of the broker's vocabulary.
LEMMA EndsTyped == IInv => EndType
<1> SUFFICES ASSUME IInv, ended # None
             PROVE  ended \in [result : BrokerError \cup {"ok"}, stored : Stored,
                               revokes : BOOLEAN]
  BY DEF EndType
<1>1. /\ Snapshot \in {"none", "old"} /\ Snapshot \in Stored /\ "old" \in Stored
      /\ storeFault \in StoreFaults
  BY DEF Snapshot, Stored, IInv
<1>2. ASSUME ended = Complete(answer, times, Snapshot, storeFault),
             answer \in AnswersTo("exchange", held)
      PROVE  ended \in [result : BrokerError \cup {"ok"}, stored : Stored, revokes : BOOLEAN]
  BY <1>1, <1>2, CompleteType
<1>3. ASSUME ended = Refresh(answer, times, requested, storeFault),
             answer \in AnswersTo("refresh", held)
      PROVE  ended \in [result : BrokerError \cup {"ok"}, stored : Stored, revokes : BOOLEAN]
  BY <1>1, <1>3, RefreshType
<1>4. ASSUME ended = Revoke(answer)
      PROVE  ended \in [result : BrokerError \cup {"ok"}, stored : Stored, revokes : BOOLEAN]
  <2>1. "RevokeUnconfirmed" \in BrokerError
    BY DEF BrokerError
  <2> QED
    BY <1>1, <1>4, <2>1, EndedType DEF Revoke
<1>5. ASSUME NEW e \in OAuthError, ended = Ended(MapOAuthError(e), Snapshot, FALSE)
      PROVE  ended \in [result : BrokerError \cup {"ok"}, stored : Stored, revokes : BOOLEAN]
  <2>1. MapOAuthError(e) \in BrokerError
    BY DEF OAuthError, MapOAuthError, BrokerError
  <2> QED
    BY <1>1, <1>5, <2>1, EndedType
<1>6. ASSUME NEW fault \in StoreFaults, ended = Unasked(asked, Snapshot, fault)
      PROVE  ended \in [result : BrokerError \cup {"ok"}, stored : Stored, revokes : BOOLEAN]
  <2>1. {"PersistenceFailed", "MissingRefreshToken"} \subseteq BrokerError
    BY DEF BrokerError
  <2> QED
    BY <1>1, <1>6, <2>1, EndedType DEF Unasked
<1> QED
  BY <1>2, <1>3, <1>4, <1>5, <1>6, Ends

LEMMA BrokerTypesStep ==
    ASSUME BrokerTypes, IInv', [Next]_vars
    PROVE  BrokerTypes'
<1>1. requested' \in Subjects \cup {None} /\ held' \in Subjects \cup {None}
  <2> DEFINE somebody == Subjects \cup {None}
  <2>1. ASSUME NEW request \in Requests, NEW who \in somebody, NEW owner \in somebody,
               \/ Ask(request, who, owner)
               \/ \E e \in OAuthError, fault \in StoreFaults :
                     EndUnasked(request, who, owner, e, fault)
        PROVE  requested' \in somebody /\ held' \in somebody
    BY <2>1 DEF Ask, EndUnasked
  <2>2. CASE \/ \E slot \in Slots, m \in [Ids -> Threads \cup {None}] : OpenSession(slot, m)
             \/ Dismiss
    BY <2>2 DEF OpenSession, Dismiss, EndCall
  <2>3. CASE UNCHANGED <<requested, held>>
    BY <2>3 DEF BrokerTypes
  <2>4. CASE \/ \E a \in AnswersTo(asked, held) : ReceiveAnswer(a)
             \/ \E now, issued, expires \in 0..MaxSecond : ReadClock(now, issued, expires)
             \/ AskAgain \/ \E fault \in StoreFaults : Conclude(fault)
    BY <2>3, <2>4 DEF ReceiveAnswer, ReadClock, AskAgain, Conclude
  <2>5. CASE \/ \E slot \in Slots : (\E n \in 1..MaxPage : StartList(slot, n))
                                   \/ (\E id \in Ids : StartFetch(slot, id))
             \/ Return \/ (\E id \in Ids : Delete(id)) \/ UNCHANGED vars
    BY <2>3, <2>5 DEF StartList, StartFetch, Return, Delete, vars, token
  <2>6. CASE Answer
    BY <2>3, <2>6 DEF Answer, ReceiveList, FinishPage, RefuseEntry, Hydrate, ReceiveMetadata,
                      ReceiveRaw, Finish, token
  <2> QED
    BY <2>1, <2>2, <2>4, <2>5, <2>6 DEF Next
<1>2. asked' \in Requests \cup {None}
      /\ times' \in {None} \cup [now : 0..MaxSecond, issued : 0..MaxSecond, expires : 0..MaxSecond]
  BY DEF IInv, Proceeds
<1>3. EndType'
  <2>1. IInv' => EndType'
    BY EndsTyped, PTL
  <2> QED
    BY <2>1
<1>4. storeFault' \in StoreFaults
  BY DEF IInv
<1> QED
  BY <1>1, <1>2, <1>3, <1>4 DEF BrokerTypes, EndType

\* A session is opened by a call that has ended, with the owner of its token.
LEMMA SessionTypesStep ==
    ASSUME SessionTypes, IInv, IInv', [Next]_vars
    PROVE  SessionTypes'
<1>1. ASSUME NEW slot \in Slots, NEW m, OpenSession(slot, m)
      PROVE  SessionTypes'
  <2>1. /\ ended # None /\ asked = "refresh" /\ ended.result = "ok" /\ EndCall
        /\ session' = [slot |-> slot, owner |-> answer.owner,
                       subject |-> TokenSuccess(answer).subject]
    BY <1>1 DEF OpenSession
  <2>2. /\ ended = Refresh(answer, times, requested, storeFault)
        /\ answer \in AnswersTo("refresh", held) /\ storeFault \in StoreFaults
    BY <2>1, Ends, UnaskedFacts DEF IInv
  <2>3. answer \in Successes
    BY <2>1, <2>2, RefreshFacts, AnswerFacts, RefreshOutcomes DEF Requests
  <2>4. session'.owner \in Subjects /\ session'.slot \in Slots
    BY <2>1, <2>3, SuccessFacts
  <2>5. session' # None => session'.subject \in Texts
    BY <2>4 DEF IInv, Texts
  <2> QED
    BY <2>1, <2>4, <2>5 DEF SessionTypes, EndCall, NoCall
<1>2. CASE session # None /\ UNCHANGED session
  <2>1. NoCall
    BY <1>2 DEF SessionTypes
  <2>2. ~\E slot \in Slots, m \in [Ids -> Threads \cup {None}] : OpenSession(slot, m)
    BY <2>1 DEF NoCall, OpenSession
  <2>3. UNCHANGED token
    BY <1>2, <2>1, <2>2 DEF NoCall, Next, vars, Ask, EndUnasked, ReceiveAnswer, ReadClock,
           NeedsClock, AskAgain, Conclude, Dismiss, StartList, StartFetch, Answer, Return, Delete,
           ReceiveList, FinishPage, RefuseEntry, Hydrate, ReceiveMetadata, ReceiveRaw
  <2> QED
    BY <1>2, <2>1, <2>3 DEF SessionTypes, NoCall, token
<1>3. CASE session' = None
  BY <1>3 DEF SessionTypes
<1>4. \/ UNCHANGED session
      \/ \E slot \in Slots, m \in [Ids -> Threads \cup {None}] : OpenSession(slot, m)
  BY DEF Next, vars, Ask, EndUnasked, ReceiveAnswer, ReadClock, AskAgain, Conclude, Dismiss,
         StartList, StartFetch, Answer, Return, Delete, ReceiveList, FinishPage, RefuseEntry,
         Hydrate, ReceiveMetadata, ReceiveRaw
<1> QED
  BY <1>1, <1>2, <1>3, <1>4

LEMMA RequestErrors ==
    ASSUME NEW limit, NEW r \in Responses(limit)
    PROVE  RequestError(r, limit) \in RemoteMailboxError \cup {"none"}
  BY DEF RequestError, MapStatus, MapForbidden, RemoteMailboxError

LEMMA ErrorsTyped ==
    /\ \A e \in ListEnds : e \in RemoteMailboxError \cup {"none"}
    /\ \A id, limit : \A e \in EndsFor(id, limit) : e \in RemoteMailboxError \cup {"none"}
    /\ "InvalidResponse" \in RemoteMailboxError /\ "AuthorizationRequired" \in RemoteMailboxError
  BY RequestErrors DEF ListEnds, EndsFor, RemoteMailboxError

LEMMA StartTypes ==
    ASSUME MailboxTypes, NEW slot \in Slots,
           \/ \E n \in 1..MaxPage : StartList(slot, n)
           \/ \E id \in Ids : StartFetch(slot, id)
    PROVE  MailboxTypes'
<1>1. listing' = <<>> /\ page' = <<>> /\ at' = 0 /\ mail' = mail
  BY DEF StartList, StartFetch
<1>2. wanted' \in {None} \cup Ids \cup 1..MaxPage
  BY DEF StartList, StartFetch
<1>3. pc' \in {"list", "metadata", "done"} /\ error' \in RemoteMailboxError \cup {"none"}
  BY ErrorsTyped DEF StartList, StartFetch, Finish
<1> QED
  BY <1>1, <1>2, <1>3, PageAssumption DEF MailboxTypes

LEMMA ListTypes ==
    ASSUME MailboxTypes, CallInv, ReceiveList
    PROVE  MailboxTypes'
<1>1. wanted \in 1..MaxPage /\ UNCHANGED <<mail, wanted, page>>
  BY DEF ReceiveList, CallInv
<1>2. CASE \E listed \in Listings, next \in {None, NotAnId} :
               AcceptsList(listed, next) /\ listing' = listed /\ at' = 1 /\ pc' = "hydrate"
                 /\ UNCHANGED error
  <2>1. PICK listed \in Listings : listing' = listed /\ Len(listed) <= wanted
    BY <1>2 DEF AcceptsList
  <2>2. PICK n \in 0..(wanted + 1) : listed \in [1..n -> Listable]
    BY DEF Listings
  <2>3. n \in Nat /\ Listable \subseteq Listed
    BY <1>1, <2>2, PageAssumption DEF Listable, Listed
  <2>4. listing' \in Seq(Listed)
    BY <2>1, <2>2, <2>3
  <2>5. Len(listing') <= MaxPage
    BY <1>1, <2>1, <2>4, PageAssumption
  <2> QED
    BY <1>1, <1>2, <2>4, <2>5, PageAssumption DEF MailboxTypes
<1>3. CASE UNCHANGED <<listing, at>> /\ \E e \in ListEnds \cup {"InvalidResponse"} : Finish(e)
  BY <1>1, <1>3, ErrorsTyped DEF MailboxTypes, Finish
<1> QED
  BY <1>2, <1>3 DEF ReceiveList

LEMMA HydrateTypes ==
    ASSUME MailboxTypes, CallInv, Hydrate
    PROVE  MailboxTypes'
<1>1. /\ UNCHANGED <<mail, wanted, listing>>
      /\ at \in Nat \ {0} /\ at <= Len(listing) /\ Hydrated(at - 1)
      /\ listing \in Seq(Listed) /\ Len(listing) <= MaxPage /\ pc = "hydrate"
  BY DEF Hydrate, Requested, CallInv, MailboxTypes
<1>2. page \in Seq(Envelopes) /\ Len(page) < MaxPage /\ at + 1 \in 0..(MaxPage + 1)
  BY <1>1, PageAssumption DEF Hydrated
<1>3. ASSUME NEW m \in Metadata, Fitting(m, listing[at])
      PROVE  [id |-> m.id, thread |-> m.thread] \in Envelopes
  BY <1>3 DEF Fitting, EnvelopeFrom, IsIdentifier, Metadata, Envelopes
<1>4. CASE at' = at + 1 /\ UNCHANGED <<pc, error>>
  <2>1. \/ page' = page
        \/ \E m \in Metadata : /\ Fitting(m, listing[at])
                               /\ page' = Append(page, [id |-> m.id, thread |-> m.thread])
    BY <1>1, <1>4 DEF Hydrate, Finish
  <2>2. ASSUME NEW entry \in Envelopes, page' = Append(page, entry)
        PROVE  page' \in Seq(Envelopes) /\ Len(page') <= MaxPage
    <3>1. Append(page, entry) \in Seq(Envelopes) /\ Len(Append(page, entry)) = Len(page) + 1
      BY <1>2
    <3>2. Len(page) \in Nat
      BY <1>2
    <3> QED
      BY <1>2, <2>2, <3>1, <3>2, PageAssumption
  <2>3. \/ page' = page
        \/ \E entry \in Envelopes : page' = Append(page, entry)
    BY <1>3, <2>1
  <2>4. page' \in Seq(Envelopes) /\ Len(page') <= MaxPage
    <3>1. page' = page => page' \in Seq(Envelopes) /\ Len(page') <= MaxPage
      BY <1>2, PageAssumption
    <3> QED
      BY <2>2, <2>3, <3>1
  <2> QED
    BY <1>1, <1>2, <1>4, <2>4 DEF MailboxTypes
<1>5. CASE UNCHANGED <<page, at>> /\ pc' = "done" /\ error' \in RemoteMailboxError \cup {"none"}
  BY <1>1, <1>5 DEF MailboxTypes
<1> QED
  BY <1>4, <1>5, ErrorsTyped DEF Hydrate, Finish

LEMMA FetchTypes ==
    ASSUME MailboxTypes, CallInv, ReceiveMetadata \/ ReceiveRaw
    PROVE  MailboxTypes'
<1>1. UNCHANGED <<mail, wanted, listing, at>>
  BY DEF ReceiveMetadata, ReceiveRaw
<1>2. CASE \E m \in Metadata : /\ EnvelopeFrom(m, wanted) /\ pc' = "raw" /\ UNCHANGED error
                               /\ page' = <<[id |-> m.id, thread |-> m.thread]>>
  <2>1. PICK m \in Metadata : /\ EnvelopeFrom(m, wanted) /\ pc' = "raw" /\ UNCHANGED error
                              /\ page' = <<[id |-> m.id, thread |-> m.thread]>>
    BY <1>2
  <2>2. [id |-> m.id, thread |-> m.thread] \in Envelopes
    BY <2>1 DEF EnvelopeFrom, IsIdentifier, Metadata, Envelopes
  <2>3. page' \in Seq(Envelopes) /\ Len(page') <= MaxPage
    BY <2>1, <2>2, PageAssumption
  <2> QED
    BY <1>1, <2>1, <2>3 DEF MailboxTypes
<1>3. CASE UNCHANGED page /\ pc' = "done" /\ error' \in RemoteMailboxError \cup {"none"}
  BY <1>1, <1>3 DEF MailboxTypes
<1> QED
  BY <1>2, <1>3, ErrorsTyped DEF ReceiveMetadata, ReceiveRaw, Finish

LEMMA MailboxTypesStep ==
    ASSUME MailboxTypes, CallInv, [Next]_vars
    PROVE  MailboxTypes'
<1>1. CASE \E slot \in Slots : (\E n \in 1..MaxPage : StartList(slot, n))
                              \/ (\E id \in Ids : StartFetch(slot, id))
  BY <1>1, StartTypes
<1>2. CASE Answer
  <2>1. CASE FinishPage \/ RefuseEntry
    BY <2>1, ErrorsTyped DEF FinishPage, RefuseEntry, Finish, MailboxTypes
  <2> QED
    BY <1>2, <2>1, ListTypes, HydrateTypes, FetchTypes DEF Answer
<1>3. CASE Return
  BY <1>3, PageAssumption DEF Return, MailboxTypes
<1>4. CASE UNCHANGED call /\ mail' \in [Ids -> Threads \cup {None}]
  BY <1>4 DEF MailboxTypes, call
<1>5. CASE \E slot \in Slots, m \in [Ids -> Threads \cup {None}] : OpenSession(slot, m)
  BY <1>4, <1>5 DEF OpenSession
<1>6. CASE \E id \in Ids : Delete(id)
  BY <1>4, <1>6 DEF Delete, MailboxTypes
<1>7. CASE UNCHANGED <<mail, call>>
  BY <1>4, <1>7 DEF MailboxTypes
<1>8. CASE \/ \E request \in Requests, who, owner \in Subjects \cup {None} :
                \/ Ask(request, who, owner)
                \/ \E e \in OAuthError, fault \in StoreFaults :
                      EndUnasked(request, who, owner, e, fault)
           \/ \E a \in AnswersTo(asked, held) : ReceiveAnswer(a)
           \/ \E now, issued, expires \in 0..MaxSecond : ReadClock(now, issued, expires)
           \/ AskAgain \/ Dismiss \/ \E fault \in StoreFaults : Conclude(fault)
           \/ UNCHANGED vars
  <2>1. ASSUME NEW request, NEW who, NEW owner,
               \/ Ask(request, who, owner)
               \/ \E e \in OAuthError, fault \in StoreFaults :
                     EndUnasked(request, who, owner, e, fault)
        PROVE  UNCHANGED <<mail, call>>
    BY <2>1 DEF Ask, EndUnasked
  <2>2. ASSUME \/ \E a \in AnswersTo(asked, held) : ReceiveAnswer(a)
               \/ \E now, issued, expires \in 0..MaxSecond : ReadClock(now, issued, expires)
        PROVE  UNCHANGED <<mail, call>>
    BY <2>2 DEF ReceiveAnswer, ReadClock
  <2>3. ASSUME \/ AskAgain \/ Dismiss \/ \E fault \in StoreFaults : Conclude(fault)
               \/ UNCHANGED vars
        PROVE  UNCHANGED <<mail, call>>
    BY <2>3 DEF AskAgain, Dismiss, Conclude, vars
  <2> QED
    BY <1>7, <1>8, <2>1, <2>2, <2>3
<1> QED
  BY <1>1, <1>2, <1>3, <1>5, <1>6, <1>8 DEF Next

LEMMA InitTypeOK == Init => TypeOK
  BY PageAssumption DEF Init, NoCall, StoreFaults, TypeOK, BrokerTypes, SessionTypes, MailboxTypes

LEMMA StepTypeOK == TypeOK /\ IInv /\ CallInv /\ IInv' /\ [Next]_vars => TypeOK'
  BY BrokerTypesStep, SessionTypesStep, MailboxTypesStep DEF TypeOK

-----------------------------------------------------------------------------
(* The theorems.                                                            *)

\* The two invariants hold in every reachable state.
THEOREM Inductive == Spec => [](IInv /\ CallInv)
  BY InitIInv, StepIInv, InitCallInv, StepCallInv, PTL DEF Spec

\* Every variable keeps its type; among the rest, no broker call runs while a
\* session is open, and no listing or page outgrows the largest page size.
THEOREM TypeCorrect == Spec => []TypeOK
  BY Inductive, InitTypeOK, StepTypeOK, PTL DEF Spec

\* Whatever Google answers and the store does, what an error says of the
\* stored credential is so.
THEOREM StoredAsToldCorrect == Spec => []ErrorsSayWhatIsStored
  BY Inductive, StoredAsTold, PTL

\* Whichever step of a sign-in fails, the grant is revoked exactly if Google gave
\* it to a known account that the store, which could be read, had nothing for.
THEOREM StrandedRevokedCorrect == Spec => []StrandedIsRevoked
  BY Inductive, StrandedRevoked, PTL

\* The mailbox that a session reads is of the subject it is recorded under, and
\* a credential that is stored or handed out of the one it is filed under.
THEOREM OwnerCorrect == Spec => []SubjectIsOwner
  BY Inductive, TypeCorrect, OwnSubject, PTL

\* Saturation at the largest second spoils no verdict on an identity's age.
THEOREM FreshnessCorrect == Spec => []FreshnessExact
<1>1. IInv => FreshnessExact
  <2> SUFFICES ASSUME times # None,
                      times \in [now : 0..MaxSecond, issued : 0..MaxSecond,
                                 expires : 0..MaxSecond]
               PROVE  FreshnessExact
    BY DEF IInv, Proceeds, FreshnessExact
  <2>1. times.now \in 0..MaxSecond /\ times.issued \in 0..MaxSecond
          /\ times.expires \in 0..MaxSecond
    OBVIOUS
  <2> QED
    BY <2>1, ClockAssumption DEF FreshnessExact, IsFresh, SaturatingAdd
<1> QED
  BY Inductive, <1>1, PTL

\* A page or a message that is returned is what was asked for and all of it,
\* but for what was deleted, however the mailbox changes between the requests.
THEOREM ResultsCorrect == Spec => []ResultsAreWhole
<1>1. CallInv => ResultsAreWhole
  <2> SUFFICES ASSUME CallInv
               PROVE  PageComplete
    BY DEF ResultsAreWhole, CallInv
  <2> SUFFICES ASSUME pc = "done", error = "none", wanted \in 1..MaxPage
               PROVE  PageComplete
    BY DEF PageComplete
  <2>1. Hydrated(Len(listing))
    BY DEF CallInv
  <2>2. Len(page) <= wanted /\ DOMAIN listing = 1..Len(listing)
    BY <2>1, PageAssumption DEF Hydrated
  <2> QED
    BY <2>1, <2>2 DEF Hydrated, Upto, PageComplete
<1> QED
  BY Inductive, <1>1, PTL
=============================================================================

--------------------------- MODULE BrokerAnswers ---------------------------
(***************************************************************************)
(* What one call of the token broker ends with, given what Google answered *)
(* and what the credential store did (adapters/token-broker-core/src/      *)
(* broker.rs, error.rs, ports.rs, subject.rs): the error that is reported, *)
(* the credential that is then stored, and whether the grant was revoked;  *)
(* and what the flows make of the error (adapters/sync-runtime/src/        *)
(* flows.rs). TokenBroker has the same calls running concurrently.         *)
(*                                                                         *)
(* The stored credential is "none", "old" - what was there before the      *)
(* call - or "new": the one that came with the answer.                     *)
(***************************************************************************)
EXTENDS TokenAnswers

BrokerError ==
    {"InvalidInput", "InvalidConfiguration", "Unavailable", "Busy", "SessionUnknown",
     "ProviderRejected", "AuthorizationCodeRejected", "Transport", "MalformedResponse",
     "InsufficientScope", "IdentityUnverified", "IdentityMismatch", "MissingRefreshToken",
     "ConsentRevoked", "PersistenceFailed", "RevokeUnconfirmed"}

Stored == {"none", "old", "new"}

\* What the store does: no error, an error when it is read (or an unusable
\* item, RefreshTokenStoreError::Invalid), an error when it is written.
StoreFaults == {"none", "load", "write"}

Ended(result, stored, revokes) == [result |-> result, stored |-> stored, revokes |-> revokes]

\* ValidatedSubject::new, of a text of the token layer or of the caller.
ValidSubject(text) == text \notin {"blank", "oversized", "spaced"}

-----------------------------------------------------------------------------
(* The callback of a sign-in, before anything is exchanged.                 *)

OAuthError ==
    {"InvalidConfiguration", "EntropyUnavailable", "MissingParameter", "DuplicateParameter",
     "ConflictingCallback", "ProviderRejected", "InsufficientScope", "RedirectMismatch",
     "StateMismatch", "Expired", "NotExpired", "AlreadyConsumed"}

MapOAuthError(e) ==
    CASE e \in {"InvalidConfiguration", "ProviderRejected", "InsufficientScope"} -> e
      [] e \in {"Expired", "AlreadyConsumed"} -> "SessionUnknown"
      [] e \in {"MissingParameter", "DuplicateParameter", "ConflictingCallback",
                "RedirectMismatch", "StateMismatch"} -> "InvalidInput"
      [] OTHER -> "Unavailable"

\* The errors of the token layer have the names of the broker's.
TokenError ==
    {"InvalidConfiguration", "Transport", "ProviderRejected", "AuthorizationCodeRejected",
     "MalformedResponse", "InsufficientScope", "ConsentRevoked", "IdentityUnverified"}

MapTokenError(e) == IF e \in TokenError THEN e ELSE "Unavailable"

-----------------------------------------------------------------------------
(* What a call does with an answer.                                         *)

\* broker_token: the access token and its lifetime are within their bounds.
BrokerToken(success) == success.access # "oversized" /\ success.lifetime = "usable"

\* Google revokes a grant with all its credentials.
LicensesRevoke(snapshot) == snapshot = "none"

\* A usable refresh token, or else a usable access token; the outcome says that
\* there is one.
RevokeHandle(success) == success.refresh = "usable" \/ success.access # "oversized"

\* (mutant of Stranded: a store that cannot be written is taken for an unknown one)
StrandedIfWritten(error, snapshot, success) ==
    Ended(error, snapshot,
          error # "PersistenceFailed" /\ LicensesRevoke(snapshot) /\ RevokeHandle(success))

\* revoke_stranded_grant, and the error.
Stranded(error, snapshot, success) ==
    Ended(error, snapshot, LicensesRevoke(snapshot) /\ RevokeHandle(success))

\* The identity is neither of the past nor of the future.
Fresh(t) == IsFresh(t.now, t.issued, t.expires)

\* complete_authorization, once the code was exchanged.
Complete(a, t, snapshot, fault) ==
    LET outcome == ExchangeOutcome(a)
        success == TokenSuccess(a)
        stranded(error) == Stranded(error, snapshot, success)
    IN  IF outcome # "Granted" THEN Ended(MapTokenError(outcome), snapshot, FALSE)
        ELSE IF ~ValidSubject(success.subject)
             THEN Ended("IdentityUnverified", snapshot, FALSE)
        ELSE IF fault = "load" THEN Ended("PersistenceFailed", snapshot, FALSE)
        ELSE IF ~Fresh(t) THEN stranded("IdentityUnverified")
        ELSE IF ~BrokerToken(success) THEN stranded("MalformedResponse")
        ELSE IF success.refresh = "absent" THEN stranded("MissingRefreshToken")
        ELSE IF success.refresh = "malformed" THEN stranded("MalformedResponse")
        ELSE IF fault = "write" THEN stranded("PersistenceFailed")
        ELSE Ended("ok", "new", FALSE)

\* (mutant of Rotates: only a call that succeeds keeps what it was given)
RotatesOnSuccess(a, t) == a.refresh # "absent" /\ GmailReadGranted(a) /\ Fresh(t) /\ BrokerToken(TokenSuccess(a))

\* The answer to a refresh came with another refresh token, to be stored before
\* anything else can fail.
Rotates(a, t) == a.refresh # "absent"

\* Stores the rotation, if there is one, and goes on with what the call is to
\* report.
Retain(a, t, fault, result) ==
    IF ~Rotates(a, t) THEN Ended(result, "old", FALSE)
    ELSE IF a.refresh = "malformed" THEN Ended("MalformedResponse", "old", FALSE)
    ELSE IF fault = "write" THEN Ended("PersistenceFailed", "old", FALSE)
    ELSE Ended(result, "new", FALSE)

\* (mutant of SameAccount: the answer is taken for that of the account asked for)
AnyAccount(success, requested) == TRUE

\* The identity of a refresh is still that of the account it was asked for.
SameAccount(success, requested) == success.subject = requested

\* refresh_access_token, once the stored credential was read and sent.
Refresh(a, t, requested, fault) ==
    LET outcome == RefreshOutcome(a)
    IN  IF outcome = "ConsentRevoked"
        THEN IF fault = "write" THEN Ended("PersistenceFailed", "old", FALSE)
             ELSE Ended("ConsentRevoked", "none", FALSE)
        ELSE IF outcome = "InsufficientScope" THEN Retain(a, t, fault, "InsufficientScope")
        ELSE IF outcome # "Granted" THEN Ended(MapTokenError(outcome), "old", FALSE)
        ELSE IF ~SameAccount(TokenSuccess(a), requested)
             THEN Ended("IdentityMismatch", "old", FALSE)
        ELSE Retain(a, t, fault, IF ~Fresh(t) THEN "IdentityUnverified"
                                 ELSE IF ~BrokerToken(TokenSuccess(a)) THEN "MalformedResponse" ELSE "ok")

\* Google says so, or that the grant is gone already.
Confirms(a) == RevokeError(a) \in {"none", "InvalidGrant", "InvalidToken"}

\* revoke_provider_grant, after its first request or after the second.
Revoke(a) ==
    IF Confirms(a) THEN Ended("ok", "old", TRUE) ELSE Ended("RevokeUnconfirmed", "old", FALSE)

\* What a call that asks Google for nothing ends with: what is stored, or its
\* absence, decides.
Unasked(request, snapshot, fault) ==
    IF fault = "load" THEN Ended("PersistenceFailed", snapshot, FALSE)
    ELSE Ended(IF request = "refresh" THEN "MissingRefreshToken" ELSE "ok", snapshot, FALSE)

-----------------------------------------------------------------------------
(* flows.rs: what the person is told.                                       *)

FlowError == {"revoked", "failed", "none"}

Told(result) ==
    CASE result \in {"ConsentRevoked", "MissingRefreshToken"} -> "revoked"
      [] result = "ok" -> "none"
      [] OTHER -> "failed"
=============================================================================

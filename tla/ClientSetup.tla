----------------------------- MODULE ClientSetup -----------------------------
(***************************************************************************)
(* The OAuth client on its way from the configuration to Google. Each      *)
(* layer validates it again for itself: the program                        *)
(* (apps/tersa/src/config.rs), the runtime (sync-runtime/src/flows.rs),    *)
(* the broker (token-broker-core/src/broker.rs), the authorization and the *)
(* token layer (crates/application/src/oauth.rs, token.rs).                *)
(*                                                                         *)
(* A text is absent, blank or set. A URL is http://127.0.0.1, no other is  *)
(* ever made; it has a port, 0 for the one a URL need not name, and what   *)
(* is written beside it.                                                   *)
(***************************************************************************)
EXTENDS Integers

SESSION_TTL == 600
MAX_SESSION_TTL == 3600
MIN_LOOPBACK_PORT == 1024
HTTP_PORT == 80

Settings == {"absent", "blank", "set"}
ClientTexts == [id : Settings, secret : Settings]

-----------------------------------------------------------------------------
(* The configuration.                                                       *)

\* The environment hides the file, even where what it says is blank.
Setting(env, file) == IF env = "absent" THEN file ELSE env

\* A blank text is none.
Given(text) == IF text = "blank" THEN "absent" ELSE text

\* Config::load, where the file says `section` and the environment `env`.
ConfiguredClient(section, env) ==
    [id |-> Given(Setting(env.id, section.id)),
     secret |-> Given(Setting(env.secret, section.secret))]

\* Config::oauth_client: the secret is not asked for.
OAuthClient(client) == client.id # "absent"

-----------------------------------------------------------------------------
(* The broker.                                                              *)

BrokerCore(client, ttl) ==
    /\ client.id # "blank" /\ client.secret # "blank"
    /\ ttl \in 1..MAX_SESSION_TTL

\* Runtime::new, but for its HTTP stack.
Runtime(client) == OAuthClient(client) /\ BrokerCore(client, SESSION_TTL)

-----------------------------------------------------------------------------
(* The redirect.                                                            *)

Url(port, beside) == [port |-> port, beside |-> beside]

\* The one of the listener, whatever port it was given.
RedirectUri(port) == Url(port, {})

\* A parsed URL does not tell the default port from none.
Parsed(url) == [url EXCEPT !.port = IF @ = HTTP_PORT THEN 0 ELSE @]

ParseLoopbackRedirect(text) ==
    /\ Parsed(text).port >= MIN_LOOPBACK_PORT
    /\ text.beside = {}

Plain(url) == url.beside \cap {"credentials", "query", "fragment"} = {}

AuthorizationConfig(client, url, lifetime) ==
    client.id # "blank" /\ lifetime > 0 /\ Plain(url)

\* (mutant of TokenClientConfig: a Desktop client has a secret)
TokenClientConfigSecret(client, url) ==
    client.id # "blank" /\ client.secret = "set" /\ Plain(url)

\* The secret is optional.
TokenClientConfig(client, url) ==
    client.id # "blank" /\ client.secret # "blank" /\ Plain(url)

\* What begin_authorization checks before it draws a session; the completion
\* makes the same token configuration again.
BeginAuthorization(client, port) ==
    LET redirect == Parsed(RedirectUri(port))
    IN  /\ ParseLoopbackRedirect(RedirectUri(port))
        /\ AuthorizationConfig(client, redirect, SESSION_TTL)
        /\ TokenClientConfig(client, redirect)

\* A refresh names no redirect; one without a port stands in.
RefreshClientConfig(client) == TokenClientConfig(client, Url(0, {}))
=============================================================================

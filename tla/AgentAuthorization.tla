------------------------- MODULE AgentAuthorization -------------------------
(***************************************************************************)
(* How a message of an agent gets past the provider's check of its bearer  *)
(* token, and what the consumer does when it is refused: tokens of an      *)
(* identity provider (IdP) are cached, expire, and are asked for anew once *)
(* per attempt; a WebSocket attempt that fails is followed by one over     *)
(* HTTP.  Refusals look different on the two channels: an HTTP response    *)
(* has a status, a WebSocket gets an ordinary message and is closed.       *)
(***************************************************************************)
EXTENDS Integers

CONSTANT MaxTokens   \* bound: how many tokens the IdP issues

ASSUME MaxTokensAssumption == MaxTokens \in Nat \ {0}

Channels == {"websocket", "http"}

\* A header names no token, the token of the consumer's environment or
\* configuration, or a token of the IdP.
NoToken == 0
OwnToken == -1
IdpTokens == 1 .. MaxTokens
Headers == {NoToken, OwnToken} \cup IdpTokens

\* How provider and consumer are configured: provider.opamp-use-authorization,
\* the provider's OPAMP_AUTH_STATIC_TOKEN, consumer.server-authorization,
\* whether the consumer has a token of its own and consumer.transport; and
\* whether a gateway in front of the provider checks tokens of the IdP.
Setups == [provider : {"none", "config-token", "idp"},
           staticToken : {"unset", "same", "other"},
           consumer : {"none", "env-var", "config-var", "idp"},
           ownToken : BOOLEAN,
           transport : Channels,
           gateway : BOOLEAN]

VARIABLES setup,      \* never changes
          issued,     \* tokens that the IdP has issued: 1 .. issued
          expired,    \* those it would not accept any more
          idpUp,      \* the IdP answers requests for tokens and for its keys
          barred,     \* the agent is blocked, or has to be approved first
          cached,     \* config.server_authorization_header_value
          sending,    \* where the consumer's send() is
          handledOn,  \* how often the message of this send() was handled
          answer      \* what the last send() got

authorizationVars ==
    <<setup, issued, expired, idpUp, barred, cached, sending, handledOn, answer>>

NotSending == [at |-> "idle", channel |-> "http", forced |-> FALSE, header |-> NoToken]

AuthorizationTypeOK ==
    /\ setup \in Setups
    /\ issued \in 0 .. MaxTokens
    /\ expired \subseteq 1 .. issued
    /\ idpUp \in BOOLEAN
    /\ barred \in {"no", "blocked", "pending"}
    /\ cached \in {NoToken, OwnToken} \cup 1 .. issued
    /\ sending \in [at : {"idle", "resolve", "request"}, channel : Channels,
                    forced : BOOLEAN, header : Headers]
    /\ (sending.at = "request" /\ sending.header = NoToken) => setup.consumer = "none"
    /\ handledOn \in [Channels -> 0 .. 2]
    /\ answer \in {"none", "handled", "error", "failed"}

AuthorizationInit ==
    /\ setup \in Setups
    /\ issued = 0
    /\ expired = {}
    /\ idpUp = TRUE
    /\ barred = "no"
    /\ cached = NoToken
    /\ sending = NotSending
    /\ handledOn = [c \in Channels |-> 0]
    /\ answer = "none"

-----------------------------------------------------------------------------
\* The provider's decision: auth.evaluate_required_bearer_auth with the mode of
\* evaluate_opamp_transport_auth.

\* _validate_jwt_token: while the IdP is away its keys may or may not be cached.
JwtValid(header) ==
    IF header \in IdpTokens \ expired
    THEN IF idpUp THEN {TRUE} ELSE BOOLEAN
    ELSE {FALSE}

\* Possible statuses: 200 stands for "allowed".
Decisions(header) ==
    CASE setup.provider = "none" -> {200}
      [] setup.provider # "none" /\ header = NoToken -> {401}
      [] setup.provider = "config-token" /\ header # NoToken ->
            IF setup.staticToken = "unset" THEN {503}
            ELSE IF setup.staticToken = "same" /\ header = OwnToken THEN {200} ELSE {401}
      [] setup.provider = "idp" /\ header # NoToken ->
            {IF valid THEN 200 ELSE 401 : valid \in JwtValid(header)}

\* What becomes of a request: the gateway answers with a status before the
\* provider sees it.  Over HTTP the provider looks for a block, then at the token,
\* then for the approval; over WebSocket at the token first, and there it has no
\* status to answer with.
HttpOutcomes ==
    IF barred = "blocked" THEN {403}
    ELSE {IF status = 200 /\ barred = "pending" THEN 403 ELSE status :
             status \in Decisions(sending.header)}

WebSocketOutcomes ==
    {IF status = 200 /\ barred = "no" THEN 200 ELSE 1008 : status \in Decisions(sending.header)}

Outcomes ==
    IF setup.gateway /\ FALSE \in JwtValid(sending.header) THEN {401}
    ELSE IF sending.channel = "http" THEN HttpOutcomes ELSE WebSocketOutcomes

-----------------------------------------------------------------------------
\* The consumer

\* send: after a WebSocket attempt that raised comes one over HTTP.
AttemptRaises ==
    IF sending.channel = "websocket"
    THEN /\ sending' = [NotSending EXCEPT !.at = "resolve"]
         /\ UNCHANGED answer
    ELSE /\ sending' = NotSending
         /\ answer' = "failed"

Send ==
    /\ sending.at = "idle"
    /\ sending' = [NotSending EXCEPT !.at = "resolve", !.channel = setup.transport]
    /\ handledOn' = [c \in Channels |-> 0]
    /\ UNCHANGED <<setup, issued, expired, idpUp, barred, cached, answer>>

Request(header) ==
    /\ sending' = [sending EXCEPT !.at = "request", !.header = header]
    /\ cached' = header
    /\ UNCHANGED answer

\* _resolve_authorization_header_value for the modes that ask nobody.
ResolveOwnHeader ==
    /\ sending.at = "resolve"
    /\ \/ /\ setup.consumer = "none"
          /\ Request(NoToken)
       \/ /\ setup.consumer \in {"env-var", "config-var"}
          /\ setup.ownToken
          /\ Request(OwnToken)
       \/ /\ setup.consumer \in {"env-var", "config-var"}
          /\ ~setup.ownToken
          /\ AttemptRaises
          /\ UNCHANGED cached
    /\ UNCHANGED <<setup, issued, expired, idpUp, barred, handledOn>>

UsesCachedHeader == cached # NoToken /\ ~sending.forced

ResolveCachedHeader ==
    /\ sending.at = "resolve"
    /\ setup.consumer = "idp"
    /\ UsesCachedHeader
    /\ Request(cached)
    /\ UNCHANGED <<setup, issued, expired, idpUp, barred, handledOn>>

\* _refresh_idp_authorization_header.  The bound lets the last token live on.
RefreshIdpHeader ==
    /\ sending.at = "resolve"
    /\ setup.consumer = "idp"
    /\ ~UsesCachedHeader
    /\ IF idpUp
       THEN /\ issued' = IF issued < MaxTokens THEN issued + 1 ELSE issued
            /\ Request(issued')
       ELSE /\ AttemptRaises
            /\ UNCHANGED <<issued, cached>>
    /\ UNCHANGED <<setup, expired, idpUp, barred, handledOn>>

\* Seeded error: 401 is forgotten.
FaultyAuthRetryStatusCodes == {403}

\* _should_retry_idp_authorization
AuthRetryStatusCodes == {401, 403}

\* Seeded error: any failure is taken for a refusal.
FaultyRetriesWith(status) == setup.consumer = "idp" /\ ~sending.forced

RetriesWith(status) ==
    /\ setup.consumer = "idp"
    /\ ~sending.forced
    /\ status \in AuthRetryStatusCodes

\* An attempt ends with an exception; status 0 is one without a status.
RequestFails(status) ==
    IF RetriesWith(status)
    THEN /\ sending' = [sending EXCEPT !.at = "resolve", !.forced = TRUE]
         /\ UNCHANGED answer
    ELSE AttemptRaises

\* The provider handles the message, and its reply arrives ...
MessageHandled ==
    /\ handledOn' = [handledOn EXCEPT ![sending.channel] = @ + 1]
    /\ sending' = NotSending
    /\ answer' = "handled"

\* ... or is lost.
HandledInVain ==
    /\ handledOn' = [handledOn EXCEPT ![sending.channel] = @ + 1]
    /\ RequestFails(0)

\* raise_for_status, or a refused upgrade of a WebSocket.
RefusedWithStatus(status) ==
    /\ RequestFails(status)
    /\ UNCHANGED handledOn

\* The provider accepts the WebSocket, sends an error message and closes.  The
\* consumer takes the message for its reply if it comes to read it; its own
\* message may instead meet the closed connection.
RefusedOverWebSocket ==
    /\ \/ sending' = NotSending /\ answer' = "error"
       \/ RequestFails(0)
    /\ UNCHANGED handledOn

RequestAnswered ==
    /\ sending.at = "request"
    /\ \E outcome \in Outcomes :
          \/ outcome = 200 /\ MessageHandled
          \/ outcome \in {401, 403, 503} /\ RefusedWithStatus(outcome)
          \/ outcome = 1008 /\ RefusedOverWebSocket
    /\ UNCHANGED <<setup, issued, expired, idpUp, barred, cached>>

\* The request or its answer is lost.
RequestLost ==
    /\ sending.at = "request"
    /\ \/ RequestFails(0) /\ UNCHANGED handledOn
       \/ 200 \in Outcomes /\ HandledInVain
    /\ UNCHANGED <<setup, issued, expired, idpUp, barred, cached>>

-----------------------------------------------------------------------------
\* Outside the consumer

TokenExpires ==
    /\ \E t \in (1 .. issued) \ expired :
          /\ t < MaxTokens
          /\ expired' = expired \cup {t}
    /\ UNCHANGED <<setup, issued, idpUp, barred, cached, sending, handledOn, answer>>

IdpComesOrGoes ==
    /\ idpUp' = ~idpUp
    /\ UNCHANGED <<setup, issued, expired, barred, cached, sending, handledOn, answer>>

OperatorBlocksOrApproves ==
    /\ barred' \in {"no", "blocked", "pending"} \ {barred}
    /\ UNCHANGED <<setup, issued, expired, idpUp, cached, sending, handledOn, answer>>

AuthorizationNext ==
    \/ Send
    \/ ResolveOwnHeader \/ ResolveCachedHeader \/ RefreshIdpHeader
    \/ RequestAnswered \/ RequestLost
    \/ TokenExpires \/ IdpComesOrGoes \/ OperatorBlocksOrApproves

\* The heartbeat loop sends again and again, and not every request is lost.
AuthorizationFairness ==
    /\ WF_authorizationVars(Send)
    /\ WF_authorizationVars(ResolveOwnHeader)
    /\ WF_authorizationVars(ResolveCachedHeader)
    /\ WF_authorizationVars(RefreshIdpHeader)
    /\ SF_authorizationVars(RequestAnswered)

AuthorizationSpec ==
    AuthorizationInit /\ [][AuthorizationNext]_authorizationVars /\ AuthorizationFairness

-----------------------------------------------------------------------------
\* Properties

\* Asking for a new token and trying again does not make the provider handle a
\* message twice on one channel: only what was refused is repeated
\* (abstract_client.py:261-278, 409-426).
RetryIsNotARepetition == \A c \in Channels : handledOn[c] <= 1

\* The shape of the state, with no request that lacks a token its setup wants, and
\* no message handled twice on a channel (abstract_client.py:241-278, 587-623).
AuthorizationInvariant == AuthorizationTypeOK /\ RetryIsNotARepetition

\* A consumer that has its tokens from the IdP, and a check that can tell it with
\* a status: the provider's over HTTP, or a gateway's on either channel.
RefusedWithAStatus ==
    /\ setup.consumer = "idp"
    /\ \/ setup.provider = "idp" /\ setup.transport = "http" /\ ~setup.gateway
       \/ setup.provider = "none" /\ setup.gateway

\* Whatever tokens expire, an agent that the operator lets in is heard again and
\* again once the IdP stays up (consumer/README.md:161-163) ...
AgentsAreHeard ==
    (RefusedWithAStatus /\ <>[](idpUp /\ barred = "no")) => []<>(answer = "handled")
=============================================================================

------------------------------- MODULE Request -------------------------------
(***************************************************************************)
(* SalesforceClient (salesforce.cpp): one REST request at a time, with its *)
(* retry loop, the login it performs when Salesforce rejects the session,  *)
(* and the token request behind every login.                               *)
(*                                                                         *)
(*   "idle"     no request under way                                       *)
(*   "send"     the request, with the header built for this attempt, is    *)
(*              about to be sent                                           *)
(*   "backoff"  the driver sleeps before the next attempt                  *)
(*   "token"    authenticate waits for the login server                    *)
(*   "pause"    token_request sleeps before it asks again                  *)
(*                                                                         *)
(* Salesforce may end a session at any time.  An answer to a request       *)
(* stands for its class:                                                   *)
(*   "ok"  2xx                  "unparseable"   2xx, a body not JSON       *)
(*   "unauthorized"  401        "throttled"     429                        *)
(*   "gateway"  502, 503, 504   "internal"      500 and other 5xx          *)
(*   "refused"  other 4xx                                                  *)
(*   "dropped"  transport error is_retryable_transport knows               *)
(*   "broken"   another transport error                                    *)
(***************************************************************************)
EXTENDS Integers

CONSTANTS
    MaxRetries,   \* the connection string's MaxRetries
    AuthTypes,    \* the authentication types configurations use
    Instances,    \* the instance URLs a login may be told to use
    NoInstance,   \* instance_url_ before the first login
    MaxTokens     \* bound: access tokens the login server issues

TokenRetries == 2   \* token_request retries while attempt < 2

Answers == {"ok", "unparseable", "unauthorized", "throttled", "gateway", "internal", "refused",
            "dropped", "broken"}

LoginAnswers == {"ok", "insecure", "refused", "server_error", "transport"}

ASSUME RequestConstants ==
    /\ MaxRetries \in Int
    /\ MaxTokens \in Nat
    /\ AuthTypes \subseteq {"login", "AccessToken"}
    /\ Instances # {} /\ NoInstance \notin Instances

VARIABLES
    pc,             \* see above
    auth_type,      \* auth_type_: "AccessToken", or "login" for the flows with a token request
    connected,      \* the connection has been opened
    access_token,   \* access_token_, the number of the token; 0: none
    instance_url,   \* instance_url_
    live,           \* the tokens Salesforce accepts
    url,            \* the instance the URL of this request names
    bearer,         \* the token in the header of this attempt
    attempt,        \* attempt, in request
    reauthed,       \* reauthed, in request
    token_attempt,  \* attempt, in token_request
    outcome,        \* how the last request or login ended
    issued,         \* tokens issued so far
    sends,          \* history: times this request was sent
    started_with    \* history: tokens issued when this request started

clientVars == <<auth_type, connected>>
sessionVars == <<access_token, instance_url, live, issued>>
requestVars == <<url, bearer, attempt, reauthed, sends, started_with>>
vars == <<pc, clientVars, sessionVars, requestVars, token_attempt, outcome>>

Outcomes == Answers \cup {"none", "login_refused", "login_server_error", "login_transport"}

\* The budget of the retry loop, also for a negative MaxRetries.
Retries == IF MaxRetries > 0 THEN MaxRetries ELSE 0

\* (mutant) The header is built once, before the loop.
Iterate_same_header(n, token) ==
    /\ attempt' = n
    /\ bearer' = IF sends = 0 THEN token ELSE bearer
    /\ pc' = "send"

\* One pass through the loop of request starts: the header takes the token of the moment.
Iterate(n, token) ==
    /\ attempt' = n
    /\ bearer' = token
    /\ pc' = "send"

Finish(result) == pc' = "idle" /\ outcome' = result

------------------------------------------------------------------------------
(* Connecting *)

\* authenticate for the flows that ask the login server.
Connect ==
    /\ pc = "idle" /\ ~connected
    /\ auth_type = "login"
    /\ pc' = "token"
    /\ token_attempt' = 0
    /\ UNCHANGED <<clientVars, sessionVars, requestVars, outcome>>

\* ... and for AuthType=AccessToken: the connection string holds the token, number 1, and the
\* instance; nobody asks whether the session still lives.
ConnectAccessToken ==
    /\ pc = "idle" /\ ~connected
    /\ auth_type = "AccessToken"
    /\ issued = 0 => MaxTokens > 0
    /\ \E i \in Instances : instance_url' = i
    /\ access_token' = 1
    /\ issued' = 1
    /\ live' = IF issued = 0 THEN {1} ELSE live
    /\ connected' = TRUE
    /\ Finish("ok")
    /\ UNCHANGED <<auth_type, requestVars, token_attempt>>

\* authenticate finds a setting missing that its flow needs.
ConnectIncomplete ==
    /\ pc = "idle" /\ ~connected
    /\ Finish("login_refused")
    /\ UNCHANGED <<clientVars, sessionVars, requestVars, token_attempt>>

\* SQLDisconnect destroys the client.
Disconnect ==
    /\ pc = "idle" /\ connected
    /\ connected' = FALSE
    /\ access_token' = 0
    /\ instance_url' = NoInstance
    /\ UNCHANGED <<pc, auth_type, live, issued, requestVars, token_attempt, outcome>>

------------------------------------------------------------------------------
(* A request *)

\* (mutant) The URL of the first request is kept for those that follow.
Start_cached_url ==
    /\ pc = "idle" /\ connected
    /\ url' = IF url = NoInstance THEN instance_url ELSE url
    /\ Iterate(0, access_token)
    /\ reauthed' = FALSE
    /\ sends' = 0
    /\ started_with' = issued
    /\ UNCHANGED <<clientVars, sessionVars, token_attempt, outcome>>

\* request resolves its URL once, then enters the loop.
Start ==
    /\ pc = "idle" /\ connected
    /\ url' = instance_url
    /\ Iterate(0, access_token)
    /\ reauthed' = FALSE
    /\ sends' = 0
    /\ started_with' = issued
    /\ UNCHANGED <<clientVars, sessionVars, token_attempt, outcome>>

\* A URL of more than 16000 characters is refused before anything is sent.
StartTooLong ==
    /\ pc = "idle" /\ connected
    /\ Finish("refused")
    /\ UNCHANGED <<clientVars, sessionVars, requestVars, token_attempt>>

\* The answers Salesforce may give to a request with token t: a dead session is never served.
AnswersTo(t) == IF t \in live THEN Answers ELSE Answers \ {"ok", "unparseable"}

\* (mutant) Retries one time more than MaxRetries.
Retried_once_more(answer) == answer \in {"throttled", "gateway", "dropped"} /\ attempt <= Retries

\* (mutant) Gateway errors are taken for final.
Retried_not_gateway(answer) == answer \in {"throttled", "dropped"} /\ attempt < MaxRetries

\* The answers after which the loop backs off and goes round again.
Retried(answer) == answer \in {"throttled", "gateway", "dropped"} /\ attempt < MaxRetries

\* (mutant) Logs in again however often the session is rejected.
Reauthenticates_always(answer) == answer = "unauthorized" /\ auth_type # "AccessToken"

\* A rejected session is renewed once in a request.
Reauthenticates(answer) == answer = "unauthorized" /\ ~reauthed /\ auth_type # "AccessToken"

\* HttpClient::send, and what request does with its answer.
Send(answer) ==
    /\ pc = "send"
    /\ answer \in AnswersTo(bearer)
    /\ sends' = sends + 1
    /\ \/ /\ Reauthenticates(answer)
          /\ pc' = "token"
          /\ token_attempt' = 0
          /\ UNCHANGED outcome
       \/ /\ Retried(answer)
          /\ pc' = "backoff"
          /\ UNCHANGED <<outcome, token_attempt>>
       \/ /\ ~Reauthenticates(answer) /\ ~Retried(answer)
          /\ Finish(answer)
          /\ UNCHANGED token_attempt
    /\ UNCHANGED <<clientVars, sessionVars, url, bearer, attempt, reauthed, started_with>>

\* The sleep of backoff ends.
Retry ==
    /\ pc = "backoff"
    /\ Iterate(attempt + 1, access_token)
    /\ UNCHANGED <<clientVars, sessionVars, url, reauthed, sends, started_with, token_attempt, outcome>>

------------------------------------------------------------------------------
(* Logging in: token_request, and its caller authenticate *)

\* A token was issued.  do_connect is done, or request goes round again on the same attempt.
LoggedIn ==
    /\ issued < MaxTokens
    /\ issued' = issued + 1
    /\ access_token' = issued + 1
    /\ live' = live \cup {issued + 1}
    /\ \E i \in Instances : instance_url' = i
    /\ IF connected
         THEN /\ Iterate(attempt, issued + 1)
              /\ reauthed' = TRUE
              /\ UNCHANGED <<connected, outcome, url, sends, started_with>>
         ELSE /\ connected' = TRUE
              /\ Finish("ok")
              /\ UNCHANGED requestVars

\* A token was issued for an instance whose URL is not secure: authenticate throws when the
\* client has taken both over already.  A client that was connecting is destroyed.
LoggedInInsecurely ==
    /\ issued < MaxTokens
    /\ issued' = issued + 1
    /\ live' = live \cup {issued + 1}
    /\ IF connected
         THEN access_token' = issued + 1 /\ \E i \in Instances : instance_url' = i
         ELSE UNCHANGED <<access_token, instance_url>>
    /\ Finish("login_refused")
    /\ UNCHANGED <<connected, requestVars>>

\* (mutant) The rejected token is dropped before the new one is there.
LoginFails_drops_token(result) ==
    /\ Finish(result)
    /\ access_token' = 0
    /\ UNCHANGED <<connected, instance_url, live, issued, requestVars>>

\* A login that fails ends the connect or the request it was for; the client keeps its state.
LoginFails(result) ==
    /\ Finish(result)
    /\ UNCHANGED <<connected, sessionVars, requestVars>>

\* (mutant) Asks the login server one time more.
LoginRetried_once_more == token_attempt <= TokenRetries

\* Whether token_request asks again after a server error.
LoginRetried == token_attempt < TokenRetries

\* What token_request makes of an answer.  Only a server error is worth another try; "refused"
\* also stands for an assertion that cannot be built, which needs no answer.
Login(answer) ==
    /\ pc = "token"
    /\ \/ answer = "ok" /\ LoggedIn
       \/ answer = "insecure" /\ LoggedInInsecurely
       \/ /\ answer = "server_error" /\ LoginRetried
          /\ pc' = "pause"
          /\ UNCHANGED <<connected, sessionVars, requestVars, outcome>>
       \/ answer = "server_error" /\ ~LoginRetried /\ LoginFails("login_server_error")
       \/ answer = "refused" /\ LoginFails("login_refused")
       \/ answer = "transport" /\ LoginFails("login_transport")
    /\ UNCHANGED <<auth_type, token_attempt>>

\* (mutant) token_request starts counting again after each sleep.
LoginAgain_uncounted ==
    /\ pc = "pause"
    /\ pc' = "token"
    /\ UNCHANGED <<clientVars, sessionVars, requestVars, token_attempt, outcome>>

LoginAgain ==
    /\ pc = "pause"
    /\ pc' = "token"
    /\ token_attempt' = token_attempt + 1
    /\ UNCHANGED <<clientVars, sessionVars, requestVars, outcome>>

\* Salesforce ends a session.
Expire(t) ==
    /\ live' = live \ {t}
    /\ UNCHANGED <<pc, clientVars, access_token, instance_url, issued, requestVars, token_attempt, outcome>>

------------------------------------------------------------------------------
Init ==
    /\ pc = "idle"
    /\ auth_type \in AuthTypes
    /\ connected = FALSE
    /\ access_token = 0
    /\ instance_url = NoInstance
    /\ live = {}
    /\ url = NoInstance
    /\ bearer = 0
    /\ attempt = 0
    /\ reauthed = FALSE
    /\ token_attempt = 0
    /\ outcome = "none"
    /\ issued = 0
    /\ sends = 0
    /\ started_with = 0

\* What a call that is under way does next.
Work ==
    \/ \E a \in Answers : Send(a)
    \/ Retry
    \/ \E a \in LoginAnswers : Login(a)
    \/ LoginAgain

Next ==
    \/ Connect \/ ConnectAccessToken \/ ConnectIncomplete \/ Disconnect
    \/ Start \/ StartTooLong
    \/ Work
    \/ \E t \in live : Expire(t)

Spec == Init /\ [][Next]_vars

\* Every request and every sleep ends (curl and the sleeps have time limits).
FairSpec == Spec /\ WF_vars(Work)

------------------------------------------------------------------------------
(* Properties *)

TypeOK ==
    /\ pc \in {"idle", "send", "backoff", "token", "pause"}
    /\ auth_type \in AuthTypes
    /\ connected \in BOOLEAN
    /\ access_token \in 0 .. issued
    /\ issued \in 0 .. MaxTokens
    /\ instance_url \in Instances \cup {NoInstance}
    /\ live \in SUBSET (1 .. issued)
    /\ url \in Instances \cup {NoInstance}
    /\ bearer \in 0 .. issued
    /\ attempt \in Nat
    /\ reauthed \in BOOLEAN
    /\ token_attempt \in 0 .. TokenRetries
    /\ outcome \in Outcomes
    /\ sends \in Nat
    /\ started_with \in 0 .. issued

\* A request reaches Salesforce at most MaxRetries + 1 times, and once more when its session
\* was renewed: failed logins, mixed kinds of errors and sessions that expire again while the
\* driver sleeps do not add up to more.
SendBudget == sends <= Retries + 1 + (IF reauthed THEN 1 ELSE 0)

\* The bookkeeping behind the budget: renewing the session costs no attempt.
AttemptCountsSends ==
    /\ attempt <= Retries
    /\ pc = "send" => sends = attempt + (IF reauthed THEN 1 ELSE 0)
    /\ pc = "backoff" => sends = attempt + 1 + (IF reauthed THEN 1 ELSE 0) /\ attempt < MaxRetries
    /\ pc \in {"token", "pause"} /\ connected => sends = attempt + 1 /\ ~reauthed

\* The application sees "unauthorized" from a connection that can log in only after the driver
\* obtained a new session during that very request and saw that one rejected too.
RejectedOnlyWithNewSession ==
    [][outcome' = "unauthorized" /\ pc = "send" /\ pc' = "idle" /\ auth_type = "login"
         => bearer > started_with]_vars

\* Throttling, gateway errors and dropped connections reach the application only when the
\* retries are used up.
TransientErrorsUseBudget ==
    [][pc = "send" /\ pc' = "idle" /\ outcome' \in {"throttled", "gateway", "dropped"}
         => attempt >= MaxRetries]_vars

\* Every attempt carries the newest session of the client, also after a login that happened
\* between two attempts; a request is never sent without one.
NewestSession == pc = "send" => bearer = access_token /\ bearer > 0

\* A request may go to another instance than the one the client uses now only after a login in
\* the middle of it: the URL is resolved once, the next request follows the new instance.
StaleInstanceOnlyAfterLogin == pc \in {"send", "backoff"} /\ url # instance_url => reauthed

\* A request and a login end, whatever Salesforce answers.
RequestEnds == pc # "idle" ~> pc = "idle"

\* README.md:138 says MaxRetries is for "429/5xx and transport errors".
RetriesEveryServerError ==
    [][pc = "send" /\ pc' = "idle" /\ outcome' \in {"throttled", "gateway", "internal"}
         => attempt >= MaxRetries]_vars
==============================================================================

---------------------------- MODULE Request_proofs ----------------------------
(* Proofs about Request: the retry budget and the session of a request, for every *)
(* number of retries, every set of instances and every number of tokens.          *)
EXTENDS Request, TLAPS

\* An open connection has a session, and only an open connection sends; one that was given its
\* token never asks the login server.  A request that renewed its session goes on with a token
\* that did not exist when it started.
SessionOfRequest ==
    /\ connected => access_token > 0
    /\ auth_type = "AccessToken" => issued <= 1 /\ pc \notin {"token", "pause"}
    /\ pc = "pause" => token_attempt < TokenRetries
    /\ pc \in {"send", "backoff"} =>
        /\ connected
        /\ reauthed => access_token > started_with

\* The inductive invariant: the sends are counted by the attempts, and the session of a
\* request under way is the client's.
IInv ==
    /\ TypeOK
    /\ SendBudget
    /\ AttemptCountsSends
    /\ NewestSession
    /\ StaleInstanceOnlyAfterLogin
    /\ SessionOfRequest

------------------------------------------------------------------------------
\* The budget is a number, also for a negative MaxRetries.
LEMMA RetriesType == Retries \in Nat
  BY RequestConstants DEF RequestConstants, Retries

\* A new client satisfies the invariant.
LEMMA InitEstablishesIInv == Init => IInv
  <1>. SUFFICES ASSUME Init PROVE IInv
    OBVIOUS
  <1>1. TypeOK
    <2>1. issued \in 0 .. MaxTokens /\ live \in SUBSET (1 .. issued)
      BY RequestConstants DEF RequestConstants, Init
    <2>2. /\ access_token \in 0 .. issued /\ bearer \in 0 .. issued /\ started_with \in 0 .. issued
          /\ token_attempt \in 0 .. TokenRetries /\ attempt \in Nat /\ sends \in Nat
      BY DEF Init, TokenRetries
    <2>3. /\ pc \in {"idle", "send", "backoff", "token", "pause"} /\ auth_type \in AuthTypes
          /\ connected \in BOOLEAN /\ reauthed \in BOOLEAN /\ outcome \in Outcomes
          /\ instance_url \in Instances \cup {NoInstance} /\ url \in Instances \cup {NoInstance}
      BY DEF Init, Outcomes
    <2>. QED
      BY <2>1, <2>2, <2>3 DEF TypeOK
  <1>2. SendBudget /\ AttemptCountsSends
    BY RetriesType DEF Init, SendBudget, AttemptCountsSends
  <1>3. NewestSession /\ StaleInstanceOnlyAfterLogin /\ SessionOfRequest
    BY DEF Init, NewestSession, StaleInstanceOnlyAfterLogin, SessionOfRequest
  <1>. QED
    BY <1>1, <1>2, <1>3 DEF IInv

\* Connecting, and the refusals that leave everything but the outcome alone.
LEMMA ConnectingKeepsIInv ==
    ASSUME IInv, Connect \/ ConnectAccessToken \/ ConnectIncomplete \/ Disconnect \/ StartTooLong
    PROVE  IInv'
  <1>. USE DEF IInv, clientVars, sessionVars, requestVars
  <1>1. CASE Connect
    <2>1. TypeOK'
      BY <1>1 DEF TypeOK, Connect, TokenRetries
    <2>2. SendBudget' /\ AttemptCountsSends' /\ NewestSession' /\ StaleInstanceOnlyAfterLogin'
          /\ SessionOfRequest'
      BY <1>1 DEF Connect, SendBudget, AttemptCountsSends, NewestSession, StaleInstanceOnlyAfterLogin,
                  SessionOfRequest, Retries
    <2>. QED
      BY <2>1, <2>2
  <1>2. CASE ConnectAccessToken
    <2>1. issued \in 0 .. 1 /\ issued \in 0 .. MaxTokens /\ MaxTokens \in Nat
      BY <1>2, RequestConstants DEF RequestConstants, TypeOK, SessionOfRequest, ConnectAccessToken
    <2>2. TypeOK'
      <3>1. issued' = 1 /\ issued' \in 0 .. MaxTokens
        BY <1>2, <2>1 DEF ConnectAccessToken
      <3>2. live' \in SUBSET (1 .. issued')
        <4>1. CASE issued = 0
          BY <1>2, <3>1, <4>1 DEF ConnectAccessToken
        <4>2. CASE issued = 1
          BY <1>2, <3>1, <4>2 DEF ConnectAccessToken, TypeOK
        <4>. QED
          BY <2>1, <4>1, <4>2
      <3>3. access_token' \in 0 .. issued' /\ bearer' \in 0 .. issued' /\ started_with' \in 0 .. issued'
        BY <1>2, <2>1, <3>1 DEF ConnectAccessToken, TypeOK
      <3>4. /\ pc' = "idle" /\ outcome' \in Outcomes /\ connected' \in BOOLEAN
            /\ instance_url' \in Instances \cup {NoInstance}
            /\ UNCHANGED <<auth_type, url, attempt, reauthed, sends, token_attempt>>
        BY <1>2 DEF ConnectAccessToken, Finish, Outcomes, Answers
      <3>. QED
        BY <3>1, <3>2, <3>3, <3>4 DEF TypeOK
    <2>3. SendBudget' /\ AttemptCountsSends' /\ NewestSession' /\ StaleInstanceOnlyAfterLogin'
          /\ SessionOfRequest'
      BY <1>2 DEF ConnectAccessToken, Finish, SendBudget, AttemptCountsSends, NewestSession,
                  StaleInstanceOnlyAfterLogin, SessionOfRequest, Retries
    <2>. QED
      BY <2>2, <2>3
  <1>3. CASE ConnectIncomplete \/ StartTooLong
    <2>1. TypeOK'
      BY <1>3 DEF TypeOK, ConnectIncomplete, StartTooLong, Finish, Outcomes, Answers
    <2>2. SendBudget' /\ AttemptCountsSends' /\ NewestSession' /\ StaleInstanceOnlyAfterLogin'
          /\ SessionOfRequest'
      BY <1>3 DEF ConnectIncomplete, StartTooLong, Finish, SendBudget, AttemptCountsSends, NewestSession,
                  StaleInstanceOnlyAfterLogin, SessionOfRequest, Retries
    <2>. QED
      BY <2>1, <2>2
  <1>4. CASE Disconnect
    <2>1. TypeOK'
      <3>1. access_token' \in 0 .. issued'
        BY <1>4 DEF TypeOK, Disconnect
      <3>. QED
        BY <1>4, <3>1 DEF TypeOK, Disconnect
    <2>2. SendBudget' /\ AttemptCountsSends' /\ NewestSession' /\ StaleInstanceOnlyAfterLogin'
          /\ SessionOfRequest'
      BY <1>4 DEF Disconnect, SendBudget, AttemptCountsSends, NewestSession,
                  StaleInstanceOnlyAfterLogin, SessionOfRequest, Retries
    <2>. QED
      BY <2>1, <2>2
  <1>. QED
    BY <1>1, <1>2, <1>3, <1>4

\* A request starts with the client's session and no send behind it.
LEMMA StartKeepsIInv ==
    ASSUME IInv, Start
    PROVE  IInv'
  <1>1. /\ TypeOK /\ connected /\ access_token \in 0 .. issued /\ access_token > 0 /\ issued \in Nat
        /\ Retries \in Nat
    BY RetriesType DEF IInv, TypeOK, SessionOfRequest, Start
  <1>2. /\ attempt' = 0 /\ bearer' = access_token /\ pc' = "send" /\ url' = instance_url
        /\ reauthed' = FALSE /\ sends' = 0 /\ started_with' = issued
        /\ UNCHANGED <<clientVars, sessionVars, token_attempt, outcome>>
    BY DEF Start, Iterate
  <1>3. TypeOK'
    <2>1. /\ bearer' \in 0 .. issued' /\ started_with' \in 0 .. issued' /\ sends' \in Nat
          /\ attempt' \in Nat
      BY <1>1, <1>2 DEF sessionVars
    <2>. QED
      BY <1>1, <1>2, <2>1 DEF TypeOK, clientVars, sessionVars
  <1>4. SendBudget' /\ AttemptCountsSends'
    BY <1>1, <1>2 DEF SendBudget, AttemptCountsSends, Retries
  <1>5. NewestSession' /\ StaleInstanceOnlyAfterLogin' /\ SessionOfRequest'
    BY <1>1, <1>2 DEF IInv, NewestSession, StaleInstanceOnlyAfterLogin, SessionOfRequest, clientVars,
                      sessionVars
  <1>. QED
    BY <1>3, <1>4, <1>5 DEF IInv

\* A send is counted, and goes on only while the budget allows it.
LEMMA SendKeepsIInv ==
    ASSUME IInv, NEW answer \in Answers, Send(answer)
    PROVE  IInv'
  <1>1. /\ TypeOK /\ pc = "send" /\ connected /\ sends \in Nat /\ attempt \in Nat
        /\ sends' = sends + 1 /\ reauthed \in BOOLEAN /\ Retries \in Nat
        /\ UNCHANGED <<clientVars, sessionVars, url, bearer, attempt, reauthed, started_with>>
    BY RetriesType DEF IInv, TypeOK, SessionOfRequest, Send
  <1>2. sends = attempt + (IF reauthed THEN 1 ELSE 0) /\ attempt <= Retries
    BY <1>1 DEF IInv, AttemptCountsSends
  <1>3. \/ Reauthenticates(answer) /\ pc' = "token" /\ token_attempt' = 0 /\ UNCHANGED outcome
        \/ Retried(answer) /\ pc' = "backoff" /\ UNCHANGED <<outcome, token_attempt>>
        \/ pc' = "idle" /\ outcome' = answer /\ UNCHANGED token_attempt
    BY DEF Send, Finish
  <1>4. TypeOK'
    BY <1>1, <1>3 DEF TypeOK, clientVars, sessionVars, TokenRetries, Outcomes
  <1>5. SendBudget'
    BY <1>1, <1>2 DEF SendBudget, Retries
  <1>6. AttemptCountsSends'
    <2>1. pc' = "backoff" => attempt < MaxRetries
      BY <1>3 DEF Retried
    <2>2. pc' = "token" => ~reauthed
      BY <1>3 DEF Reauthenticates
    <2>3. pc' \in {"token", "backoff", "idle"}
      BY <1>3
    <2>. QED
      BY <1>1, <1>2, <2>1, <2>2, <2>3 DEF AttemptCountsSends, Retries
  <1>7. NewestSession' /\ StaleInstanceOnlyAfterLogin' /\ SessionOfRequest'
    BY <1>1, <1>3 DEF IInv, NewestSession, StaleInstanceOnlyAfterLogin, SessionOfRequest, Reauthenticates,
                      clientVars, sessionVars
  <1>. QED
    BY <1>4, <1>5, <1>6, <1>7 DEF IInv

\* The attempt after a sleep takes the newest session.
LEMMA RetryKeepsIInv ==
    ASSUME IInv, Retry
    PROVE  IInv'
  <1>1. /\ TypeOK /\ pc = "backoff" /\ connected /\ sends \in Nat /\ attempt \in Nat /\ Retries \in Nat
        /\ access_token > 0 /\ attempt' = attempt + 1 /\ bearer' = access_token /\ pc' = "send"
        /\ UNCHANGED <<clientVars, sessionVars, url, reauthed, sends, started_with, token_attempt, outcome>>
    BY RetriesType DEF IInv, TypeOK, SessionOfRequest, Retry, Iterate
  <1>2. TypeOK'
    BY <1>1 DEF TypeOK, clientVars, sessionVars
  <1>3. SendBudget' /\ AttemptCountsSends'
    <2>1. attempt < Retries
      BY <1>1, RequestConstants DEF RequestConstants, IInv, AttemptCountsSends, Retries
    <2>. QED
      BY <1>1, <2>1 DEF IInv, SendBudget, AttemptCountsSends, Retries
  <1>4. NewestSession' /\ StaleInstanceOnlyAfterLogin' /\ SessionOfRequest'
    BY <1>1 DEF IInv, NewestSession, StaleInstanceOnlyAfterLogin, SessionOfRequest, clientVars, sessionVars
  <1>. QED
    BY <1>2, <1>3, <1>4 DEF IInv

\* A login that fails, or that is to be repeated, leaves the session and the request alone.
LEMMA LoginGoesOnKeepsIInv ==
    ASSUME IInv, pc \in {"token", "pause"}, pc' \in {"idle", "token", "pause"},
           pc' \in {"token", "pause"} \/ outcome' \in Outcomes,
           pc' = "idle" \/ outcome' = outcome,
           token_attempt' \in 0 .. TokenRetries, pc' = "pause" => token_attempt' < TokenRetries,
           UNCHANGED <<clientVars, sessionVars, requestVars>>
    PROVE  IInv'
  <1>. USE DEF clientVars, sessionVars, requestVars
  <1>1. TypeOK'
    BY DEF IInv, TypeOK
  <1>2. SendBudget' /\ AttemptCountsSends'
    BY DEF IInv, SendBudget, AttemptCountsSends, Retries
  <1>3. NewestSession' /\ StaleInstanceOnlyAfterLogin' /\ SessionOfRequest'
    BY DEF IInv, NewestSession, StaleInstanceOnlyAfterLogin, SessionOfRequest
  <1>. QED
    BY <1>1, <1>2, <1>3 DEF IInv

\* The new session is that of the attempt that follows, and it costs no attempt.
LEMMA LoggedInKeepsIInv ==
    ASSUME IInv, pc = "token", LoggedIn, UNCHANGED <<auth_type, token_attempt>>
    PROVE  IInv'
  <1>1. /\ TypeOK /\ issued \in Nat /\ issued < MaxTokens /\ issued' = issued + 1 /\ MaxTokens \in Nat
        /\ access_token' = issued + 1 /\ live' = live \cup {issued + 1}
        /\ instance_url' \in Instances /\ auth_type # "AccessToken" /\ Retries \in Nat
        /\ bearer \in 0 .. issued /\ started_with \in 0 .. issued /\ sends \in Nat /\ attempt \in Nat
        /\ live \in SUBSET (1 .. issued)
    BY RetriesType, RequestConstants DEF RequestConstants, IInv, TypeOK, SessionOfRequest, LoggedIn
  <1>2. access_token' \in 0 .. issued' /\ issued' \in 0 .. MaxTokens /\ live' \in SUBSET (1 .. issued')
    BY <1>1
  <1>3. CASE connected
    <2>1. /\ attempt' = attempt /\ bearer' = issued + 1 /\ pc' = "send" /\ reauthed' = TRUE
          /\ UNCHANGED <<connected, outcome, url, sends, started_with>>
      BY <1>3 DEF LoggedIn, Iterate
    <2>2. sends = attempt + 1 /\ attempt <= Retries
      BY <1>3 DEF IInv, AttemptCountsSends
    <2>3. bearer' \in 0 .. issued' /\ started_with' \in 0 .. issued'
      BY <1>1, <2>1
    <2>4. TypeOK'
      BY <1>1, <1>2, <2>1, <2>3 DEF TypeOK
    <2>5. SendBudget' /\ AttemptCountsSends'
      BY <1>1, <2>1, <2>2 DEF SendBudget, AttemptCountsSends, Retries
    <2>6. NewestSession' /\ StaleInstanceOnlyAfterLogin' /\ SessionOfRequest'
      BY <1>1, <1>3, <2>1 DEF NewestSession, StaleInstanceOnlyAfterLogin, SessionOfRequest
    <2>. QED
      BY <2>4, <2>5, <2>6 DEF IInv
  <1>4. CASE ~connected
    <2>1. connected' = TRUE /\ pc' = "idle" /\ outcome' = "ok" /\ UNCHANGED requestVars
      BY <1>4 DEF LoggedIn, Finish
    <2>2. bearer' \in 0 .. issued' /\ started_with' \in 0 .. issued' /\ outcome' \in Outcomes
      BY <1>1, <2>1 DEF requestVars, Outcomes, Answers
    <2>3. TypeOK'
      BY <1>1, <1>2, <2>1, <2>2 DEF TypeOK, requestVars
    <2>4. SendBudget' /\ AttemptCountsSends'
      BY <1>1, <2>1 DEF IInv, SendBudget, AttemptCountsSends, Retries, requestVars
    <2>5. NewestSession' /\ StaleInstanceOnlyAfterLogin' /\ SessionOfRequest'
      BY <1>1, <2>1 DEF NewestSession, StaleInstanceOnlyAfterLogin, SessionOfRequest, requestVars
    <2>. QED
      BY <2>3, <2>4, <2>5 DEF IInv
  <1>. QED
    BY <1>3, <1>4

\* What a refused instance leaves behind is no request under way.
LEMMA LoggedInInsecurelyKeepsIInv ==
    ASSUME IInv, pc = "token", LoggedInInsecurely, UNCHANGED <<auth_type, token_attempt>>
    PROVE  IInv'
  <1>1. /\ TypeOK /\ issued \in Nat /\ issued < MaxTokens /\ issued' = issued + 1 /\ MaxTokens \in Nat
        /\ access_token \in 0 .. issued /\ live' = live \cup {issued + 1}
        /\ auth_type # "AccessToken" /\ Retries \in Nat /\ live \in SUBSET (1 .. issued)
        /\ bearer \in 0 .. issued /\ started_with \in 0 .. issued
        /\ pc' = "idle" /\ outcome' = "login_refused" /\ UNCHANGED <<connected, requestVars>>
    BY RetriesType, RequestConstants
    DEF RequestConstants, IInv, TypeOK, SessionOfRequest, LoggedInInsecurely, Finish
  <1>2. /\ access_token' \in {access_token, issued + 1} /\ (connected => access_token' = issued + 1)
        /\ instance_url' \in Instances \cup {NoInstance}
    BY <1>1 DEF LoggedInInsecurely, TypeOK
  <1>3. /\ access_token' \in 0 .. issued' /\ issued' \in 0 .. MaxTokens /\ live' \in SUBSET (1 .. issued')
        /\ bearer' \in 0 .. issued' /\ started_with' \in 0 .. issued' /\ outcome' \in Outcomes
    BY <1>1, <1>2 DEF requestVars, Outcomes
  <1>4. TypeOK'
    BY <1>1, <1>2, <1>3 DEF TypeOK, requestVars
  <1>5. SendBudget' /\ AttemptCountsSends'
    BY <1>1 DEF IInv, SendBudget, AttemptCountsSends, Retries, requestVars
  <1>6. NewestSession' /\ StaleInstanceOnlyAfterLogin' /\ SessionOfRequest'
    BY <1>1, <1>2 DEF NewestSession, StaleInstanceOnlyAfterLogin, SessionOfRequest, requestVars
  <1>. QED
    BY <1>4, <1>5, <1>6 DEF IInv

\* Every answer of the login server keeps the invariant.
LEMMA LoginKeepsIInv ==
    ASSUME IInv, NEW answer \in LoginAnswers, Login(answer)
    PROVE  IInv'
  <1>1. pc = "token" /\ UNCHANGED <<auth_type, token_attempt>> /\ token_attempt \in 0 .. TokenRetries
    BY DEF IInv, TypeOK, Login
  <1>2. {"login_refused", "login_server_error", "login_transport"} \subseteq Outcomes
    BY DEF Outcomes
  <1>3. CASE LoggedIn
    BY <1>1, <1>3, LoggedInKeepsIInv
  <1>4. CASE /\ LoginRetried /\ pc' = "pause"
             /\ UNCHANGED <<connected, sessionVars, requestVars, outcome>>
    BY <1>1, <1>4, LoginGoesOnKeepsIInv DEF clientVars, LoginRetried
  <1>5. ASSUME NEW result \in Outcomes, LoginFails(result) PROVE IInv'
    BY <1>1, <1>5, LoginGoesOnKeepsIInv DEF LoginFails, Finish, clientVars
  <1>6. CASE LoggedInInsecurely
    BY <1>1, <1>6, LoggedInInsecurelyKeepsIInv
  <1>. QED
    BY <1>2, <1>3, <1>4, <1>5, <1>6 DEF Login

\* The next attempt at the login server is one of the allowed ones.
LEMMA LoginAgainKeepsIInv ==
    ASSUME IInv, LoginAgain
    PROVE  IInv'
  <1>1. token_attempt \in 0 .. TokenRetries /\ pc = "pause" /\ token_attempt < TokenRetries
    BY DEF IInv, TypeOK, SessionOfRequest, LoginAgain
  <1>2. token_attempt' \in 0 .. TokenRetries
    BY <1>1 DEF LoginAgain, TokenRetries
  <1>. QED
    BY <1>1, <1>2, LoginGoesOnKeepsIInv DEF LoginAgain

\* The client does not notice that a session ended.
LEMMA ExpireKeepsIInv ==
    ASSUME IInv, NEW t \in live, Expire(t)
    PROVE  IInv'
  <1>1. TypeOK'
    BY DEF IInv, TypeOK, Expire, clientVars, requestVars
  <1>2. SendBudget' /\ AttemptCountsSends' /\ NewestSession' /\ StaleInstanceOnlyAfterLogin'
        /\ SessionOfRequest'
    BY DEF IInv, SendBudget, AttemptCountsSends, Retries, NewestSession, StaleInstanceOnlyAfterLogin,
           SessionOfRequest, Expire, clientVars, requestVars
  <1>. QED
    BY <1>1, <1>2 DEF IInv

\* Every step keeps the invariant.
LEMMA NextKeepsIInv ==
    ASSUME IInv, [Next]_vars
    PROVE  IInv'
  <1>1. CASE Connect \/ ConnectAccessToken \/ ConnectIncomplete \/ Disconnect \/ StartTooLong
    BY <1>1, ConnectingKeepsIInv
  <1>2. CASE Start
    BY <1>2, StartKeepsIInv
  <1>3. CASE Work
    <2>1. ASSUME NEW a \in Answers, Send(a) PROVE IInv'
      BY <2>1, SendKeepsIInv
    <2>2. CASE Retry
      BY <2>2, RetryKeepsIInv
    <2>3. ASSUME NEW a \in LoginAnswers, Login(a) PROVE IInv'
      BY <2>3, LoginKeepsIInv
    <2>4. CASE LoginAgain
      BY <2>4, LoginAgainKeepsIInv
    <2>. QED
      BY <1>3, <2>1, <2>2, <2>3, <2>4 DEF Work
  <1>4. ASSUME NEW t \in live, Expire(t) PROVE IInv'
    BY <1>4, ExpireKeepsIInv
  <1>5. CASE UNCHANGED vars
    <2>1. TypeOK'
      BY <1>5 DEF IInv, TypeOK, vars, clientVars, sessionVars, requestVars
    <2>2. SendBudget' /\ AttemptCountsSends' /\ NewestSession' /\ StaleInstanceOnlyAfterLogin'
          /\ SessionOfRequest'
      BY <1>5 DEF IInv, SendBudget, AttemptCountsSends, Retries, NewestSession,
                  StaleInstanceOnlyAfterLogin, SessionOfRequest, vars, clientVars, sessionVars, requestVars
    <2>. QED
      BY <2>1, <2>2 DEF IInv
  <1>. QED
    BY <1>1, <1>2, <1>3, <1>4, <1>5 DEF Next

\* IInv holds in every state of a client, whatever Salesforce and the login server answer.
THEOREM RequestInvariant == Spec => []IInv
  <1>1. Init => IInv
    BY InitEstablishesIInv
  <1>2. IInv /\ [Next]_vars => IInv'
    BY NextKeepsIInv
  <1>. QED
    BY <1>1, <1>2, PTL DEF Spec

\* Every variable of the client keeps its type, and a session is one the server issued.
THEOREM TypeCorrect == Spec => []TypeOK
  BY RequestInvariant, PTL DEF IInv

\* The attempts of a request count its sends, the login apart, whatever mix of errors it meets.
THEOREM AttemptsAreSends == Spec => []AttemptCountsSends
  BY RequestInvariant, PTL DEF IInv

\* A request is sent at most MaxRetries + 1 times, and once more with a renewed session.
THEOREM SendsAreBounded == Spec => []SendBudget
  BY RequestInvariant, PTL DEF IInv

\* Every attempt carries the newest session.
THEOREM AttemptsCarryNewestSession == Spec => []NewestSession
  BY RequestInvariant, PTL DEF IInv

\* A request goes to an instance that is not the client's only after a login in the middle of it.
THEOREM StaleInstanceIsFromLogin == Spec => []StaleInstanceOnlyAfterLogin
  BY RequestInvariant, PTL DEF IInv

\* A request that is over after an attempt is over by the answer to it.
LEMMA EndsByAnswer ==
    ASSUME Next, pc = "send", pc' = "idle"
    PROVE  \E a \in Answers : Send(a)
  <1>1. ~Connect /\ ~ConnectAccessToken /\ ~ConnectIncomplete /\ ~Disconnect /\ ~Start
        /\ ~StartTooLong /\ ~Retry /\ ~LoginAgain
    BY DEF Connect, ConnectAccessToken, ConnectIncomplete, Disconnect, Start, StartTooLong, Retry,
           LoginAgain
  <1>2. ASSUME NEW b \in LoginAnswers PROVE ~Login(b)
    BY DEF Login
  <1>3. ASSUME NEW t \in live PROVE ~Expire(t)
    BY DEF Expire
  <1>. QED
    BY <1>1, <1>2, <1>3 DEF Next, Work

\* The application is told that its session was rejected only when a new one was rejected too.
THEOREM RejectionIsOfNewSession == Spec => RejectedOnlyWithNewSession
  <1>. DEFINE Rejected == /\ outcome' = "unauthorized" /\ pc = "send" /\ pc' = "idle"
                          /\ auth_type = "login"
  <1>1. ASSUME IInv, Next, Rejected
        PROVE  bearer > started_with
    <2>1. PICK a \in Answers : Send(a)
      BY <1>1, EndsByAnswer
    <2>2. a = "unauthorized" /\ ~Reauthenticates(a)
      BY <1>1, <2>1 DEF Send, Finish
    <2>3. reauthed
      BY <1>1, <2>2 DEF Reauthenticates
    <2>. QED
      BY <1>1, <2>3 DEF IInv, SessionOfRequest, NewestSession
  <1>2. IInv /\ [Next]_vars => [Rejected => bearer > started_with]_vars
    BY <1>1
  <1>. QED
    BY <1>2, RequestInvariant, PTL DEF Spec, RejectedOnlyWithNewSession

\* Errors that may pass reach the application only when the retries are used up.
THEOREM TransientErrorsAreLast == Spec => TransientErrorsUseBudget
  <1>. DEFINE Transient == /\ pc = "send" /\ pc' = "idle"
                           /\ outcome' \in {"throttled", "gateway", "dropped"}
  <1>1. ASSUME IInv, Next, Transient
        PROVE  attempt >= MaxRetries
    <2>1. PICK a \in Answers : Send(a)
      BY <1>1, EndsByAnswer
    <2>2. a \in {"throttled", "gateway", "dropped"} /\ ~Retried(a)
      BY <1>1, <2>1 DEF Send, Finish
    <2>3. attempt \in Nat /\ MaxRetries \in Int
      BY <1>1, RequestConstants DEF IInv, TypeOK
    <2>. QED
      BY <2>2, <2>3 DEF Retried
  <1>2. IInv /\ [Next]_vars => [Transient => attempt >= MaxRetries]_vars
    BY <1>1
  <1>. QED
    BY <1>2, RequestInvariant, PTL DEF Spec, TransientErrorsUseBudget

==============================================================================

----------------------------- MODULE ApiClient -----------------------------
(***************************************************************************)
(* One call of WireGuardApiClient.request (lib/api-client.ts): the         *)
(* attempts it makes, what the backend does with each of them, and which   *)
(* failures it answers with another attempt.  What the backend replies is  *)
(* abstracted to the classes that request() tells apart.  The delays       *)
(* between the attempts are left out: an attempt is made some time later.  *)
(***************************************************************************)
EXTENDS Endpoints, Naturals

CONSTANT MaxRetries   \* the default of the parameter maxRetries

ASSUME RetriesAssumption == MaxRetries \in Nat

VARIABLES op,          \* which wrapper made the call
          phase,       \* what request() is doing
          retryCount, retryOnCsrf, retryOnNetwork,   \* its parameters
          reply,       \* what the attempt in flight will come back with
          outcome,     \* how the call ended
          performed    \* how often the backend has performed it

clientVars == <<op, phase, retryCount, retryOnCsrf, retryOnNetwork,
                reply, outcome, performed>>

Phases   == {"ready", "sent", "replied", "refreshing", "ended"}
Replies  == {"none", "ok", "network", "rateLimit", "server", "csrf", "rejected"}
Outcomes == {"none", "ok", "failed"}

\* Only these attempts carry a CSRF token, and can be refused for want of one.
NeedsToken == Method[op] # "GET"

ClientInit ==
  /\ op \in DOMAIN Method
  /\ phase = "ready" /\ retryCount = 0
  /\ retryOnCsrf = "yes" /\ retryOnNetwork = "yes"
  /\ reply = "none" /\ outcome = "none" /\ performed = 0

End(result) ==
  /\ phase' = "ended" /\ outcome' = result
  /\ UNCHANGED <<op, retryCount, retryOnCsrf, retryOnNetwork, reply, performed>>

\* An attempt goes out.  The token it may need is fetched before, outside of
\* the try that catches the failures of the attempt itself.
SendAttempt ==
  /\ phase = "ready"
  /\ phase' = "sent" /\ reply' = "none"
  /\ UNCHANGED <<op, retryCount, retryOnCsrf, retryOnNetwork, outcome, performed>>

TokenUnavailable ==
  /\ phase \in {"ready", "refreshing"} /\ NeedsToken
  /\ End("failed")

-----------------------------------------------------------------------------
\* The backend turns the attempt away, or the attempt never reaches it.
TurnAway ==
  /\ phase = "sent"
  /\ reply' \in {"network", "rateLimit", "server", "rejected"}
                  \cup (IF NeedsToken THEN {"csrf"} ELSE {})
  /\ phase' = "replied"
  /\ UNCHANGED <<op, retryCount, retryOnCsrf, retryOnNetwork, outcome, performed>>

\* The backend performs it; the answer comes through, is lost on the way, or
\* is an error that arose after the effect.
PerformAttempt ==
  /\ phase = "sent"
  /\ reply' \in {"ok", "network", "server"}
  /\ phase' = "replied" /\ performed' = performed + 1
  /\ UNCHANGED <<op, retryCount, retryOnCsrf, retryOnNetwork, outcome>>

-----------------------------------------------------------------------------
\* Not the code: repeats whatever the method.
RetryAnyNetwork == /\ reply = "network" /\ retryOnNetwork = "yes"
                   /\ retryCount < MaxRetries

RetryNetwork == /\ reply = "network" /\ retryOnNetwork = "yes"
                /\ Repeats(op) /\ retryCount < MaxRetries

\* Not the code: one repetition too many.
RetryBusyOnceMore == /\ reply \in {"rateLimit", "server"}
                     /\ Repeats(op) /\ retryCount <= MaxRetries

RetryBusy    == /\ reply \in {"rateLimit", "server"}
                /\ Repeats(op) /\ retryCount < MaxRetries

RetryCsrf    == reply = "csrf" /\ retryOnCsrf = "yes"

\* Not the code: the attempts are not counted.
AgainUncounted(next, onCsrf, onNetwork) ==
  /\ phase' = next
  /\ retryOnCsrf' = onCsrf /\ retryOnNetwork' = onNetwork
  /\ UNCHANGED <<op, retryCount, reply, outcome, performed>>

\* The parameters request() calls itself with.
Again(next, onCsrf, onNetwork) ==
  /\ phase' = next
  /\ retryCount' = retryCount + 1
  /\ retryOnCsrf' = onCsrf /\ retryOnNetwork' = onNetwork
  /\ UNCHANGED <<op, reply, outcome, performed>>

NetworkFailed ==
  /\ phase = "replied" /\ RetryNetwork
  /\ Again("ready", retryOnCsrf, "no")

ServerBusy ==
  /\ phase = "replied" /\ RetryBusy
  /\ Again("ready", retryOnCsrf, retryOnNetwork)

CsrfFailed ==
  /\ phase = "replied" /\ RetryCsrf
  /\ Again("refreshing", "no", retryOnNetwork)

TokenRefreshed ==
  /\ phase = "refreshing"
  /\ phase' = "ready"
  /\ UNCHANGED <<op, retryCount, retryOnCsrf, retryOnNetwork, reply, outcome, performed>>

\* Not the code: the failure is swallowed.
Swallow ==
  /\ phase = "replied" /\ reply # "ok"
  /\ ~RetryBusy /\ ~RetryCsrf
  /\ End("ok")

\* A failure of the network is only recognised by the words of some browsers.
Throw ==
  /\ phase = "replied" /\ reply # "ok"
  /\ ~RetryBusy /\ ~RetryCsrf
  /\ End("failed")

Return ==
  /\ phase = "replied" /\ reply = "ok"
  /\ End("ok")

-----------------------------------------------------------------------------
BackendAttempt == TurnAway \/ PerformAttempt

ClientStep ==
  \/ SendAttempt \/ TokenUnavailable
  \/ NetworkFailed \/ ServerBusy \/ CsrfFailed \/ TokenRefreshed
  \/ Throw \/ Return

ClientNext == ClientStep \/ BackendAttempt

ClientFairness == WF_clientVars(ClientStep) /\ WF_clientVars(BackendAttempt)

ClientSpec == ClientInit /\ [][ClientNext]_clientVars

-----------------------------------------------------------------------------
\* The outcome of the call is settled as soon as no attempt can follow.
Fate ==
  IF phase = "ended" THEN outcome
  ELSE IF phase = "replied" /\ reply = "ok" THEN "ok"
  ELSE IF phase = "replied" /\ reply \in {"network", "server"} /\ ~Repeats(op)
  THEN "failed"
  ELSE "none"

Call == INSTANCE RemoteCall WITH Repeatable <- Repeats, outcome <- Fate

-----------------------------------------------------------------------------
ClientTypeOK ==
  /\ op \in DOMAIN Method
  /\ phase \in Phases /\ reply \in Replies /\ outcome \in Outcomes
  /\ retryCount \in Nat /\ performed \in Nat
  /\ retryOnCsrf \in {"yes", "no"} /\ retryOnNetwork \in {"yes", "no"}

\* A call that only repeating may not hurt is performed at most once: no
\* network is created and no key regenerated twice by one click, however the
\* attempts fail (isIdempotent in request()).
ClientPostsOnce == ~Repeats(op) => performed <= 1

\* A call ends after at most MaxRetries repetitions and one for the CSRF
\* token, which is not counted against them (retryCount in request()).
ClientGivesUp ==
  /\ retryCount <= MaxRetries + 1
  /\ performed <= MaxRetries + 2

\* What the pages rely on is what request() does.
ClientImplementsCall == Call!CallSpec
=============================================================================

----------------------------- MODULE RemoteCall -----------------------------
(***************************************************************************)
(* What a page may rely on when it awaits a call of the API client: the    *)
(* call ends once, a success means that the backend performed it, and a    *)
(* call that is not repeatable is performed at most once.  A failure says  *)
(* nothing: the call may have been performed all the same, and a           *)
(* repeatable one more than once.  Screen gives the calls of the pages     *)
(* these three steps.                                                      *)
(***************************************************************************)
EXTENDS Naturals

CONSTANT Repeatable(_)   \* may the client repeat this operation?

VARIABLES op,          \* the operation, fixed when the call is made
          performed,   \* how often the backend has performed it
          outcome      \* "none" until the call ends with "ok" or "failed"

callVars == <<op, performed, outcome>>

CallInit == performed = 0 /\ outcome = "none"

Performed ==
  /\ outcome = "none"
  /\ Repeatable(op) \/ performed = 0
  /\ performed' = performed + 1
  /\ outcome' = "ok"
  /\ UNCHANGED op

AnswerLost ==
  /\ outcome = "none"
  /\ Repeatable(op) \/ performed = 0
  /\ performed' = performed + 1
  /\ outcome' = IF Repeatable(op) THEN "none" ELSE "failed"
  /\ UNCHANGED op

Refused ==
  /\ outcome = "none"
  /\ outcome' = "failed"
  /\ UNCHANGED <<op, performed>>

CallNext == Performed \/ AnswerLost \/ Refused

CallSpec == CallInit /\ [][CallNext]_callVars
=============================================================================

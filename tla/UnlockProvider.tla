--------------------------- MODULE UnlockProvider ---------------------------
(***************************************************************************)
(* What the frontend believes about the master password                    *)
(* (contexts/unlock-context.tsx) and the dialogs that change it.  The      *)
(* provider asks the backend when it is mounted, every 30 seconds while it *)
(* believes the cache unlocked, and whenever that belief changes.  Answers *)
(* are applied in the order they arrive.  With a session token in storage  *)
(* it asks for the status of its session, without one the public endpoint. *)
(*                                                                         *)
(* Sessions are numbered in the order of their unlock; 0 is no token.  db  *)
(* is what the backend holds: whether its cache is open, the sessions it   *)
(* accepts and how many it has issued.  Time to live is left out, and so   *)
(* an extension changes nothing.                                           *)
(*                                                                         *)
(* `uncertain' is not in the code, as in NetworksPage.                     *)
(***************************************************************************)
EXTENDS Screen

CONSTANT MaxSessions   \* bound: sessions this browser is issued

SessionFresh(token, doubt) ==
  [mounted |-> TRUE, token |-> token, isUnlocked |-> FALSE,
   isChecking |-> TRUE, known |-> FALSE, dialog |-> FALSE,
   unlocking |-> FALSE, uncertain |-> doubt]

SessionShown == screen = "session" /\ ui # Unmounted

\* The dialog is the status dialog while a status says unlocked.
StatusDialogShown == SessionShown /\ ui.dialog /\ ui.isUnlocked /\ ui.known
UnlockFormShown   == SessionShown /\ ui.dialog /\ ~(ui.isUnlocked /\ ui.known)
UnlockEnabled     == UnlockFormShown /\ ~ui.unlocking

\* Each attempt of a request reads the token from storage.
Presented(s) == {calls[s].arg.token, ui.token}
Accepted(s)  == Presented(s) \cap db.sessions

Unauthorized == Reply(db, "unauthorized", Nobody)

SessionServer(s) ==
  LET c == calls[s]
      unknown == IF Presented(s) \subseteq db.sessions THEN {} ELSE {Unauthorized} IN
  CASE c.op = "isMasterPasswordUnlocked" -> {Reply(db, "ok", db.open)}
    [] c.op = "getMasterPasswordStatus" ->
         unknown \cup {Reply(db, "ok", db.open) : t \in Accepted(s)}
    [] c.op = "unlockMasterPassword" ->
         IF db.issued = MaxSessions THEN {Unauthorized}
         ELSE {Reply([open |-> TRUE, sessions |-> db.sessions \cup {db.issued + 1},
                      issued |-> db.issued + 1], "ok", db.issued + 1)}
    [] c.op = "lockMasterPassword" ->
         unknown \cup {Reply([db EXCEPT !.open = FALSE, !.sessions = @ \ {t}], "ok", t) :
                         t \in Accepted(s)}
    [] c.op = "extendMasterPasswordTTL" ->
         unknown \cup {Reply(db, IF db.open THEN "ok" ELSE "invalid", t) : t \in Accepted(s)}

-----------------------------------------------------------------------------
\* refreshStatus, awaited by the handler `for' or by nobody.
RefreshOp(token) ==
  IF token = 0 THEN "isMasterPasswordUnlocked" ELSE "getMasterPasswordStatus"

Asked(token, for) == [token |-> token, for |-> for]

SessionMount ==
  /\ screen = "session" /\ ui = Unmounted
  /\ ui' = SessionFresh(0, FALSE)
  /\ Await(RefreshOp(0), Asked(0, "nobody"))
  /\ UNCHANGED <<screen, db>>

\* The page is loaded anew: the token, in sessionStorage, outlives it.
SessionReload ==
  /\ SessionShown
  /\ ui' = SessionFresh(ui.token, \E s \in Writing : TRUE)
  /\ calls' = [[s \in Slots |-> Idle] EXCEPT
                 ![1] = NewCall(RefreshOp(ui.token), Asked(ui.token, "nobody"))]
  /\ UNCHANGED <<screen, db>>

\* Every 30 seconds, while the provider believes the cache unlocked.
SessionPoll ==
  /\ SessionShown /\ ui.isUnlocked
  /\ ui' = [ui EXCEPT !.uncertain = ~Quiet]
  /\ Await(RefreshOp(ui.token), Asked(ui.token, "nobody"))
  /\ UNCHANGED <<screen, db>>

\* The handler in slot s ends with the belief `unlocked' and the rest of the
\* state in `next'.  A belief that changes runs the effect that refreshes.
Believe(s, next, unlocked) ==
  IF unlocked = ui.isUnlocked
  THEN ui' = next /\ Finish(s)
  ELSE /\ ui' = [next EXCEPT !.isUnlocked = unlocked, !.uncertain = Others(s)]
       /\ AwaitNext(s, RefreshOp(next.token), Asked(next.token, "nobody"))

\* Not the code: a refresh that fails leaves the belief as it was.
SessionRefreshedHopeful(s) ==
  /\ SessionShown
  /\ Answered(s, "isMasterPasswordUnlocked") \/ Answered(s, "getMasterPasswordStatus")
  /\ Believe(s, [ui EXCEPT !.isChecking = FALSE, !.unlocking = FALSE],
             IF calls[s].outcome = "ok" THEN calls[s].data ELSE ui.isUnlocked)
  /\ UNCHANGED <<screen, db>>

\* A success may have expired by the browser's clock when it arrives.  The
\* handler that awaited the refresh reports success whatever it found.
SessionRefreshed(s) ==
  /\ SessionShown
  /\ Answered(s, "isMasterPasswordUnlocked") \/ Answered(s, "getMasterPasswordStatus")
  /\ LET c     == calls[s]
         ended == [ui EXCEPT !.isChecking = FALSE,
                             !.known = c.outcome = "ok" /\ c.op = "getMasterPasswordStatus",
                             !.unlocking = @ /\ c.arg.for # "unlock",
                             !.dialog = @ /\ c.arg.for = "nobody"] IN
     IF c.outcome = "ok"
     THEN \E expired \in BOOLEAN :
            /\ expired => c.op = "getMasterPasswordStatus" /\ ~db.open
            /\ Believe(s, ended, c.data /\ ~expired)
     ELSE Believe(s, [ended EXCEPT !.uncertain = @ \/ c.outcome # "unauthorized"], FALSE)
  /\ UNCHANGED <<screen, db>>

-----------------------------------------------------------------------------
\* The placeholder's button, the button of the top bar, and pages told 401.
SessionOpenDialog ==
  /\ SessionShown /\ ~ui.dialog
  /\ ui' = [ui EXCEPT !.dialog = TRUE]
  /\ UNCHANGED <<screen, calls, db>>

SessionCloseDialog ==
  /\ SessionShown /\ ui.dialog
  /\ ui' = [ui EXCEPT !.dialog = FALSE]
  /\ UNCHANGED <<screen, calls, db>>

SessionSend(op, for) ==
  /\ Await(op, Asked(ui.token, for))
  /\ UNCHANGED <<screen, db>>

SessionUnlock ==
  /\ UnlockEnabled
  /\ ui' = [ui EXCEPT !.unlocking = TRUE]
  /\ SessionSend("unlockMasterPassword", "unlock")

SessionUnlocked(s) ==
  /\ SessionShown /\ Answered(s, "unlockMasterPassword")
  /\ IF calls[s].outcome = "ok"
     THEN /\ ui' = [ui EXCEPT !.token = calls[s].data, !.uncertain = Others(s)]
          /\ AwaitNext(s, RefreshOp(calls[s].data), Asked(calls[s].data, "unlock"))
     ELSE /\ ui' = [ui EXCEPT !.unlocking = FALSE, !.uncertain = TRUE]
          /\ Finish(s)
  /\ UNCHANGED <<screen, db>>

\* The button of the top bar locks.  A lock that fails leaves all as it was.
SessionLock ==
  /\ SessionShown /\ ui.isUnlocked /\ ~ui.isChecking
  /\ SessionSend("lockMasterPassword", "lock") /\ UNCHANGED ui

\* "Lock Now" calls the backend itself, and the provider is not told.
SessionLockNow ==
  /\ StatusDialogShown
  /\ SessionSend("lockMasterPassword", "dialog") /\ UNCHANGED ui

SessionLocked(s) ==
  /\ SessionShown /\ Answered(s, "lockMasterPassword")
  /\ LET c == calls[s] IN
     CASE c.outcome # "ok" ->
            ui' = [ui EXCEPT !.uncertain = TRUE] /\ Finish(s)
       [] c.outcome = "ok" /\ c.arg.for = "dialog" ->
            ui' = [ui EXCEPT !.dialog = FALSE, !.uncertain = TRUE] /\ Finish(s)
       [] c.outcome = "ok" /\ c.arg.for = "lock" ->
            Believe(s, [ui EXCEPT !.token = 0, !.known = FALSE,
                                  !.uncertain = @ \/ Others(s)], FALSE)
  /\ UNCHANGED <<screen, db>>

\* A page was told 423: forceLock.
SessionForceLock ==
  /\ SessionShown /\ ui.isUnlocked
  /\ ui' = [ui EXCEPT !.token = 0, !.known = FALSE, !.isUnlocked = FALSE,
                      !.uncertain = ~Quiet]
  /\ Await(RefreshOp(0), Asked(0, "nobody"))
  /\ UNCHANGED <<screen, db>>

SessionExtend ==
  /\ StatusDialogShown
  /\ SessionSend("extendMasterPasswordTTL", "extend") /\ UNCHANGED ui

SessionExtended(s) ==
  /\ SessionShown /\ Answered(s, "extendMasterPasswordTTL")
  /\ IF calls[s].outcome = "ok"
     THEN /\ ui' = [ui EXCEPT !.uncertain = Others(s)]
          /\ AwaitNext(s, RefreshOp(ui.token), Asked(ui.token, "extend"))
     ELSE Finish(s) /\ UNCHANGED ui
  /\ UNCHANGED <<screen, db>>

-----------------------------------------------------------------------------
\* Not the browser's doing: the cache or a session expires, somebody else
\* locks the cache, or unlocks it.
BackendChanges ==
  /\ SessionShown
  /\ \/ db.open /\ db' = [db EXCEPT !.open = FALSE]
     \/ ~db.open /\ db' = [db EXCEPT !.open = TRUE]
     \/ \E t \in db.sessions : db' = [db EXCEPT !.sessions = @ \ {t}]
  /\ ui' = [ui EXCEPT !.uncertain = TRUE]
  /\ UNCHANGED <<screen, calls>>

SessionStep ==
  \/ SessionMount \/ SessionReload \/ SessionPoll
  \/ SessionOpenDialog \/ SessionCloseDialog \/ SessionUnlock
  \/ SessionLock \/ SessionLockNow \/ SessionForceLock \/ SessionExtend
  \/ BackendChanges

SessionHandle(s) ==
  \/ SessionRefreshed(s) \/ SessionUnlocked(s)
  \/ SessionLocked(s) \/ SessionExtended(s)
=============================================================================

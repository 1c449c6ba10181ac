---------------------------- MODULE RotationPage ----------------------------
(***************************************************************************)
(* The key rotation page (app/key-rotation/page.tsx).  A submit asks the   *)
(* backend whether the current password is right and, if it is, posts the  *)
(* rotation.  The button is disabled while a rotation is in flight, not    *)
(* while the password is being checked: submits can overlap.               *)
(*                                                                         *)
(* A rotation that succeeds ends the session: the handler clears the token *)
(* and forces the provider to locked, which unmounts the page.  A handler  *)
(* whose page is gone runs on, from the check to the rotation.             *)
(*                                                                         *)
(* db is the password in force, by number, and whether the backend knows   *)
(* the browser's session.  `since' and `uncertain' are not in the code:    *)
(* the password when the page was mounted, and that a rotation may have    *)
(* happened without the page being locked out.                             *)
(***************************************************************************)
EXTENDS Screen

MaxPassword == 2   \* bound: passwords are numbered 0..MaxPassword
Passwords   == 0..MaxPassword

RotationFresh ==
  [mounted |-> TRUE, estimate |-> "loading", isRotating |-> FALSE,
   since |-> db.password, uncertain |-> ~Quiet]

RotationShown == screen = "rotation" /\ ui # Unmounted

\* The submit button; typing is free at any time.
RotateEnabled == RotationShown /\ ~ui.isRotating /\ ui.estimate # "loading"

\* The estimate and the check need the session.  So does a rotation, which
\* ends it; one that fails for some devices has still changed the password.
RotationServer(s) ==
  LET c == calls[s]
      turnedDown == Reply(db, "failed", Nobody)
      rotated    == [db EXCEPT !.password = c.arg.new] IN
  CASE ~db.session -> {turnedDown}
    [] db.session /\ c.op = "getRotationEstimate" -> {Reply(db, "ok", Nobody)}
    [] db.session /\ c.op = "validateCurrentPassword" ->
         {Reply(db, "ok", IF c.arg.current = db.password THEN "valid" ELSE "wrong")}
    [] db.session /\ c.op = "rotateMasterPassword" ->
         IF c.arg.current # db.password THEN {turnedDown}
         ELSE {Reply([rotated EXCEPT !.session = FALSE], "ok", Nobody),
               Reply(rotated, "failed", Nobody)}

-----------------------------------------------------------------------------
\* The shell mounts the page once the user has unlocked.
RotationMount ==
  /\ screen = "rotation" /\ ui = Unmounted
  /\ db' = [db EXCEPT !.session = TRUE]
  /\ ui' = RotationFresh
  /\ Await("getRotationEstimate", Nobody)
  /\ UNCHANGED screen

\* The page goes away: its handlers run on, and are no longer its own.
Abandoned(c) ==
  CASE c.op = "getRotationEstimate" -> Idle
    [] c.op \in {"validateCurrentPassword", "rotateMasterPassword"} ->
         [c EXCEPT !.arg.alive = FALSE]
    [] OTHER -> c

RotationLeave ==
  /\ RotationShown
  /\ ui' = Unmounted
  /\ calls' = [s \in Slots |-> Abandoned(calls[s])]
  /\ UNCHANGED <<screen, db>>

\* loadEstimate.
RotationEstimated(s) ==
  /\ RotationShown /\ Answered(s, "getRotationEstimate")
  /\ ui' = [ui EXCEPT !.estimate = calls[s].outcome]
  /\ Finish(s)
  /\ UNCHANGED <<screen, db>>

\* onSubmit and the start of executeRotation.
RotationSubmit(current, new) ==
  /\ RotateEnabled
  /\ ui' = [ui EXCEPT !.uncertain = @ \/ ~Quiet]
  /\ Await("validateCurrentPassword",
           [current |-> current, new |-> new, alive |-> TRUE])
  /\ UNCHANGED <<screen, db>>

\* An answer that is not "valid", or none, ends the handler.
CurrentPasswordChecked(s) ==
  /\ screen = "rotation" /\ Answered(s, "validateCurrentPassword")
  /\ IF calls[s].outcome = "ok" /\ calls[s].data = "valid"
     THEN /\ AwaitNext(s, "rotateMasterPassword", calls[s].arg)
          /\ ui' = IF calls[s].arg.alive THEN [ui EXCEPT !.isRotating = TRUE]
                   ELSE ui
     ELSE Finish(s) /\ UNCHANGED ui
  /\ UNCHANGED <<screen, db>>

\* Not the code: the page stays where it is.
RotationShrugged(s) ==
  /\ screen = "rotation" /\ Answered(s, "rotateMasterPassword")
  /\ calls[s].outcome = "ok"
  /\ ui' = IF calls[s].arg.alive THEN [ui EXCEPT !.isRotating = FALSE] ELSE ui
  /\ Finish(s)
  /\ UNCHANGED <<screen, db>>

\* clearMasterSessionToken and forceLock reach whatever page is mounted by
\* then, and the session it works with.
RotationSucceeded(s) ==
  /\ screen = "rotation" /\ Answered(s, "rotateMasterPassword")
  /\ calls[s].outcome = "ok"
  /\ ui' = Unmounted
  /\ calls' = [t \in Slots |-> IF t = s THEN Idle ELSE Abandoned(calls[t])]
  /\ db' = [db EXCEPT !.session = FALSE]
  /\ UNCHANGED screen

RotationFailed(s) ==
  /\ screen = "rotation" /\ Answered(s, "rotateMasterPassword")
  /\ calls[s].outcome # "ok"
  /\ ui' = IF calls[s].arg.alive
           THEN [ui EXCEPT !.isRotating = FALSE, !.uncertain = TRUE] ELSE ui
  /\ Finish(s)
  /\ UNCHANGED <<screen, db>>

RotationStep ==
  \/ RotationMount \/ RotationLeave
  \/ \E c, n \in Passwords : RotationSubmit(c, n)

RotationHandle(s) ==
  \/ RotationEstimated(s) \/ CurrentPasswordChecked(s)
  \/ RotationSucceeded(s) \/ RotationFailed(s)
=============================================================================

--------------------------- MODULE PasswordLease ---------------------------
(***************************************************************************)
(* What the password cache promises: a password that was put in is handed  *)
(* out until its term is over or until nobody has used it for Idle units   *)
(* of time, whichever comes first, and at that very moment it is gone.     *)
(* Using it restarts the idle time and never the term.                     *)
(***************************************************************************)

EXTENDS Naturals

CONSTANTS Passwords, Terms, Idle, None

VARIABLES
    held,    \* the password, or None
    term,    \* time left until it is dropped, used or not
    idle,    \* time left until it is dropped unless it is used
    given    \* the last password handed out

vars == <<held, term, idle, given>>

Init == held = None /\ term = 0 /\ idle = 0 /\ given = None

Grant(p, h) == held' = p /\ term' = h /\ idle' = Idle /\ UNCHANGED given

Touch == held # None /\ idle' = Idle /\ UNCHANGED <<held, term, given>>

Give == held # None /\ given' = held /\ idle' = Idle /\ UNCHANGED <<held, term>>

Extend(h) ==
    held # None /\ term' = h /\ idle' = Idle /\ UNCHANGED <<held, given>>

Drop == held' = None /\ term' = 0 /\ idle' = 0 /\ UNCHANGED given

Tick ==
    /\ term > 1 /\ idle > 1
    /\ term' = term - 1 /\ idle' = idle - 1
    /\ UNCHANGED <<held, given>>

RunOut == held # None /\ (term = 1 \/ idle = 1) /\ Drop

Next ==
    \/ \E h \in Terms : Extend(h) \/ \E p \in Passwords : Grant(p, h)
    \/ Touch \/ Give \/ Drop \/ Tick \/ RunOut

Spec == Init /\ [][Next]_vars

=============================================================================

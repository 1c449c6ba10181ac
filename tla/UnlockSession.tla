--------------------------- MODULE UnlockSession ---------------------------
(***************************************************************************)
(* The password cache (MasterPasswordCache) and the master sessions        *)
(* (MasterSessionManager) of the running backend, and the requests that    *)
(* use both.  A request is authenticated against its session in the        *)
(* middleware; its handler runs later, on the same event loop, when other  *)
(* requests have run and time has passed, and does not look again.         *)
(*                                                                         *)
(* Deadlines are kept as the time left until them, in units that both the  *)
(* terms (hours) and the idle timeout (minutes) are multiples of.  Nothing *)
(* happens in the code when a deadline passes: the next one to ask locks   *)
(* the cache or drops the session.                                         *)
(***************************************************************************)

EXTENDS Naturals

CONSTANTS
    Passwords,   \* master passwords the unlock handler has validated
    Terms,       \* ttl_hours and additional_hours of a request
    Idle,        \* master_password_idle_timeout_minutes
    Tokens,      \* session tokens ever created: bounds the unlocks
    Requests,    \* slots for requests being served
    None

ASSUME TermsArePositive == Terms \subseteq Nat \ {0} /\ Idle \in Nat \ {0}

ASSUME NoneIsNothing == None \notin Passwords \cup Tokens

VARIABLES
    cache,      \* the global password cache
    session,    \* the sessions, by token
    given,      \* the last password the cache handed out
    req         \* the requests being served

vars == <<cache, session, given, req>>

----------------------------------------------------------------------------

Locked == [pw |-> None, term |-> 0, idle |-> 0]

\* _is_expired, with its two deadlines
Expired == cache.term = 0 \/ cache.idle = 0

\* Mutant: the idle deadline is forgotten
UnlockedUntilTerm == cache # Locked /\ cache.term > 0

\* is_unlocked
Unlocked == cache # Locked /\ ~Expired

\* What asking for is_unlocked leaves: an expired cache is locked
AskedWhetherUnlocked == IF Unlocked THEN cache ELSE Locked

\* Mutant: the term taken for the idle timeout
AccessedForTerm == [cache EXCEPT !.idle = cache.term]

\* _update_access_tracking
Accessed == [cache EXCEPT !.idle = Idle]

\* A token that was never created, a session that was removed, one that is in
\* the dictionary: left is the time to expires_at, quiet the time since
\* last_activity_at (one unit beyond Idle is as good as more)
Unissued   == [form |-> "unissued", left |-> 0, quiet |-> 0]
Gone       == [form |-> "gone", left |-> 0, quiet |-> 0]
Kept(left) == [form |-> "kept", left |-> left, quiet |-> 0]

IsKept(s) == s.form = "kept"

\* get_session accepts it: expires_at excludes, the idle timeout includes
\* its last moment
Valid(s) == IsKept(s) /\ s.left > 0 /\ s.quiet <= Idle

NoRequest == [step |-> "idle", token |-> None, pw |-> None, term |-> 0]

End(r) == req' = [req EXCEPT ![r] = NoRequest]

Serving(r) == req[r].step = "serving"

Init ==
    /\ cache = Locked
    /\ session = [t \in Tokens |-> Unissued]
    /\ given = None
    /\ req = [r \in Requests |-> NoRequest]

----------------------------------------------------------------------------
(* Unlock and authentication. *)

\* The unlock handler has read the database and p opens what it tried
UnlockStart(r, p, h) ==
    /\ req[r] = NoRequest
    /\ req' = [req EXCEPT ![r] = [step |-> "unlock", token |-> None, pw |-> p, term |-> h]]
    /\ UNCHANGED <<cache, session, given>>

\* cache.unlock and create_session, with nothing awaited in between
UnlockFinish(r, t) ==
    LET q == req[r] IN
    /\ q.step = "unlock"
    /\ session[t] = Unissued
    /\ cache' = [pw |-> q.pw, term |-> q.term, idle |-> Idle]
    /\ session' = [session EXCEPT ![t] = Kept(q.term)]
    /\ End(r)
    /\ UNCHANGED given

Serve(r, t) ==
    req' = [req EXCEPT ![r] = [step |-> "serving", token |-> t, pw |-> None, term |-> 0]]

\* Mutant: the activity is recorded before it is looked at
AuthenticateTouchesFirst(r, t) ==
    /\ req[r] = NoRequest
    /\ IsKept(session[t])
    /\ IF session[t].left > 0
       THEN /\ session' = [session EXCEPT ![t] = Kept(session[t].left)]
            /\ Serve(r, t)
       ELSE /\ session' = [session EXCEPT ![t] = Gone]
            /\ UNCHANGED req
    /\ UNCHANGED <<cache, given>>

\* The middleware: get_session refreshes a valid session, drops an expired one
Authenticate(r, t) ==
    /\ req[r] = NoRequest
    /\ IsKept(session[t])
    /\ IF Valid(session[t])
       THEN /\ session' = [session EXCEPT ![t] = Kept(session[t].left)]
            /\ Serve(r, t)
       ELSE /\ session' = [session EXCEPT ![t] = Gone]
            /\ UNCHANGED req
    /\ UNCHANGED <<cache, given>>

\* An answer, an error or a client that went away
Finish(r) ==
    /\ req[r] # NoRequest
    /\ End(r)
    /\ UNCHANGED <<cache, session, given>>

----------------------------------------------------------------------------
(* Handlers of authenticated requests. *)

\* POST /lock, and a successful rotation of the master password: the global
\* cache and the session of the caller, no other one
LockHandler(r) ==
    /\ Serving(r)
    /\ cache' = Locked
    /\ session' = [session EXCEPT ![req[r].token] = Gone]
    /\ End(r)
    /\ UNCHANGED given

\* Mutant: a session that was removed is put back
ExtendedOrPutBack(t, h) == [session EXCEPT ![t] = Kept(h)]

\* extend_session: whatever is still in the dictionary, expired or not
Extended(t, h) ==
    [session EXCEPT ![t] = IF IsKept(session[t]) THEN Kept(h) ELSE session[t]]

\* POST /extend-ttl: the new term replaces the old one, also a longer one
ExtendHandler(r, h) ==
    /\ Serving(r)
    /\ IF Unlocked
       THEN /\ cache' = [pw |-> cache.pw, term |-> h, idle |-> Idle]
            /\ session' = Extended(req[r].token, h)
       ELSE cache' = Locked /\ UNCHANGED session
    /\ End(r)
    /\ UNCHANGED given

\* POST /refresh-access
RefreshHandler(r) ==
    /\ Serving(r)
    /\ cache' = IF Unlocked THEN Accessed ELSE Locked
    /\ End(r)
    /\ UNCHANGED <<session, given>>

\* GET /is-unlocked, open to all, and GET /status
Status ==
    /\ cache' = AskedWhetherUnlocked
    /\ UNCHANGED <<session, given, req>>

\* Mutant: using the password restarts its term
GetPasswordSliding(r) ==
    /\ Serving(r)
    /\ IF Unlocked
       THEN /\ \E h \in Terms : cache' = [pw |-> cache.pw, term |-> h, idle |-> Idle]
            /\ given' = cache.pw
            /\ req' = [req EXCEPT ![r].pw = cache.pw]
       ELSE cache' = Locked /\ End(r) /\ UNCHANGED given
    /\ UNCHANGED session

\* get_master_password: an expired cache fails the request
GetPassword(r) ==
    /\ Serving(r)
    /\ IF Unlocked
       THEN /\ cache' = Accessed
            /\ given' = cache.pw
            /\ req' = [req EXCEPT ![r].pw = cache.pw]
       ELSE cache' = Locked /\ End(r) /\ UNCHANGED given
    /\ UNCHANGED session

\* utils.get_master_password with the password the request took before: the
\* cache may have been locked since, and then the old password is used, or it
\* holds another one, and then the comparison counts as an access
GetPasswordAgain(r) ==
    LET p == req[r].pw IN
    /\ Serving(r)
    /\ p # None
    /\ cache' = IF Unlocked THEN Accessed ELSE Locked
    /\ given' = IF Unlocked /\ cache.pw = p THEN p ELSE given
    /\ IF Unlocked /\ cache.pw # p THEN End(r) ELSE UNCHANGED req
    /\ UNCHANGED session

----------------------------------------------------------------------------

Down(n) == IF n = 0 THEN 0 ELSE n - 1

Older(s) ==
    [form  |-> s.form,
     left  |-> Down(s.left),
     quiet |-> IF IsKept(s) /\ s.quiet <= Idle THEN s.quiet + 1 ELSE s.quiet]

Tick ==
    /\ cache' = [pw |-> cache.pw, term |-> Down(cache.term), idle |-> Down(cache.idle)]
    /\ session' = [t \in Tokens |-> Older(session[t])]
    /\ UNCHANGED <<given, req>>

\* The process restarts: all of this is memory
Restart ==
    /\ cache' = Locked
    /\ session' = [t \in Tokens |-> IF session[t] = Unissued THEN Unissued ELSE Gone]
    /\ req' = [r \in Requests |-> NoRequest]
    /\ UNCHANGED given

UnlockRequest(r) ==
    \/ \E p \in Passwords, h \in Terms : UnlockStart(r, p, h)
    \/ \E t \in Tokens : UnlockFinish(r, t)

Handler(r) ==
    \/ LockHandler(r)
    \/ \E h \in Terms : ExtendHandler(r, h)
    \/ RefreshHandler(r)
    \/ GetPassword(r)
    \/ GetPasswordAgain(r)

Next ==
    \/ \E r \in Requests : \/ UnlockRequest(r)
                           \/ \E t \in Tokens : Authenticate(r, t)
                           \/ Handler(r)
                           \/ Finish(r)
    \/ Status
    \/ Tick
    \/ Restart

\* Time passes; no request need ever come or be answered
Spec == Init /\ [][Next]_vars /\ WF_vars(Tick)

----------------------------------------------------------------------------
(* Properties. *)

Request ==
    [step : {"idle", "unlock", "serving"}, token : Tokens \cup {None},
     pw : Passwords \cup {None}, term : Nat]

\* A cache is locked or holds a password, a session that is not in the
\* dictionary has no time left, and a request being served has a token that
\* was created.
TypeOK ==
    /\ \/ cache = Locked
       \/ cache \in [pw : Passwords, term : Nat, idle : 0 .. Idle]
    /\ session \in [Tokens -> {Unissued, Gone}
                       \cup [form : {"kept"}, left : Nat, quiet : 0 .. Idle + 1]]
    /\ given \in Passwords \cup {None}
    /\ req \in [Requests -> Request]
    /\ \A r \in Requests :
         /\ req[r].step = "unlock" => req[r].pw \in Passwords /\ req[r].term \in Terms
         /\ req[r].step = "serving" =>
              req[r].token \in Tokens /\ session[req[r].token] # Unissued

\* A session that was dropped - logged out, found expired, lost in a restart -
\* never comes back, whatever requests of it are still being served.
GoneForGood ==
    [][\A t \in Tokens : session[t] = Gone => session'[t] = Gone]_vars

\* A session that ran out while no request of it was being served is not
\* accepted again: only a request that was accepted in time can extend it.
ExpiredStaysExpired ==
    [][\A t \in Tokens :
         /\ session[t] # Unissued /\ ~Valid(session[t])
         /\ \A r \in Requests : req[r].token # t
         => ~Valid(session'[t])]_vars

Renewing == \E r \in Requests, h \in Terms :
    ExtendHandler(r, h) \/ \E t \in Tokens : UnlockFinish(r, t)

\* However busily the password and the sessions are used, without another
\* unlock or extension the cache is at last locked to everyone and every
\* session refused (the "absolute expiration" of _is_expired and get_session).
UseAloneRunsOut ==
    <>[][~Renewing]_vars => <>[](~Unlocked /\ \A t \in Tokens : ~Valid(session[t]))

\* DEVICE_CONFIG_API.md: "Master sessions are in-memory only and expire with
\* the master password cache TTL and idle timeout": a session is accepted only
\* while the cache is unlocked, or at the last moment of its own idle timeout.
SessionsExpireWithCache ==
    [][\A r \in Requests : req[r] = NoRequest /\ req'[r].step = "serving" =>
          Unlocked \/ session[req'[r].token].quiet = Idle]_vars

\* The lazily locked cache keeps the promise of one that drops its password at
\* the deadline itself.
Lease == INSTANCE PasswordLease WITH
    held <- IF Unlocked THEN cache.pw ELSE None,
    term <- IF Unlocked THEN cache.term ELSE 0,
    idle <- IF Unlocked THEN cache.idle ELSE 0

ImplementsLease == Lease!Spec

=============================================================================

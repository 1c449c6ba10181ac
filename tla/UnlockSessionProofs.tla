------------------------- MODULE UnlockSessionProofs -------------------------
(***************************************************************************)
(* Proofs about UnlockSession, for any sets of passwords, terms, tokens    *)
(* and requests and any idle timeout: the types, that a dropped session    *)
(* never comes back, that one that ran out is extended only by a request   *)
(* it accepted before, and that the lazily locked cache implements the     *)
(* lease of PasswordLease.                                                 *)
(***************************************************************************)

EXTENDS UnlockSession, TLAPS

USE TermsArePositive, NoneIsNothing DEF Locked, Unissued, Gone, NoRequest

LEMMA DownIsNat == ASSUME NEW n \in Nat PROVE Down(n) \in Nat /\ Down(n) <= n
  BY DEF Down

\* What the three parts of the state look like, each on its own: the types,
\* without the conjunct that relates requests and sessions
CacheOK   == \/ cache = Locked
             \/ cache \in [pw : Passwords, term : Nat, idle : 0 .. Idle]
Session   == {Unissued, Gone}
               \cup [form : {"kept"}, left : Nat, quiet : 0 .. Idle + 1]
SessionOK == session \in [Tokens -> Session]
RequestOK(q) ==
    /\ q.step = "unlock" => q.pw \in Passwords /\ q.term \in Terms
    /\ q.step = "serving" => q.token \in Tokens /\ session[q.token] # Unissued

LEMMA TypeParts ==
    TypeOK <=> /\ CacheOK /\ SessionOK /\ given \in Passwords \cup {None}
               /\ req \in [Requests -> Request]
               /\ \A r \in Requests : RequestOK(req[r])
  BY DEF TypeOK, CacheOK, SessionOK, Session, RequestOK

\* Sessions only move forward: a token in use stays in use
Forward == \A t \in Tokens : session[t] # Unissued => session'[t] # Unissued

LEMMA KeptIsSession == \A h \in Nat : Kept(h) \in Session /\ Kept(h) # Unissued
  BY DEF Kept, Session

\* A tick changes no form and makes no session valid
LEMMA OlderSession ==
  ASSUME NEW s \in Session
  PROVE  /\ Older(s) \in Session
         /\ s = Gone => Older(s) = Gone
         /\ s # Unissued => Older(s) # Unissued
         /\ ~Valid(s) => ~Valid(Older(s))
  <1>1. CASE s = Unissued \/ s = Gone
    BY <1>1 DEF Older, Down, IsKept, Valid, Session
  <1>2. CASE s \in [form : {"kept"}, left : Nat, quiet : 0 .. Idle + 1]
    <2>1. /\ s.form = "kept" /\ s.left \in Nat /\ s.quiet \in 0 .. Idle + 1
          /\ Down(s.left) \in Nat /\ Down(s.left) <= s.left
      BY <1>2, DownIsNat
    <2>2. Older(s) = [form |-> "kept", left |-> Down(s.left),
                      quiet |-> IF s.quiet <= Idle THEN s.quiet + 1 ELSE s.quiet]
      BY <2>1 DEF Older, IsKept
    <2>3. Older(s) \in Session
      BY <2>1, <2>2 DEF Session
    <2>4. ~Valid(s) => ~Valid(Older(s))
      BY <2>1, <2>2 DEF Valid, IsKept
    <2> QED
      BY <2>1, <2>2, <2>3, <2>4
  <1> QED
    BY <1>1, <1>2 DEF Session

----------------------------------------------------------------------------
(* Every step changes the cache and the sessions in one of a few ways. *)

LEMMA CacheStep ==
  ASSUME TypeOK, [Next]_vars
  PROVE  \/ cache' = Locked
         \/ cache' = cache
         \/ Unlocked /\ cache' = Accessed
         \/ \E h \in Terms : Unlocked /\ cache' = [pw |-> cache.pw, term |-> h, idle |-> Idle]
         \/ \E p \in Passwords, h \in Terms :
               cache' = [pw |-> p, term |-> h, idle |-> Idle]
         \/ cache' = [pw |-> cache.pw, term |-> Down(cache.term), idle |-> Down(cache.idle)]
  <1>1. CASE UNCHANGED vars
    BY <1>1 DEF vars
  <1>2. ASSUME NEW r \in Requests, UnlockRequest(r)
        PROVE  \/ cache' = cache
               \/ \E p \in Passwords, h \in Terms :
                     cache' = [pw |-> p, term |-> h, idle |-> Idle]
    BY <1>2 DEF UnlockRequest, UnlockStart, UnlockFinish, TypeOK
  <1>3. ASSUME NEW r \in Requests, NEW t \in Tokens, Authenticate(r, t)
        PROVE  cache' = cache
    BY <1>3 DEF Authenticate
  <1>4. ASSUME NEW r \in Requests, Handler(r)
        PROVE  \/ cache' = Locked
               \/ Unlocked /\ cache' = Accessed
               \/ \E h \in Terms :
                     Unlocked /\ cache' = [pw |-> cache.pw, term |-> h, idle |-> Idle]
    BY <1>4 DEF Handler, LockHandler, ExtendHandler, RefreshHandler, GetPassword,
                GetPasswordAgain
  <1>5. ASSUME NEW r \in Requests, Finish(r)
        PROVE  cache' = cache
    BY <1>5 DEF Finish
  <1>6. CASE Status
    BY <1>6 DEF Status, AskedWhetherUnlocked
  <1>7. CASE Tick
    BY <1>7 DEF Tick
  <1>8. CASE Restart
    BY <1>8 DEF Restart
  <1> QED
    BY <1>1, <1>2, <1>3, <1>4, <1>5, <1>6, <1>7, <1>8 DEF Next

LEMMA SessionStep ==
  ASSUME TypeOK, [Next]_vars, NEW t \in Tokens
  PROVE  \/ session'[t] = session[t]
         \/ session[t] = Unissued /\ \E h \in Terms : session'[t] = Kept(h)
         \/ Valid(session[t]) /\ session'[t] = Kept(session[t].left)
         \/ session[t] # Unissued /\ session'[t] = Gone
         \/ /\ IsKept(session[t])
            /\ \E r \in Requests : Serving(r) /\ req[r].token = t
            /\ \E h \in Terms : session'[t] = Kept(h)
         \/ session'[t] = Older(session[t])
  <1> USE DEF TypeOK, Valid, IsKept
  <1>1. CASE UNCHANGED vars
    BY <1>1 DEF vars
  <1>2. ASSUME NEW r \in Requests, UnlockRequest(r)
        PROVE  \/ session'[t] = session[t]
               \/ session[t] = Unissued /\ \E h \in Terms : session'[t] = Kept(h)
    BY <1>2 DEF UnlockRequest, UnlockStart, UnlockFinish
  <1>3. ASSUME NEW r \in Requests, NEW u \in Tokens, Authenticate(r, u)
        PROVE  \/ session'[t] = session[t]
               \/ Valid(session[t]) /\ session'[t] = Kept(session[t].left)
               \/ session[t] # Unissued /\ session'[t] = Gone
    BY <1>3 DEF Authenticate
  <1>4. ASSUME NEW r \in Requests, Handler(r)
        PROVE  \/ session'[t] = session[t]
               \/ session[t] # Unissued /\ session'[t] = Gone
               \/ /\ IsKept(session[t]) /\ Serving(r) /\ req[r].token = t
                  /\ \E h \in Terms : session'[t] = Kept(h)
    <2>1. CASE LockHandler(r)
      BY <2>1 DEF LockHandler, Serving
    <2>2. ASSUME NEW h \in Terms, ExtendHandler(r, h)
          PROVE  \/ session'[t] = session[t]
                 \/ /\ IsKept(session[t]) /\ Serving(r) /\ req[r].token = t
                    /\ session'[t] = Kept(h)
      BY <2>2 DEF ExtendHandler, Extended, Serving
    <2>3. CASE RefreshHandler(r) \/ GetPassword(r) \/ GetPasswordAgain(r)
      BY <2>3 DEF RefreshHandler, GetPassword, GetPasswordAgain
    <2> QED
      BY <1>4, <2>1, <2>2, <2>3 DEF Handler
  <1>5. ASSUME NEW r \in Requests, Finish(r)
        PROVE  session'[t] = session[t]
    BY <1>5 DEF Finish
  <1>6. CASE Status
    BY <1>6 DEF Status
  <1>7. CASE Tick
    BY <1>7 DEF Tick
  <1>8. CASE Restart
    BY <1>8 DEF Restart
  <1> QED
    BY <1>1, <1>2, <1>3, <1>4, <1>5, <1>6, <1>7, <1>8 DEF Next

----------------------------------------------------------------------------

LEMMA CacheType == ASSUME TypeOK, [Next]_vars PROVE CacheOK'
  <1>0. Terms \subseteq Nat /\ Idle \in 0 .. Idle
    OBVIOUS
  <1>1. ASSUME NEW p \in Passwords, NEW h \in Nat, NEW i \in 0 .. Idle,
               cache' = [pw |-> p, term |-> h, idle |-> i]
        PROVE  CacheOK'
    BY <1>1 DEF CacheOK
  <1>2. CASE cache' = Locked
    BY <1>2 DEF CacheOK
  <1>3. ASSUME cache # Locked
        PROVE  /\ cache.pw \in Passwords /\ cache.term \in Nat /\ cache.idle \in 0 .. Idle
               /\ cache = [pw |-> cache.pw, term |-> cache.term, idle |-> cache.idle]
    BY <1>3 DEF TypeOK
  <1>4. CASE Unlocked /\ cache' = Accessed
    <2>1. cache' = [pw |-> cache.pw, term |-> cache.term, idle |-> Idle]
      BY <1>3, <1>4 DEF Unlocked, Accessed
    <2> QED
      BY <1>0, <1>1, <1>3, <1>4, <2>1 DEF Unlocked
  <1>5. ASSUME NEW h \in Terms, Unlocked,
               cache' = [pw |-> cache.pw, term |-> h, idle |-> Idle]
        PROVE  CacheOK'
    BY <1>0, <1>1, <1>3, <1>5 DEF Unlocked
  <1>6. CASE cache' = [pw |-> cache.pw, term |-> Down(cache.term), idle |-> Down(cache.idle)]
    <2>1. CASE cache = Locked
      BY <1>2, <1>6, <2>1 DEF Down
    <2>2. CASE cache # Locked
      BY <1>1, <1>3, <1>6, <2>2, DownIsNat DEF Down
    <2> QED
      BY <2>1, <2>2
  <1>7. CASE cache' = cache
    BY <1>7 DEF TypeOK, CacheOK
  <1> QED
    BY <1>0, <1>1, <1>2, <1>4, <1>5, <1>6, <1>7, CacheStep

LEMMA SessionForward == ASSUME TypeOK, [Next]_vars PROVE SessionOK' /\ Forward
  <1>1. DOMAIN session' = Tokens /\ session' = [t \in Tokens |-> session'[t]]
    BY DEF TypeOK, Next, vars, UnlockRequest, UnlockStart, UnlockFinish, Authenticate,
           Handler, LockHandler, ExtendHandler, Extended, RefreshHandler, GetPassword,
           GetPasswordAgain, Finish, Status, Tick, Restart
  <1>2. ASSUME NEW t \in Tokens
        PROVE  session'[t] \in Session /\ (session[t] # Unissued => session'[t] # Unissued)
    <2>0. session[t] \in Session
      BY DEF TypeOK, Session
    <2>1. CASE session'[t] = Older(session[t])
      BY <2>0, <2>1, OlderSession
    <2>2. CASE Valid(session[t]) /\ session'[t] = Kept(session[t].left)
      <3>1. session[t].left \in Nat
        BY <2>0 DEF Session
      <3> QED
        BY <2>2, <3>1, KeptIsSession
    <2>3. ASSUME NEW h \in Terms, session'[t] = Kept(h)
          PROVE  session'[t] \in Session /\ (session[t] # Unissued => session'[t] # Unissued)
      BY <2>3, KeptIsSession
    <2> QED
      BY <2>0, <2>1, <2>2, <2>3, SessionStep DEF Session
  <1> QED
    BY <1>1, <1>2 DEF SessionOK, Forward

LEMMA RequestType ==
  ASSUME TypeOK, [Next]_vars
  PROVE  /\ given' \in Passwords \cup {None}
         /\ req' \in [Requests -> Request]
         /\ \A r \in Requests : RequestOK(req[r])'
  <1> USE DEF TypeOK, Request, RequestOK
  <1>0. Forward
    BY SessionForward
  <1>1. CASE UNCHANGED vars
    BY <1>1 DEF vars
  <1>2. ASSUME NEW r \in Requests, NEW p \in Passwords, NEW h \in Terms, UnlockStart(r, p, h)
        PROVE  /\ given' \in Passwords \cup {None}
               /\ req' \in [Requests -> Request]
               /\ \A q \in Requests : RequestOK(req[q])'
    BY <1>2 DEF UnlockStart
  <1>3. ASSUME NEW r \in Requests, req' = [req EXCEPT ![r] = NoRequest],
               given' = given
        PROVE  /\ given' \in Passwords \cup {None}
               /\ req' \in [Requests -> Request]
               /\ \A q \in Requests : RequestOK(req[q])'
    BY <1>0, <1>3 DEF Forward
  <1>4. ASSUME NEW r \in Requests, NEW t \in Tokens, Authenticate(r, t)
        PROVE  /\ given' \in Passwords \cup {None}
               /\ req' \in [Requests -> Request]
               /\ \A q \in Requests : RequestOK(req[q])'
    <2>1. CASE Valid(session[t])
      BY <1>4, <2>1, <1>0 DEF Authenticate, Serve, Kept, Forward
    <2>2. CASE ~Valid(session[t])
      BY <1>4, <2>2, <1>0 DEF Authenticate, Forward
    <2> QED
      BY <2>1, <2>2
  <1>5. ASSUME NEW r \in Requests, GetPassword(r)
        PROVE  /\ given' \in Passwords \cup {None}
               /\ req' \in [Requests -> Request]
               /\ \A q \in Requests : RequestOK(req[q])'
    <2>1. CASE Unlocked
      <3>1. cache.pw \in Passwords
        BY <2>1 DEF Unlocked
      <3> QED
        BY <1>5, <2>1, <3>1 DEF GetPassword, Serving
    <2>2. CASE ~Unlocked
      BY <1>3, <1>5, <2>2 DEF GetPassword, End
    <2> QED
      BY <2>1, <2>2
  <1>6. ASSUME NEW r \in Requests, GetPasswordAgain(r)
        PROVE  /\ given' \in Passwords \cup {None}
               /\ req' \in [Requests -> Request]
               /\ \A q \in Requests : RequestOK(req[q])'
    BY <1>6, <1>0 DEF GetPasswordAgain, End, Forward
  <1>7. ASSUME UNCHANGED <<given, req>>
        PROVE  /\ given' \in Passwords \cup {None}
               /\ req' \in [Requests -> Request]
               /\ \A q \in Requests : RequestOK(req[q])'
    BY <1>0, <1>7 DEF Forward
  <1>8. CASE Restart
    BY <1>8 DEF Restart
  <1>9. ASSUME NEW r \in Requests,
               \/ \E t \in Tokens : UnlockFinish(r, t)
               \/ LockHandler(r) \/ RefreshHandler(r) \/ Finish(r)
               \/ \E h \in Terms : ExtendHandler(r, h)
        PROVE  req' = [req EXCEPT ![r] = NoRequest] /\ given' = given
    BY <1>9 DEF UnlockFinish, LockHandler, RefreshHandler, Finish, ExtendHandler, End
  <1>10. CASE Status \/ Tick
    BY <1>7, <1>10 DEF Status, Tick
  <1> QED
    BY <1>1, <1>2, <1>3, <1>4, <1>5, <1>6, <1>8, <1>9, <1>10
       DEF Next, UnlockRequest, Handler

\* Types: whatever the requests do, a locked cache keeps nothing behind and
\* every request being served has a token that was once created.
THEOREM TypeInvariant == Spec => []TypeOK
  <1>1. Init => TypeOK
    BY DEF Init, TypeOK, Request
  <1>2. TypeOK /\ [Next]_vars => TypeOK'
    <2> SUFFICES ASSUME TypeOK, [Next]_vars
                 PROVE  TypeOK'
      OBVIOUS
    <2>1. CacheOK' /\ SessionOK'
      BY CacheType, SessionForward
    <2> QED
      BY <2>1, RequestType DEF TypeOK, CacheOK, SessionOK, Session, RequestOK
  <1> QED
    BY <1>1, <1>2, PTL DEF Spec

\* A dropped session never comes back: logging out is final, also for the
\* requests of the session that are still being served.
THEOREM GoneIsForGood == Spec => GoneForGood
  <1>1. TypeOK /\ [Next]_vars =>
          [\A t \in Tokens : session[t] = Gone => session'[t] = Gone]_vars
    <2> SUFFICES ASSUME TypeOK, [Next]_vars, NEW t \in Tokens, session[t] = Gone
                 PROVE  session'[t] = Gone
      OBVIOUS
    <2> QED
      BY SessionStep, OlderSession DEF Valid, IsKept, Session
  <1> QED
    BY <1>1, TypeInvariant, PTL DEF Spec, GoneForGood

\* A session that ran out is accepted again only if a request it had accepted
\* before extends it.
THEOREM ExpiredIsFinal == Spec => ExpiredStaysExpired
  <1>1. TypeOK /\ [Next]_vars =>
          [\A t \in Tokens :
             /\ session[t] # Unissued /\ ~Valid(session[t])
             /\ \A r \in Requests : req[r].token # t
             => ~Valid(session'[t])]_vars
    <2> SUFFICES ASSUME TypeOK, [Next]_vars, NEW t \in Tokens,
                        session[t] # Unissued, ~Valid(session[t]),
                        \A r \in Requests : req[r].token # t
                 PROVE  ~Valid(session'[t])
      OBVIOUS
    <2>1. session[t] \in Session
      BY DEF TypeOK, Session
    <2>2. ~(\E r \in Requests : Serving(r) /\ req[r].token = t)
      OBVIOUS
    <2>3. ~Valid(Gone)
      BY DEF Valid, IsKept
    <2> QED
      BY <2>1, <2>2, <2>3, SessionStep, OlderSession
  <1> QED
    BY <1>1, TypeInvariant, PTL DEF Spec, ExpiredStaysExpired

----------------------------------------------------------------------------
(* Refinement.  What the cache means to a reader, before and after a step. *)

Meaning(c) ==
    IF c # Locked /\ c.term # 0 /\ c.idle # 0 THEN c ELSE Locked

\* A step of the cache is a step of the lease, from one meaning to the next
LeaseStep(c, d, g, h) ==
    \/ c = d /\ g = h
    \/ d = Locked /\ g = h
    \/ c # Locked /\ d = [pw |-> c.pw, term |-> c.term, idle |-> Idle] /\ h \in {g, c.pw}
    \/ c # Locked /\ g = h /\ \E t \in Terms : d = [pw |-> c.pw, term |-> t, idle |-> Idle]
    \/ g = h /\ \E p \in Passwords, t \in Terms : d = [pw |-> p, term |-> t, idle |-> Idle]
    \/ /\ g = h /\ c # Locked /\ c.term > 1 /\ c.idle > 1
       /\ d = [pw |-> c.pw, term |-> c.term - 1, idle |-> c.idle - 1]

LEMMA MeaningIsMapped ==
  /\ (IF Unlocked THEN cache.pw ELSE None) = Meaning(cache).pw
  /\ (IF Unlocked THEN cache.term ELSE 0) = Meaning(cache).term
  /\ (IF Unlocked THEN cache.idle ELSE 0) = Meaning(cache).idle
  BY DEF Meaning, Unlocked, Expired

LEMMA MeaningOfUnlocked ==
  ASSUME TypeOK, Unlocked
  PROVE  /\ Meaning(cache) = cache /\ cache # Locked
         /\ Accessed = [pw |-> cache.pw, term |-> cache.term, idle |-> Idle]
         /\ cache.pw \in Passwords /\ cache.term \in Nat \ {0} /\ cache.idle \in Nat \ {0}
         /\ Meaning(Accessed) = Accessed
         /\ \A h \in Terms : LET c == [pw |-> cache.pw, term |-> h, idle |-> Idle]
                            IN  Meaning(c) = c
  <1>1. cache \in [pw : Passwords, term : Nat, idle : 0 .. Idle]
    BY DEF TypeOK, Unlocked
  <1>2. cache.term # 0 /\ cache.idle # 0
    BY DEF Unlocked, Expired
  <1>3. Accessed = [pw |-> cache.pw, term |-> cache.term, idle |-> Idle]
    BY <1>1 DEF Accessed
  <1> QED
    BY <1>1, <1>2, <1>3 DEF Meaning, Unlocked

LEMMA MeaningOfGrant ==
  ASSUME NEW p \in Passwords, NEW h \in Terms
  PROVE  LET c == [pw |-> p, term |-> h, idle |-> Idle] IN Meaning(c) = c
  BY DEF Meaning

LEMMA MeaningOfTick ==
  ASSUME TypeOK, cache' = [pw |-> cache.pw, term |-> Down(cache.term), idle |-> Down(cache.idle)]
  PROVE  \/ Meaning(cache') = Locked
         \/ LET c == Meaning(cache) IN
            /\ c # Locked /\ c.term > 1 /\ c.idle > 1
            /\ Meaning(cache') = [pw |-> c.pw, term |-> c.term - 1, idle |-> c.idle - 1]
  <1>1. CASE Unlocked /\ cache.term > 1 /\ cache.idle > 1
    <2>1. Meaning(cache) = cache /\ cache.term \in Nat /\ cache.idle \in Nat
      BY <1>1, MeaningOfUnlocked
    <2>2. cache' = [pw |-> cache.pw, term |-> cache.term - 1, idle |-> cache.idle - 1]
      BY <1>1, <2>1 DEF Down
    <2>3. cache.term - 1 # 0 /\ cache.idle - 1 # 0
      BY <1>1, <2>1
    <2> QED
      BY <1>1, <2>1, <2>2, <2>3 DEF Meaning, Unlocked
  <1>2. CASE Unlocked /\ ~(cache.term > 1 /\ cache.idle > 1)
    <2>1. cache.term \in Nat \ {0} /\ cache.idle \in Nat \ {0}
      BY <1>2, MeaningOfUnlocked
    <2>2. Down(cache.term) = 0 \/ Down(cache.idle) = 0
      BY <1>2, <2>1 DEF Down
    <2> QED
      BY <2>2 DEF Meaning
  <1>3. CASE ~Unlocked
    <2>1. cache = Locked \/ cache.term = 0 \/ cache.idle = 0
      BY <1>3 DEF Unlocked, Expired
    <2>2. cache'.term = 0 \/ cache'.idle = 0
      BY <2>1 DEF Down
    <2> QED
      BY <2>2 DEF Meaning
  <1> QED
    BY <1>1, <1>2, <1>3

LEMMA StepIsLeaseStep ==
  ASSUME TypeOK, [Next]_vars
  PROVE  LeaseStep(Meaning(cache), Meaning(cache'), given, given')
  <1>0. Meaning(Locked) = Locked /\ (~Unlocked => Meaning(cache) = Locked)
    BY DEF Meaning, Unlocked, Expired
  <1>1. CASE cache' = cache /\ given' = given
    BY <1>1 DEF LeaseStep
  <1>2. CASE cache' = Locked /\ given' = given
    BY <1>0, <1>2 DEF LeaseStep
  <1>3. CASE Unlocked /\ cache' = Accessed /\ given' \in {given, cache.pw}
    BY <1>3, MeaningOfUnlocked DEF LeaseStep
  <1>4. ASSUME NEW h \in Terms, Unlocked, given' = given,
               cache' = [pw |-> cache.pw, term |-> h, idle |-> Idle]
        PROVE  LeaseStep(Meaning(cache), Meaning(cache'), given, given')
    BY <1>4, MeaningOfUnlocked DEF LeaseStep
  <1>5. ASSUME NEW r \in Requests, UnlockRequest(r)
        PROVE  LeaseStep(Meaning(cache), Meaning(cache'), given, given')
    <2>1. ASSUME NEW t \in Tokens, UnlockFinish(r, t)
          PROVE  LeaseStep(Meaning(cache), Meaning(cache'), given, given')
      BY <2>1, MeaningOfGrant DEF UnlockFinish, TypeOK, LeaseStep
    <2> QED
      BY <1>1, <1>5, <2>1 DEF UnlockRequest, UnlockStart
  <1>6. ASSUME NEW r \in Requests, Handler(r)
        PROVE  LeaseStep(Meaning(cache), Meaning(cache'), given, given')
    <2>1. CASE LockHandler(r)
      BY <1>2, <2>1 DEF LockHandler
    <2>2. ASSUME NEW h \in Terms, ExtendHandler(r, h)
          PROVE  LeaseStep(Meaning(cache), Meaning(cache'), given, given')
      BY <1>2, <1>4, <2>2 DEF ExtendHandler
    <2>3. CASE RefreshHandler(r)
      BY <1>2, <1>3, <2>3 DEF RefreshHandler
    <2>4. CASE GetPassword(r)
      BY <1>2, <1>3, <2>4 DEF GetPassword
    <2>5. CASE GetPasswordAgain(r)
      BY <1>2, <1>3, <2>5 DEF GetPasswordAgain
    <2> QED
      BY <1>6, <2>1, <2>2, <2>3, <2>4, <2>5 DEF Handler
  <1>7. CASE Tick
    <2>1. /\ cache' = [pw |-> cache.pw, term |-> Down(cache.term), idle |-> Down(cache.idle)]
          /\ given' = given
      BY <1>7 DEF Tick
    <2> QED
      BY <2>1, MeaningOfTick DEF LeaseStep
  <1>8. CASE Status \/ Restart
    BY <1>1, <1>2, <1>8 DEF Status, Restart, AskedWhetherUnlocked
  <1>9. ASSUME NEW r \in Requests, Finish(r) \/ \E t \in Tokens : Authenticate(r, t)
        PROVE  cache' = cache /\ given' = given
    BY <1>9 DEF Finish, Authenticate
  <1>10. CASE UNCHANGED vars
    BY <1>1, <1>10 DEF vars
  <1> QED
    BY <1>1, <1>5, <1>6, <1>7, <1>8, <1>9, <1>10 DEF Next

LEMMA LeaseStepIsNext ==
  ASSUME LeaseStep(Meaning(cache), Meaning(cache'), given, given'), TypeOK
  PROVE  [Lease!Next]_(Lease!vars)
  <1> USE MeaningIsMapped
  <1>0. /\ (IF Unlocked' THEN cache'.pw ELSE None) = Meaning(cache').pw
        /\ (IF Unlocked' THEN cache'.term ELSE 0) = Meaning(cache').term
        /\ (IF Unlocked' THEN cache'.idle ELSE 0) = Meaning(cache').idle
    BY DEF Meaning, Unlocked, Expired
  <1>1. CASE Meaning(cache') = Meaning(cache) /\ given' = given
    BY <1>0, <1>1 DEF Lease!vars
  <1>2. CASE Meaning(cache') = Locked /\ given' = given
    BY <1>0, <1>2 DEF Lease!Next, Lease!Drop
  <1>3. CASE /\ Meaning(cache) # Locked /\ given' \in {given, Meaning(cache).pw}
             /\ Meaning(cache') = [pw |-> Meaning(cache).pw, term |-> Meaning(cache).term,
                                   idle |-> Idle]
    <2>1. Meaning(cache).pw # None
      BY <1>3 DEF TypeOK, Meaning
    <2>2. CASE given' = given
      BY <1>0, <1>3, <2>1, <2>2 DEF Lease!Next, Lease!Touch
    <2>3. CASE given' = Meaning(cache).pw
      BY <1>0, <1>3, <2>1, <2>3 DEF Lease!Next, Lease!Give
    <2> QED
      BY <1>3, <2>2, <2>3
  <1>4. ASSUME NEW h \in Terms, Meaning(cache) # Locked, given' = given,
               Meaning(cache') = [pw |-> Meaning(cache).pw, term |-> h, idle |-> Idle]
        PROVE  Lease!Next
    <2>1. Meaning(cache).pw # None
      BY <1>4 DEF TypeOK, Meaning
    <2>2. Lease!Extend(h)
      BY <1>0, <1>4, <2>1 DEF Lease!Extend
    <2> QED
      BY <2>2 DEF Lease!Next
  <1>5. ASSUME NEW p \in Passwords, NEW h \in Terms, given' = given,
               Meaning(cache') = [pw |-> p, term |-> h, idle |-> Idle]
        PROVE  Lease!Next
    <2>1. Lease!Grant(p, h)
      BY <1>0, <1>5 DEF Lease!Grant
    <2> QED
      BY <2>1 DEF Lease!Next
  <1>6. CASE /\ given' = given
             /\ Meaning(cache) # Locked /\ Meaning(cache).term > 1 /\ Meaning(cache).idle > 1
             /\ Meaning(cache') = [pw |-> Meaning(cache).pw, term |-> Meaning(cache).term - 1,
                                   idle |-> Meaning(cache).idle - 1]
    BY <1>0, <1>6 DEF Lease!Next, Lease!Tick
  <1> QED
    BY <1>1, <1>2, <1>3, <1>4, <1>5, <1>6 DEF LeaseStep

\* The cache, locked only when somebody asks, keeps the promise of a password
\* that is gone at its deadline.
THEOREM CacheIsALease == Spec => ImplementsLease
  <1>1. Init => Lease!Init
    BY DEF Init, Lease!Init, Unlocked
  <1>2. TypeOK /\ [Next]_vars => [Lease!Next]_(Lease!vars)
    BY StepIsLeaseStep, LeaseStepIsNext
  <1> QED
    BY <1>1, <1>2, TypeInvariant, PTL DEF Spec, ImplementsLease, Lease!Spec

=============================================================================

-------------------------- MODULE DeviceKeysProofs --------------------------
(***************************************************************************)
(* Theorems about DeviceKeys, for any numbers of API keys, links, DEKs and *)
(* values, and for any number of requests that overlap.                    *)
(*                                                                         *)
(* The argument: nothing a request read has gone stale when it commits.    *)
(* The DEK of a device that was created with one never changes, so for     *)
(* such a device this holds of the DEK whatever else is in flight; of the  *)
(* rows and preshared keys it holds while requests come one at a time.     *)
(***************************************************************************)
EXTENDS DeviceKeys, TLAPS

(***************************************************************************)
(* The inductive invariant.  What a request took from its first read is    *)
(* still so when it commits: the DEK for a device that was born with one,  *)
(* because it never changes then, and everything else while requests come  *)
(* one at a time.                                                          *)
(***************************************************************************)

Issuing == {"create", "rotate", "regenerate"}

OneWhenCalm ==
  calm => \A x, y \in Requests : req[x] # Idle /\ req[y] # Idle => x = y

NewKeysDiffer ==
  \A x, y \in Requests : x # y /\ req[x].new # None => req[y].new # req[x].new

NotYetIssued ==
  \A r \in Requests : req[r].op \in Issuing =>
    /\ req[r].new \in Keys
    /\ req[r].step = "read" => key[req[r].new] = Unissued

SyncIsIssuing ==
  \A r \in Requests : req[r].step \in {"issued", "sync"} => req[r].op \in Issuing

HolderIsKnown ==
  \A r \in Requests :
    /\ req[r].op = "shared" => req[r].at \in Shared
    /\ req[r].op = "link" =>
         req[r].at \in Links /\ (req[r].val # None => req[r].dek # None)

BornWithDek == born = "dek" => dev.dek # None

DekIsCurrent ==
  Sound => \A r \in Requests : req[r].op \in UsesDek => req[r].dek = dev.dek

HandedHaveWraps ==
  Sound => \A k \in handed : IsRow(key[k]) /\ dev.dek # None /\ key[k].wrap = dev.dek

RowIsCurrent ==
  calm => \A r \in Requests :
    req[r].step = "read" /\ req[r].op \in Issuing \cup {"revoke"}
      /\ req[r].old # None => req[r].seen[req[r].old] = key[req[r].old]

PsksAreCurrent ==
  calm => \A r \in Requests :
    \A h \in Shared :
      (req[r].op = "shared" => req[r].at = h)
        /\ req[r].op \in Issuing \cup {"privateKey", "shared"}
          => req[r].psks[h] = psk[h]

RequestsOK == OneWhenCalm /\ NewKeysDiffer /\ NotYetIssued
              /\ SyncIsIssuing /\ HolderIsKnown

IInv ==
  /\ TypeOK /\ RequestsOK
  /\ BornWithDek /\ DekIsCurrent /\ WrapsOpen /\ HandedHaveWraps
  /\ RowIsCurrent /\ PsksAreCurrent /\ NoForgottenWraps /\ CopiesFollow


-----------------------------------------------------------------------------
(***************************************************************************)
(* Every value is one the database and a request can hold.                 *)
(***************************************************************************)

LEMMA RowTypes ==
  /\ Unissued \in KeyRow /\ Deleted \in KeyRow
  /\ ~IsRow(Unissued) /\ ~IsRow(Deleted) /\ Unissued.wrap = None /\ Deleted.wrap = None
  /\ \A k \in KeyRow : k.wrap \in MaybeDek
  /\ \A k \in KeyRow : IsRow(k) => k \in [state : {"on", "off"}, wrap : MaybeDek]
  /\ \A s \in {"on", "off"}, w \in MaybeDek : [state |-> s, wrap |-> w] \in KeyRow
  BY DEF KeyRow, Unissued, Deleted, IsRow, MaybeDek

LEMMA CopyTypes ==
  /\ NoCopy \in Copy
  /\ \A e \in Deks, v \in Psks : [dek |-> e, val |-> v] \in Copy
  /\ \A c \in Copy : c.dek \in MaybeDek
  BY DEF Copy, NoCopy, MaybeDek

LEMMA IdleTypes == Idle \in Request
  BY RowTypes DEF Idle, Request, NoPsks, Untouched, MaybeKey, MaybePsk, MaybeDek

LEMMA BeginTypes ==
  ASSUME TypeOK, NEW r \in Requests,
         NEW op \in {"create", "rotate", "regenerate", "enable", "disable", "revoke",
                     "lockdown", "shared", "link", "keypair", "privateKey"},
         NEW new \in MaybeKey, NEW old \in MaybeKey, NEW h \in Holders \cup {None},
         NEW v \in MaybePsk, NEW S, NEW H \in SUBSET Holders,
         Begin(r, op, new, old, h, v, S, H)
  PROVE  TypeOK'
<1> DEFINE seen == [k \in Keys |-> IF k \in S THEN key[k] ELSE Unissued]
           psks == [s \in Shared |-> IF s \in H THEN psk[s] ELSE None]
           dek  == IF op \in UsesDek THEN dev.dek ELSE None
           held == {x \in H : copy[x] # NoCopy}
           q    == [step |-> "read", op |-> op, new |-> new, old |-> old, at |-> h,
                    val |-> v, dek |-> dek, psks |-> psks, held |-> held, seen |-> seen]
<1>1. seen \in [Keys -> KeyRow]
  BY RowTypes DEF TypeOK
<1>2. psks \in [Shared -> MaybePsk]
  BY DEF TypeOK, MaybePsk, Holders
<1>3. dek \in MaybeDek /\ held \in SUBSET Holders
  BY DEF TypeOK, MaybeDek
<1>4. req' = [req EXCEPT ![r] = q]
  BY DEF Begin
<1>5. q \in Request
  <2> HIDE DEF seen, psks, dek, held
  <2> QED
    BY <1>1, <1>2, <1>3 DEF Request
<1> HIDE DEF q
<1>6. req' \in [Requests -> Request]
  BY <1>4, <1>5 DEF TypeOK
<1>7. calm' \in BOOLEAN
  BY DEF Begin, Calm, TypeOK
<1> QED
  BY <1>6, <1>7 DEF Begin, TypeOK

\* What the first read of a request may be.  One that issues a key has it for
\* itself, and knows the preshared keys that the device shares.
Begun(r) ==
  \E op \in {"create", "rotate", "regenerate", "enable", "disable", "revoke",
             "lockdown", "shared", "link", "keypair", "privateKey"},
     new, old \in MaybeKey, h \in Holders \cup {None}, v \in MaybePsk,
     S \in SUBSET Keys, H \in SUBSET Holders :
    /\ Begin(r, op, new, old, h, v, S, H)
    /\ IF op \in Issuing THEN new \in Keys /\ Fresh(new) ELSE new = None
    /\ op \in Issuing \cup {"revoke"} /\ old # None => old \in S
    /\ op \in Issuing \cup {"privateKey"} => H = Shared
    /\ op = "shared" => h \in Shared /\ H = {h}
    /\ op = "link" => h \in Links /\ (v # None => dev.dek # None)

LEMMA StartsBegin ==
  ASSUME NEW r \in Requests,
         \/ \E k \in Keys : \/ StartCreate(r, k)
                            \/ \E old \in Keys : StartRotate(r, k, old)
                            \/ StartRegenerate(r, k)
                            \/ StartUpdateKey(r, k)
                            \/ StartRevoke(r, k)
         \/ StartLockdown(r)
         \/ \E v \in MaybePsk : \/ \E h \in Shared : StartShared(r, h, v)
                                \/ \E l \in Links : StartLink(r, l, v)
         \/ \E op \in {"keypair", "privateKey"} : StartReplace(r, op)
  PROVE  Begun(r)
<1>0. /\ None \in MaybeKey /\ None \in MaybePsk /\ None \in Holders \cup {None}
      /\ Keys \subseteq MaybeKey /\ {} \in SUBSET Holders /\ Shared \in SUBSET Holders
      /\ \A h \in Holders : {h} \in SUBSET Holders
      /\ {} \in SUBSET Keys /\ Keys \in SUBSET Keys /\ \A k \in Keys : {k} \in SUBSET Keys
  BY DEF MaybeKey, MaybePsk, Holders
<1>1. CASE \E k \in Keys : StartCreate(r, k) \/ \E old \in Keys : StartRotate(r, k, old)
  BY <1>0, <1>1 DEF StartCreate, StartRotate, Begun, Issuing
<1>2. CASE \E k \in Keys : StartRegenerate(r, k)
  BY <1>0, <1>2 DEF StartRegenerate, Rows, Begun, Issuing
<1>3. CASE \E k \in Keys : StartUpdateKey(r, k) \/ StartRevoke(r, k)
  BY <1>0, <1>3 DEF StartUpdateKey, StartRevoke, Begun, Issuing
<1>4. CASE StartLockdown(r)
  BY <1>0, <1>4 DEF StartLockdown, Begun, Issuing
<1>5. CASE \E v \in MaybePsk : \/ \E h \in Shared : StartShared(r, h, v)
                              \/ \E l \in Links : StartLink(r, l, v)
  BY <1>0, <1>5 DEF StartShared, StartLink, Holders, Begun, Issuing
<1>6. CASE \E op \in {"keypair", "privateKey"} : StartReplace(r, op)
  BY <1>0, <1>6 DEF StartReplace, Begun, Issuing
<1> QED
  BY <1>1, <1>2, <1>3, <1>4, <1>5, <1>6

LEMMA CopiedTypes ==
  ASSUME TypeOK, NEW q \in Request, NEW h \in Holders, NEW e, NEW v \in MaybePsk,
         v # None => e \in Deks
  PROVE  Copied(q, h, e, v) \in Copy
  BY CopyTypes DEF Copied, Cleared, TypeOK, MaybePsk

LEMMA TakesADek ==
  ASSUME TypeOK, NEW q \in Request, NEW e, Takes(q, e)
  PROVE  /\ q.dek = None => \A k \in Keys : key[k].wrap # e
         /\ q.dek # None => e = q.dek
  BY DEF Takes, DeksInUse

LEMMA UnwrappedTypes ==
  ASSUME TypeOK, NEW q \in Request, Unwraps(q)
  PROVE  /\ Unwrapped(q) \in [Keys -> KeyRow]
         /\ \A k \in Keys : /\ IsRow(key[k]) => IsRow(Unwrapped(q)[k])
                            /\ ~IsRow(key[k]) => Unwrapped(q)[k] = key[k]
<1>1. \A k \in Keys : key[k] \in KeyRow
  BY DEF TypeOK
<1> SUFFICES ASSUME NEW k \in Keys
             PROVE  /\ Unwrapped(q)[k] \in KeyRow
                    /\ IsRow(key[k]) => IsRow(Unwrapped(q)[k])
                    /\ ~IsRow(key[k]) => Unwrapped(q)[k] = key[k]
  BY DEF Unwrapped
<1>2. CASE q.dek = None /\ q.seen[k].wrap # None
  <2>1. IsRow(key[k]) /\ Unwrapped(q)[k] = [key[k] EXCEPT !.wrap = None]
    BY <1>2 DEF Unwraps, Unwrapped
  <2>2. key[k] \in [state : {"on", "off"}, wrap : MaybeDek]
    BY <1>1, <2>1, RowTypes
  <2> QED
    BY <2>1, <2>2, RowTypes DEF IsRow, MaybeDek, KeyRow
<1>3. CASE ~(q.dek = None /\ q.seen[k].wrap # None)
  BY <1>1, <1>3 DEF Unwrapped
<1> QED
  BY <1>2, <1>3

LEMMA RewrappedTypes ==
  ASSUME TypeOK, NEW q \in Request, Unwraps(q), q.new \in Keys, IsRow(key[q.new]),
         NEW e \in Deks
  PROVE  Rewrapped(q, e) \in [Keys -> KeyRow]
<1>1. /\ Unwrapped(q) \in [Keys -> KeyRow]
      /\ IsRow(Unwrapped(q)[q.new])
  BY UnwrappedTypes
<1>2. Unwrapped(q)[q.new] \in [state : {"on", "off"}, wrap : MaybeDek]
  BY <1>1, RowTypes
<1>3. [Unwrapped(q)[q.new] EXCEPT !.wrap = e] \in KeyRow
  BY <1>2 DEF KeyRow, MaybeDek
<1> QED
  BY <1>1, <1>3 DEF Rewrapped


-----------------------------------------------------------------------------
(***************************************************************************)
(* The first read of a request.                                            *)
(***************************************************************************)

LEMMA IdleFacts ==
  /\ Idle.step = "idle" /\ Idle.op = "none" /\ Idle.new = None /\ Idle.at = None
  /\ "none" \notin UsesDek \cup Issuing
  BY DEF Idle, UsesDek, Issuing

LEMMA BegunKeeps ==
  ASSUME IInv, NEW r \in Requests, Begun(r)
  PROVE  IInv'
<1>1. PICK op \in {"create", "rotate", "regenerate", "enable", "disable", "revoke",
                   "lockdown", "shared", "link", "keypair", "privateKey"},
           new \in MaybeKey, old \in MaybeKey, h \in Holders \cup {None},
           v \in MaybePsk, S \in SUBSET Keys, H \in SUBSET Holders :
        /\ Begin(r, op, new, old, h, v, S, H)
        /\ IF op \in Issuing THEN new \in Keys /\ Fresh(new) ELSE new = None
        /\ op \in Issuing \cup {"revoke"} /\ old # None => old \in S
        /\ op \in Issuing \cup {"privateKey"} => H = Shared
        /\ op = "shared" => h \in Shared /\ H = {h}
        /\ op = "link" => h \in Links /\ (v # None => dev.dek # None)
  BY DEF Begun
<1>2. TypeOK /\ TypeOK'
  BY <1>1, BeginTypes DEF IInv
<1>3. /\ req[r] = Idle /\ \A x \in Requests \ {r} : req'[x] = req[x]
      /\ req'[r].step = "read" /\ req'[r].op = op /\ req'[r].new = new /\ req'[r].old = old
      /\ req'[r].at = h /\ req'[r].val = v
      /\ req'[r].dek = IF op \in UsesDek THEN dev.dek ELSE None
      /\ \A s \in Shared : req'[r].psks[s] = IF s \in H THEN psk[s] ELSE None
      /\ \A k \in Keys : req'[r].seen[k] = IF k \in S THEN key[k] ELSE Unissued
  BY <1>1, <1>2 DEF Begin, TypeOK
<1>4. /\ UNCHANGED <<dev, key, psk, copy, handed, born>>
      /\ calm' => calm /\ \A x \in Requests \ {r} : req[x] = Idle
  BY <1>1 DEF Begin, Calm
<1>5. (OneWhenCalm /\ NewKeysDiffer /\ NotYetIssued /\ SyncIsIssuing /\ HolderIsKnown)'
  <2>1. OneWhenCalm'
    BY <1>3, <1>4 DEF OneWhenCalm
  <2>2. NewKeysDiffer'
    BY <1>1, <1>3 DEF NewKeysDiffer, Fresh, IInv, RequestsOK
  <2>3. NotYetIssued'
    BY <1>1, <1>3, <1>4 DEF NotYetIssued, Fresh, IInv, RequestsOK
  <2>4. HolderIsKnown'
    BY <1>1, <1>3 DEF HolderIsKnown, IInv, RequestsOK, UsesDek
  <2>5. SyncIsIssuing'
    BY <1>3 DEF SyncIsIssuing, IInv, RequestsOK
  <2> QED
    BY <2>1, <2>2, <2>3, <2>4, <2>5
<1>6. Sound' => Sound
  BY <1>4 DEF Sound
<1>7. (BornWithDek /\ DekIsCurrent /\ WrapsOpen /\ HandedHaveWraps)'
  BY <1>3, <1>4, <1>6 DEF IInv, BornWithDek, DekIsCurrent, WrapsOpen, HandedHaveWraps
<1>8. RowIsCurrent'
  BY <1>1, <1>3, <1>4, IdleFacts DEF RowIsCurrent, Issuing
<1>9. PsksAreCurrent'
  BY <1>1, <1>3, <1>4, IdleFacts DEF PsksAreCurrent, Issuing
<1>10. (NoForgottenWraps /\ CopiesFollow)'
  BY <1>4 DEF IInv, NoForgottenWraps, CopiesFollow
<1> QED
  BY <1>2, <1>5, <1>7, <1>8, <1>9, <1>10 DEF IInv, RequestsOK

-----------------------------------------------------------------------------
(***************************************************************************)
(* A request that goes on or ends.                                         *)
(***************************************************************************)

\* Nobody else's new key comes into being.
LEMMA GoesOn ==
  ASSUME IInv, NEW r \in Requests, req[r] # Idle,
         NEW q \in Request, req' = [req EXCEPT ![r] = q], calm' = calm,
         \/ q = Idle
         \/ q.op = req[r].op /\ q.new = req[r].new /\ q.step # "read" /\ req[r].op \in Issuing
            /\ q.at = req[r].at /\ q.val = req[r].val /\ q.dek = req[r].dek,
         \A k \in Keys : key[k] = Unissued =>
           key'[k] = Unissued \/ (req[r].op \in Issuing /\ k = req[r].new)
  PROVE  /\ RequestsOK' /\ RowIsCurrent'
         /\ q = Idle => PsksAreCurrent'
         /\ calm => \A x \in Requests \ {r} : req'[x] = Idle
<1>1. TypeOK /\ OneWhenCalm /\ NewKeysDiffer /\ NotYetIssued
      /\ SyncIsIssuing /\ HolderIsKnown
  BY DEF IInv, RequestsOK
<1>2. /\ req'[r] = q /\ \A x \in Requests \ {r} : req'[x] = req[x]
      /\ q.step # "read" /\ (q.new = req[r].new \/ q.new = None)
  BY <1>1, IdleFacts DEF TypeOK
<1>3. calm => \A x \in Requests \ {r} : req'[x] = Idle
  BY <1>1, <1>2 DEF OneWhenCalm
<1>4. OneWhenCalm'
  BY <1>1, <1>2 DEF OneWhenCalm
<1>5. NewKeysDiffer'
  BY <1>1, <1>2 DEF NewKeysDiffer
<1>6. NotYetIssued'
  <2> SUFFICES ASSUME NEW x \in Requests, req'[x].op \in Issuing
               PROVE  /\ req'[x].new \in Keys
                      /\ req'[x].step = "read" => key'[req'[x].new] = Unissued
    BY DEF NotYetIssued
  <2>1. CASE x = r
    BY <1>1, <1>2, <2>1, IdleFacts DEF NotYetIssued
  <2>2. CASE x # r
    BY <1>1, <1>2, <2>2, NoneIsNothing DEF NotYetIssued, NewKeysDiffer
  <2> QED
    BY <2>1, <2>2
<1>7. RowIsCurrent'
  BY <1>2, <1>3, IdleFacts DEF RowIsCurrent, Issuing
<1>8. q = Idle => PsksAreCurrent'
  BY <1>2, <1>3, IdleFacts DEF PsksAreCurrent
<1>9. HolderIsKnown'
  BY <1>1, <1>2, IdleFacts DEF HolderIsKnown
<1>10. SyncIsIssuing'
  BY <1>1, <1>2, IdleFacts DEF SyncIsIssuing
<1> QED
  BY <1>3, <1>4, <1>5, <1>6, <1>7, <1>8, <1>9, <1>10 DEF RequestsOK

LEMMA DekStays ==
  ASSUME IInv, NEW r \in Requests, NEW q, req' = [req EXCEPT ![r] = q],
         q.op \in UsesDek => q.op = req[r].op /\ q.dek = req[r].dek,
         UNCHANGED <<dev, born, calm>>
  PROVE  BornWithDek' /\ DekIsCurrent'
<1>1. \A x \in Requests : req'[x] = IF x = r THEN q ELSE req[x]
  BY DEF IInv, TypeOK
<1> QED
  BY <1>1 DEF IInv, BornWithDek, DekIsCurrent, Sound

\* The rows of API keys change, and nothing that is under the DEK does.
LEMMA KeysOnly ==
  ASSUME IInv, UNCHANGED <<dev, psk, copy, born>>, calm' => calm, handed' \subseteq handed,
         \A k \in Keys : key'[k].wrap \in {None, key[k].wrap},
         Sound => \A k \in handed' :
           key'[k].wrap = key[k].wrap /\ (IsRow(key[k]) => IsRow(key'[k])),
         calm' => \A k \in Keys \ handed' : key'[k].wrap = None
  PROVE  WrapsOpen' /\ HandedHaveWraps' /\ NoForgottenWraps' /\ CopiesFollow'
<1>1. Sound' => Sound
  BY DEF Sound
<1>2. WrapsOpen'
  BY <1>1 DEF IInv, WrapsOpen
<1>3. HandedHaveWraps'
  BY <1>1 DEF IInv, HandedHaveWraps
<1>4. NoForgottenWraps' /\ CopiesFollow'
  BY DEF IInv, NoForgottenWraps, CopiesFollow
<1> QED
  BY <1>2, <1>3, <1>4


-----------------------------------------------------------------------------
(***************************************************************************)
(* Issuing and withdrawing API keys.                                       *)
(***************************************************************************)

LEMMA WithdrawnTypes ==
  ASSUME NEW seen \in KeyRow, NEW now \in KeyRow, IsRow(now)
  PROVE  /\ Withdrawn(seen, now) \in KeyRow
         /\ IsRow(Withdrawn(seen, now))
         /\ Withdrawn(seen, now).wrap \in {None, now.wrap}
         /\ seen = now => Withdrawn(seen, now).wrap = None
<1>1. now.state \in {"on", "off"} /\ now.wrap \in MaybeDek
  BY RowTypes DEF IsRow
<1> QED
  BY <1>1, RowTypes DEF Withdrawn, IsRow, MaybeDek

LEMMA IssueKeyKeeps ==
  ASSUME IInv, NEW r \in Requests, IssueKey(r)
  PROVE  IInv'
<1> DEFINE q == req[r]
<1>1. PICK s \in {"on", "off"} :
        LET row == [state |-> s, wrap |-> None] IN
        /\ key' = [k \in Keys |-> IF k = q.new THEN row
                                 ELSE IF k = q.old THEN Withdrawn(q.seen[k], key[k])
                                 ELSE key[k]]
        /\ req' = [req EXCEPT ![r] =
             [q EXCEPT !.step = "issued",
                       !.seen = [k \in Keys |->
                          IF k = q.new THEN row
                          ELSE IF k = q.old THEN [state |-> "off", wrap |-> None]
                          ELSE q.seen[k]]]]
  BY DEF IssueKey
<1> DEFINE row  == [state |-> s, wrap |-> None]
           seen == [k \in Keys |-> IF k = q.new THEN row
                                  ELSE IF k = q.old THEN [state |-> "off", wrap |-> None]
                                  ELSE q.seen[k]]
           p    == [q EXCEPT !.step = "issued", !.seen = seen]
<1>2. /\ q.step = "read" /\ q.op \in Issuing /\ (q.old # None => IsRow(key[q.old]))
      /\ handed' = handed \ {q.old} /\ UNCHANGED <<dev, psk, copy, calm, born>>
  BY DEF IssueKey, Issuing
<1>3. /\ TypeOK /\ q \in Request /\ q # Idle
      /\ q.new \in Keys /\ key[q.new] = Unissued
  BY <1>2, IdleFacts DEF IInv, TypeOK, RequestsOK, NotYetIssued
<1>4. row \in KeyRow /\ [state |-> "off", wrap |-> None] \in KeyRow /\ row.wrap = None
  BY RowTypes DEF MaybeDek
<1>5. \A k \in Keys : key[k] \in KeyRow /\ q.seen[k] \in KeyRow
  BY <1>3 DEF TypeOK, Request
<1>6. p \in Request
  <2>1. seen \in [Keys -> KeyRow]
    BY <1>4, <1>5
  <2> HIDE DEF seen
  <2> QED
    BY <1>3, <2>1 DEF Request
<1>7. \A k \in Keys :
        /\ key'[k] \in KeyRow /\ key'[k].wrap \in {None, key[k].wrap}
        /\ k # q.new /\ IsRow(key[k]) => IsRow(key'[k])
        /\ k \notin {q.new, q.old} => key'[k] = key[k]
        /\ k = q.new => key'[k].wrap = None
  <2> SUFFICES ASSUME NEW k \in Keys
               PROVE  /\ key'[k] \in KeyRow /\ key'[k].wrap \in {None, key[k].wrap}
                      /\ k # q.new /\ IsRow(key[k]) => IsRow(key'[k])
                      /\ k \notin {q.new, q.old} => key'[k] = key[k]
                      /\ k = q.new => key'[k].wrap = None
    OBVIOUS
  <2>1. CASE k = q.new
    BY <1>1, <1>4, <2>1
  <2>2. CASE k # q.new /\ k = q.old
    <3>1. key'[k] = Withdrawn(q.seen[k], key[k]) /\ IsRow(key[k])
      BY <1>1, <1>2, <2>2, NoneIsNothing
    <3> QED
      BY <1>5, <2>2, <3>1, WithdrawnTypes
  <2>3. CASE k # q.new /\ k # q.old
    BY <1>1, <1>5, <2>3
  <2> QED
    BY <2>1, <2>2, <2>3
<1>8. TypeOK'
  <2>1. key' \in [Keys -> KeyRow]
    BY <1>1, <1>7
  <2>2. req' = [req EXCEPT ![r] = p]
    BY <1>1
  <2>3. req' \in [Requests -> Request]
    BY <1>3, <1>6, <2>2 DEF TypeOK
  <2> QED
    BY <1>2, <1>3, <2>1, <2>3 DEF TypeOK
<1>9. /\ req' = [req EXCEPT ![r] = p] /\ p.op = q.op /\ p.new = q.new /\ p.dek = q.dek
      /\ p.step = "issued" /\ p.psks = q.psks /\ p.at = q.at /\ p.val = q.val
  BY <1>1, <1>3 DEF Request
<1> HIDE DEF p
<1>10. \A k \in Keys : key[k] = Unissued => key'[k] = Unissued \/ k = q.new
  BY <1>2, <1>7, RowTypes, NoneIsNothing
<1>11. /\ RequestsOK' /\ RowIsCurrent'
       /\ calm => \A x \in Requests \ {r} : req'[x] = Idle
  BY <1>2, <1>3, <1>6, <1>9, <1>10, GoesOn
<1>12. BornWithDek' /\ DekIsCurrent'
  BY <1>2, <1>9, DekStays
<1>13. PsksAreCurrent'
  BY <1>2, <1>3, <1>9, <1>11, IdleFacts DEF PsksAreCurrent, IInv, TypeOK
<1>14. Sound => q.new \notin handed
  BY <1>3, RowTypes DEF IInv, HandedHaveWraps
<1>15. calm /\ q.old # None /\ q.old \in Keys => key'[q.old].wrap = None
  <2> SUFFICES ASSUME calm, q.old # None, q.old \in Keys, q.old # q.new
               PROVE  key'[q.old].wrap = None
    BY <1>7
  <2>1. key'[q.old] = Withdrawn(q.seen[q.old], key[q.old])
    BY <1>1
  <2>2. q.seen[q.old] = key[q.old]
    BY <1>2 DEF IInv, RowIsCurrent
  <2> QED
    BY <1>2, <1>5, <2>1, <2>2, WithdrawnTypes
<1>16. calm' => \A k \in Keys \ handed' : key'[k].wrap = None
  BY <1>2, <1>7, <1>15, NoneIsNothing DEF IInv, NoForgottenWraps
<1>17. Sound => \A k \in handed' : key'[k].wrap = key[k].wrap /\ (IsRow(key[k]) => IsRow(key'[k]))
  BY <1>2, <1>3, <1>7, <1>14 DEF TypeOK
<1>18. WrapsOpen' /\ HandedHaveWraps' /\ NoForgottenWraps' /\ CopiesFollow'
  BY <1>2, <1>7, <1>16, <1>17, KeysOnly
<1> QED
  BY <1>8, <1>11, <1>12, <1>13, <1>18 DEF IInv


LEMMA SyncReadKeeps ==
  ASSUME IInv, NEW r \in Requests, SyncRead(r)
  PROVE  IInv'
<1> DEFINE q    == req[r]
           seen == [k \in Keys |-> IF IsRow(q.seen[k]) THEN q.seen[k]
                                  ELSE IF IsRow(key[k]) THEN key[k] ELSE Unissued]
           psks == [q.psks EXCEPT ![Location] = psk[Location]]
           p    == [q EXCEPT !.step = "sync", !.psks = psks, !.seen = seen]
<1>1. /\ q.step = "issued" /\ req' = [req EXCEPT ![r] = p]
      /\ UNCHANGED <<dev, key, psk, copy, handed, calm, born>>
  BY DEF SyncRead
<1>2. TypeOK /\ q \in Request /\ q # Idle /\ q.op \in Issuing
  BY <1>1, IdleFacts DEF IInv, TypeOK, RequestsOK, SyncIsIssuing
<1>3. p \in Request
  <2>1. seen \in [Keys -> KeyRow]
    BY <1>2, RowTypes DEF TypeOK, Request
  <2>2. psks \in [Shared -> MaybePsk]
    BY <1>2 DEF TypeOK, Request, Shared, Holders
  <2> HIDE DEF seen, psks
  <2> QED
    BY <1>2, <2>1, <2>2 DEF Request
<1>4. /\ p.op = q.op /\ p.new = q.new /\ p.dek = q.dek /\ p.step = "sync" /\ p.psks = psks
      /\ p.at = q.at /\ p.val = q.val
  BY <1>2 DEF Request
<1>5. \A h \in Shared : psks[h] = psk[h] \/ psks[h] = q.psks[h]
  BY <1>2 DEF Request
<1> HIDE DEF p, psks
<1>6. /\ RequestsOK' /\ RowIsCurrent'
      /\ calm => \A x \in Requests \ {r} : req'[x] = Idle
  BY <1>1, <1>2, <1>3, <1>4, GoesOn
<1>7. BornWithDek' /\ DekIsCurrent'
  BY <1>1, <1>4, DekStays
<1>8. PsksAreCurrent'
  BY <1>1, <1>2, <1>4, <1>5, <1>6, IdleFacts DEF PsksAreCurrent, IInv, TypeOK
<1>9. WrapsOpen' /\ HandedHaveWraps' /\ NoForgottenWraps' /\ CopiesFollow'
  BY <1>1, KeysOnly DEF IInv, NoForgottenWraps
<1>10. TypeOK'
  BY <1>1, <1>2, <1>3 DEF TypeOK
<1> QED
  BY <1>6, <1>7, <1>8, <1>9, <1>10 DEF IInv

LEMMA EndKeeps ==
  ASSUME IInv, NEW r \in Requests, req[r] # Idle, End(r), UNCHANGED <<calm, born>>,
         \A k \in Keys : key[k] = Unissued => key'[k] = Unissued
  PROVE  /\ req' \in [Requests -> Request]
         /\ RequestsOK' /\ RowIsCurrent' /\ PsksAreCurrent'
         /\ dev' = dev => BornWithDek' /\ DekIsCurrent'
         /\ calm => \A x \in Requests : req'[x] = Idle
<1>1. req' = [req EXCEPT ![r] = Idle] /\ Idle \in Request
  BY IdleTypes DEF End
<1>2. /\ RequestsOK' /\ RowIsCurrent' /\ PsksAreCurrent'
      /\ calm => \A x \in Requests \ {r} : req'[x] = Idle
  BY <1>1, GoesOn
<1>3. req' \in [Requests -> Request] /\ req'[r] = Idle
  BY <1>1 DEF IInv, TypeOK
<1>4. dev' = dev => BornWithDek' /\ DekIsCurrent'
  BY <1>1, DekStays, IdleFacts
<1> QED
  BY <1>2, <1>3, <1>4

LEMMA FailKeeps ==
  ASSUME IInv, NEW r \in Requests, Fail(r)
  PROVE  IInv'
<1>1. /\ req[r] # Idle /\ End(r) /\ UNCHANGED <<dev, key, psk, copy, handed, calm, born>>
  BY DEF Fail
<1>2. /\ RequestsOK' /\ RowIsCurrent' /\ PsksAreCurrent' /\ BornWithDek' /\ DekIsCurrent'
      /\ req' \in [Requests -> Request]
  BY <1>1, EndKeeps
<1>3. WrapsOpen' /\ HandedHaveWraps' /\ NoForgottenWraps' /\ CopiesFollow'
  BY <1>1, KeysOnly DEF IInv, NoForgottenWraps
<1> QED
  BY <1>1, <1>2, <1>3 DEF IInv, TypeOK

\* Rows that are enabled or disabled keep their wraps.
LEMMA StatesOnly ==
  ASSUME IInv, NEW r \in Requests, req[r] # Idle, End(r),
         UNCHANGED <<dev, psk, copy, handed, calm, born>>, key' \in [Keys -> KeyRow],
         \A k \in Keys :
           key'[k] = key[k] \/ (IsRow(key[k]) /\ IsRow(key'[k]) /\ key'[k].wrap = key[k].wrap)
  PROVE  IInv'
<1>1. \A k \in Keys : key[k] = Unissued => key'[k] = Unissued
  BY RowTypes
<1>2. /\ RequestsOK' /\ RowIsCurrent' /\ PsksAreCurrent' /\ BornWithDek' /\ DekIsCurrent'
      /\ req' \in [Requests -> Request]
  BY <1>1, EndKeeps
<1>3. calm' => \A k \in Keys \ handed' : key'[k].wrap = None
  BY DEF IInv, NoForgottenWraps
<1>4. \A k \in Keys : /\ key'[k].wrap = key[k].wrap
                      /\ IsRow(key[k]) => IsRow(key'[k])
  OBVIOUS
<1>5. WrapsOpen' /\ HandedHaveWraps' /\ NoForgottenWraps' /\ CopiesFollow'
  BY <1>3, <1>4, KeysOnly DEF IInv, TypeOK
<1> QED
  BY <1>2, <1>5 DEF IInv, TypeOK

LEMMA CommitUpdateKeyKeeps ==
  ASSUME IInv, NEW r \in Requests, CommitUpdateKey(r)
  PROVE  IInv'
<1> DEFINE q == req[r]
<1>1. PICK s \in {"on", "off"} : key' = [key EXCEPT ![q.old] = [@ EXCEPT !.state = s]]
  BY DEF CommitUpdateKey
<1>2. /\ q # Idle /\ End(r) /\ IsRow(key[q.old])
      /\ UNCHANGED <<dev, psk, copy, handed, calm, born>>
  BY IdleFacts DEF CommitUpdateKey, Reading
<1>3. key \in [Keys -> KeyRow]
  BY DEF IInv, TypeOK
<1>4. \A k \in Keys : key'[k] \in KeyRow /\
        (key'[k] = key[k] \/ (IsRow(key[k]) /\ IsRow(key'[k]) /\ key'[k].wrap = key[k].wrap))
  <2> SUFFICES ASSUME NEW k \in Keys
               PROVE  key'[k] \in KeyRow /\
                 (key'[k] = key[k] \/ (IsRow(key[k]) /\ IsRow(key'[k]) /\ key'[k].wrap = key[k].wrap))
    OBVIOUS
  <2>1. CASE k # q.old
    BY <1>1, <1>3, <2>1
  <2>2. CASE k = q.old
    <3>1. key'[k] = [key[k] EXCEPT !.state = s]
      BY <1>1, <1>3, <2>2
    <3>2. key[k] \in [state : {"on", "off"}, wrap : MaybeDek]
      BY <1>2, <1>3, <2>2, RowTypes
    <3> QED
      BY <1>2, <2>2, <3>1, <3>2 DEF KeyRow, IsRow
  <2> QED
    BY <2>1, <2>2
<1>5. key' \in [Keys -> KeyRow]
  BY <1>1, <1>3, <1>4
<1> QED
  BY <1>2, <1>4, <1>5, StatesOnly

LEMMA CommitLockdownKeeps ==
  ASSUME IInv, NEW r \in Requests, CommitLockdown(r)
  PROVE  IInv'
<1>1. /\ req[r] # Idle /\ End(r) /\ UNCHANGED <<dev, psk, copy, handed, calm, born>>
      /\ key' = [k \in Keys |-> IF key[k].state = "on" /\ req[r].seen[k].state # "off"
                               THEN [key[k] EXCEPT !.state = "off"] ELSE key[k]]
  BY IdleFacts DEF CommitLockdown, Reading
<1>2. key \in [Keys -> KeyRow]
  BY DEF IInv, TypeOK
<1>3. \A k \in Keys : key'[k] \in KeyRow /\
        (key'[k] = key[k] \/ (IsRow(key[k]) /\ IsRow(key'[k]) /\ key'[k].wrap = key[k].wrap))
  <2> SUFFICES ASSUME NEW k \in Keys
               PROVE  key'[k] \in KeyRow /\
                 (key'[k] = key[k] \/ (IsRow(key[k]) /\ IsRow(key'[k]) /\ key'[k].wrap = key[k].wrap))
    OBVIOUS
  <2>1. CASE key[k].state = "on"
    <3>1. key'[k] = key[k] \/ key'[k] = [key[k] EXCEPT !.state = "off"]
      BY <1>1
    <3>2. key[k] \in [state : {"on", "off"}, wrap : MaybeDek]
      BY <1>2, <2>1, RowTypes DEF IsRow
    <3> QED
      BY <1>2, <3>1, <3>2 DEF KeyRow, IsRow
  <2>2. CASE key[k].state # "on"
    BY <1>1, <1>2, <2>2
  <2> QED
    BY <2>1, <2>2
<1>4. key' \in [Keys -> KeyRow]
  BY <1>1, <1>3
<1> QED
  BY <1>1, <1>3, <1>4, StatesOnly

LEMMA CommitRevokeKeeps ==
  ASSUME IInv, NEW r \in Requests, CommitRevoke(r)
  PROVE  IInv'
<1> DEFINE q == req[r]
<1>1. /\ q # Idle /\ End(r) /\ q.step = "read" /\ q.op = "revoke" /\ IsRow(key[q.old])
      /\ key' = [key EXCEPT ![q.old] = Withdrawn(q.seen[q.old], @)]
      /\ handed' = handed \ {q.old} /\ UNCHANGED <<dev, psk, copy, calm, born>>
  BY IdleFacts DEF CommitRevoke, Reading
<1>2. TypeOK /\ q \in Request /\ key \in [Keys -> KeyRow]
  BY DEF IInv, TypeOK
<1>3. \A k \in Keys : k # q.old => key'[k] = key[k]
  BY <1>1, <1>2
<1>4. q.old \in Keys =>
        /\ key'[q.old] \in KeyRow /\ IsRow(key'[q.old])
        /\ key'[q.old].wrap \in {None, key[q.old].wrap}
        /\ q.seen[q.old] = key[q.old] => key'[q.old].wrap = None
  <2> SUFFICES ASSUME q.old \in Keys
               PROVE  /\ key'[q.old] \in KeyRow /\ IsRow(key'[q.old])
                      /\ key'[q.old].wrap \in {None, key[q.old].wrap}
                      /\ q.seen[q.old] = key[q.old] => key'[q.old].wrap = None
    OBVIOUS
  <2>1. key'[q.old] = Withdrawn(q.seen[q.old], key[q.old])
    BY <1>1, <1>2
  <2>2. q.seen[q.old] \in KeyRow /\ key[q.old] \in KeyRow
    BY <1>2 DEF Request
  <2> QED
    BY <1>1, <2>1, <2>2, WithdrawnTypes
<1>5. key' \in [Keys -> KeyRow]
  BY <1>1, <1>2, <1>3, <1>4
<1>6. \A k \in Keys : key[k] = Unissued => key'[k] = Unissued
  BY <1>1, <1>3, RowTypes
<1>7. /\ RequestsOK' /\ RowIsCurrent' /\ PsksAreCurrent' /\ BornWithDek' /\ DekIsCurrent'
      /\ req' \in [Requests -> Request]
  BY <1>1, <1>6, EndKeeps
<1>8. \A k \in Keys : key'[k].wrap \in {None, key[k].wrap}
  BY <1>3, <1>4
<1>9. calm' => \A k \in Keys \ handed' : key'[k].wrap = None
  <2>1. calm /\ q.old # None => q.seen[q.old] = key[q.old]
    BY <1>1 DEF IInv, RowIsCurrent
  <2> QED
    BY <1>1, <1>3, <1>4, <2>1, NoneIsNothing DEF IInv, NoForgottenWraps
<1>10. \A k \in handed' : key'[k].wrap = key[k].wrap /\ (IsRow(key[k]) => IsRow(key'[k]))
  BY <1>1, <1>2, <1>3 DEF TypeOK
<1>11. WrapsOpen' /\ HandedHaveWraps' /\ NoForgottenWraps' /\ CopiesFollow'
  BY <1>1, <1>8, <1>9, <1>10, KeysOnly
<1> QED
  BY <1>1, <1>2, <1>5, <1>7, <1>11 DEF IInv, TypeOK

\* A request that is over in one step leaves the others as they are.
LEMMA AtOnce ==
  ASSUME IInv, NEW r \in Requests, req[r] = Idle, Calm(r), UNCHANGED <<dev, born, req>>,
         \A k \in Keys : key[k] = Unissued => key'[k] = Unissued
  PROVE  /\ RequestsOK' /\ RowIsCurrent' /\ PsksAreCurrent' /\ BornWithDek' /\ DekIsCurrent'
         /\ calm' => calm
<1>1. calm' => calm /\ \A x \in Requests : req[x] = Idle
  BY DEF Calm
<1>2. RequestsOK'
  BY <1>1 DEF IInv, RequestsOK, OneWhenCalm, NewKeysDiffer, NotYetIssued,
              SyncIsIssuing, HolderIsKnown
<1>3. RowIsCurrent' /\ PsksAreCurrent'
  BY <1>1, IdleFacts DEF RowIsCurrent, PsksAreCurrent, Issuing
<1>4. BornWithDek' /\ DekIsCurrent'
  BY <1>1 DEF IInv, BornWithDek, DekIsCurrent, Sound
<1> QED
  BY <1>1, <1>2, <1>3, <1>4

LEMMA DeleteKeyKeeps ==
  ASSUME IInv, NEW r \in Requests, NEW d \in Keys, DeleteKey(r, d)
  PROVE  IInv'
<1>1. /\ req[r] = Idle /\ IsRow(key[d]) /\ key' = [key EXCEPT ![d] = Deleted]
      /\ handed' = handed \ {d} /\ Calm(r) /\ UNCHANGED <<dev, psk, copy, born, req>>
  BY DEF DeleteKey, Rows
<1>2. TypeOK /\ key \in [Keys -> KeyRow]
  BY DEF IInv, TypeOK
<1>3. /\ key' \in [Keys -> KeyRow] /\ key'[d] = Deleted
      /\ \A k \in Keys : k # d => key'[k] = key[k]
  BY <1>1, <1>2, RowTypes
<1>4. \A k \in Keys : key[k] = Unissued => key'[k] = Unissued
  BY <1>1, <1>3, RowTypes
<1>5. /\ RequestsOK' /\ RowIsCurrent' /\ PsksAreCurrent' /\ BornWithDek' /\ DekIsCurrent'
      /\ calm' => calm
  BY <1>1, <1>4, AtOnce
<1>6. /\ \A k \in Keys : key'[k].wrap \in {None, key[k].wrap}
      /\ calm' => \A k \in Keys \ handed' : key'[k].wrap = None
  BY <1>1, <1>3, <1>5, RowTypes DEF IInv, NoForgottenWraps
<1>7. \A k \in handed' : key'[k] = key[k]
  BY <1>1, <1>2, <1>3 DEF TypeOK
<1>8. WrapsOpen' /\ HandedHaveWraps' /\ NoForgottenWraps' /\ CopiesFollow'
  BY <1>1, <1>5, <1>6, <1>7, KeysOnly
<1>9. calm' \in BOOLEAN
  BY <1>1 DEF Calm, IInv, TypeOK
<1> QED
  BY <1>1, <1>2, <1>3, <1>5, <1>8, <1>9 DEF IInv, TypeOK


-----------------------------------------------------------------------------
(***************************************************************************)
(* Preshared keys.                                                         *)
(***************************************************************************)

\* A preshared key and its copy change; under the DEK the request read.
LEMMA OneCopy ==
  ASSUME IInv, NEW h \in Holders, NEW c \in Copy, NEW v \in MaybePsk,
         UNCHANGED <<dev, key, handed, born>>, calm' => calm,
         copy' = [copy EXCEPT ![h] = c], psk' \in {psk, [psk EXCEPT ![h] = v]},
         Sound => c.dek \in {None, dev.dek},
         calm /\ handed # {} /\ psk'[h] # None => c = [dek |-> dev.dek, val |-> psk'[h]]
  PROVE  /\ WrapsOpen' /\ HandedHaveWraps' /\ NoForgottenWraps' /\ CopiesFollow'
         /\ copy' \in [Holders -> Copy] /\ psk' \in [Holders -> MaybePsk]
<1>1. /\ copy \in [Holders -> Copy] /\ psk \in [Holders -> MaybePsk]
      /\ Sound' => Sound
  BY DEF IInv, TypeOK, Sound
<1>2. \A x \in Holders : /\ copy'[x] = IF x = h THEN c ELSE copy[x]
                         /\ x # h => psk'[x] = psk[x]
  BY <1>1
<1>3. WrapsOpen'
  BY <1>1, <1>2 DEF IInv, WrapsOpen
<1>4. HandedHaveWraps' /\ NoForgottenWraps'
  BY <1>1 DEF IInv, HandedHaveWraps, NoForgottenWraps
<1>5. CopiesFollow'
  BY <1>2 DEF IInv, CopiesFollow
<1> QED
  BY <1>1, <1>3, <1>4, <1>5

LEMMA DekOfTheDevice ==
  ASSUME IInv, Sound, dev.dek = None
  PROVE  handed = {} /\ calm /\ \A k \in Keys : key[k].wrap = None
  BY DEF IInv, HandedHaveWraps, BornWithDek, Sound, WrapsOpen

LEMMA CommitSharedKeeps ==
  ASSUME IInv, NEW r \in Requests, CommitShared(r)
  PROVE  IInv'
<1> DEFINE q == req[r]
           h == q.at
           v == IF q.dek = None THEN None ELSE q.val
           c == Copied(q, h, q.dek, v)
<1>1. /\ q # Idle /\ End(r) /\ q.op = "shared"
      /\ psk' = IF q.val = q.psks[h] /\ q.val = None THEN psk ELSE [psk EXCEPT ![h] = q.val]
      /\ copy' = [copy EXCEPT ![h] = c]
      /\ UNCHANGED <<dev, key, handed, calm, born>>
  BY IdleFacts DEF CommitShared, Reading
<1>2. TypeOK /\ q \in Request /\ h \in Shared /\ h \in Holders
  BY <1>1 DEF IInv, TypeOK, RequestsOK, HolderIsKnown, Holders
<1>3. /\ RequestsOK' /\ RowIsCurrent' /\ PsksAreCurrent' /\ BornWithDek' /\ DekIsCurrent'
      /\ req' \in [Requests -> Request]
  BY <1>1, EndKeeps
<1>4. v \in MaybePsk /\ q.val \in MaybePsk /\ (v # None => q.dek \in Deks)
  BY <1>2 DEF Request, MaybePsk, MaybeDek
<1>5. c \in Copy
  BY <1>2, <1>4, CopiedTypes
<1>6. Sound => q.dek = dev.dek
  BY <1>1 DEF IInv, DekIsCurrent, UsesDek
<1>7. /\ v # None => c = [dek |-> q.dek, val |-> v]
      /\ v = None => c \in {NoCopy, copy[h]}
  BY DEF Copied, Cleared
<1>8. Sound => c.dek \in {None, dev.dek}
  BY <1>2, <1>6, <1>7 DEF NoCopy, IInv, WrapsOpen
<1>9. calm /\ handed # {} /\ psk'[h] # None => c = [dek |-> dev.dek, val |-> psk'[h]]
  <2> SUFFICES ASSUME calm, handed # {}, psk'[h] # None
               PROVE  c = [dek |-> dev.dek, val |-> psk'[h]]
    OBVIOUS
  <2>1. q.dek = dev.dek /\ q.dek # None
    BY <1>6, DekOfTheDevice DEF Sound
  <2>2. q.psks[h] = psk[h]
    BY <1>1, <1>2 DEF IInv, PsksAreCurrent
  <2>3. psk'[h] = q.val /\ q.val # None
    BY <1>1, <1>2, <2>2 DEF TypeOK
  <2> QED
    BY <1>7, <2>1, <2>3
<1> HIDE DEF c, v
<1>10. /\ WrapsOpen' /\ HandedHaveWraps' /\ NoForgottenWraps' /\ CopiesFollow'
       /\ copy' \in [Holders -> Copy] /\ psk' \in [Holders -> MaybePsk]
  BY <1>1, <1>2, <1>4, <1>5, <1>8, <1>9, OneCopy
<1> QED
  BY <1>1, <1>2, <1>3, <1>10 DEF IInv, TypeOK

LEMMA CommitLinkKeeps ==
  ASSUME IInv, NEW r \in Requests, CommitLink(r)
  PROVE  IInv'
<1> DEFINE q == req[r]
           h == q.at
           c == Copied(q, h, q.dek, q.val)
<1>1. /\ q # Idle /\ End(r) /\ q.op = "link"
      /\ psk' = [psk EXCEPT ![h] = q.val] /\ copy' = [copy EXCEPT ![h] = c]
      /\ UNCHANGED <<dev, key, handed, calm, born>>
  BY IdleFacts DEF CommitLink, Reading
<1>2. TypeOK /\ q \in Request /\ h \in Holders /\ (q.val # None => q.dek # None)
  BY <1>1 DEF IInv, TypeOK, RequestsOK, HolderIsKnown, Holders
<1>3. /\ RequestsOK' /\ RowIsCurrent' /\ PsksAreCurrent' /\ BornWithDek' /\ DekIsCurrent'
      /\ req' \in [Requests -> Request]
  BY <1>1, EndKeeps
<1>4. q.val \in MaybePsk /\ (q.val # None => q.dek \in Deks)
  BY <1>2 DEF Request, MaybePsk, MaybeDek
<1>5. c \in Copy
  BY <1>2, <1>4, CopiedTypes
<1>6. Sound => q.dek = dev.dek
  BY <1>1 DEF IInv, DekIsCurrent, UsesDek
<1>7. /\ q.val # None => c = [dek |-> q.dek, val |-> q.val]
      /\ q.val = None => c \in {NoCopy, copy[h]}
  BY DEF Copied, Cleared
<1>8. Sound => c.dek \in {None, dev.dek}
  BY <1>2, <1>6, <1>7 DEF NoCopy, IInv, WrapsOpen
<1>9. calm /\ psk'[h] # None => c = [dek |-> dev.dek, val |-> psk'[h]]
  <2>1. psk'[h] = q.val
    BY <1>1, <1>2 DEF TypeOK
  <2> QED
    BY <1>6, <1>7, <2>1 DEF Sound
<1> HIDE DEF c
<1>10. /\ WrapsOpen' /\ HandedHaveWraps' /\ NoForgottenWraps' /\ CopiesFollow'
       /\ copy' \in [Holders -> Copy] /\ psk' \in [Holders -> MaybePsk]
  BY <1>1, <1>2, <1>4, <1>5, <1>8, <1>9, OneCopy
<1> QED
  BY <1>1, <1>2, <1>3, <1>10 DEF IInv, TypeOK

LEMMA DeleteLinkKeeps ==
  ASSUME IInv, NEW r \in Requests, NEW l \in Links, DeleteLink(r, l)
  PROVE  IInv'
<1>1. /\ req[r] = Idle /\ Calm(r) /\ UNCHANGED <<dev, key, handed, born, req>>
      /\ psk' = [psk EXCEPT ![l] = None] /\ copy' = [copy EXCEPT ![l] = NoCopy]
  BY DEF DeleteLink
<1>2. /\ RequestsOK' /\ RowIsCurrent' /\ PsksAreCurrent' /\ BornWithDek' /\ DekIsCurrent'
      /\ calm' => calm
  BY <1>1, AtOnce
<1>3. /\ l \in Holders /\ NoCopy \in Copy /\ None \in MaybePsk /\ NoCopy.dek = None
      /\ TypeOK /\ calm' \in BOOLEAN
  BY <1>1, CopyTypes DEF Holders, MaybePsk, NoCopy, Calm, IInv, TypeOK
<1>4. psk'[l] = None
  BY <1>1, <1>3 DEF TypeOK
<1>5. /\ WrapsOpen' /\ HandedHaveWraps' /\ NoForgottenWraps' /\ CopiesFollow'
      /\ copy' \in [Holders -> Copy] /\ psk' \in [Holders -> MaybePsk]
  BY <1>1, <1>2, <1>3, <1>4, OneCopy
<1> QED
  BY <1>1, <1>2, <1>3, <1>5 DEF IInv, TypeOK

-----------------------------------------------------------------------------
(***************************************************************************)
(* The DEK.  Either the device keeps the one it has, or it gets its first: *)
(* then nothing was under a DEK before, unless requests overlapped.        *)
(***************************************************************************)

LEMMA UnwrappedWraps ==
  ASSUME IInv, NEW q \in Request, Unwraps(q)
  PROVE  \A k \in Keys : /\ Unwrapped(q)[k].wrap \in {None, key[k].wrap}
                         /\ q.dek # None => Unwrapped(q)[k] = key[k]
<1> SUFFICES ASSUME NEW k \in Keys
             PROVE  /\ Unwrapped(q)[k].wrap \in {None, key[k].wrap}
                    /\ q.dek # None => Unwrapped(q)[k] = key[k]
  OBVIOUS
<1>1. CASE q.dek = None /\ q.seen[k].wrap # None
  <2>1. IsRow(key[k]) /\ Unwrapped(q)[k] = [key[k] EXCEPT !.wrap = None]
    BY <1>1 DEF Unwraps, Unwrapped
  <2>2. key[k] \in [state : {"on", "off"}, wrap : MaybeDek]
    BY <2>1, RowTypes DEF IInv, TypeOK
  <2> QED
    BY <1>1, <2>1, <2>2
<1>2. CASE ~(q.dek = None /\ q.seen[k].wrap # None)
  BY <1>2 DEF Unwrapped
<1> QED
  BY <1>1, <1>2

\* What a request that may give the device its DEK makes of it.
LEMMA DekAfter ==
  ASSUME IInv, NEW r \in Requests, req[r] # Idle, req[r].op \in UsesDek, End(r),
         UNCHANGED <<calm, born>>, NEW e \in Deks, Takes(req[r], e),
         dev' = [dek |-> IF req[r].dek = None THEN e ELSE dev.dek, priv |-> e]
           \/ (req[r].dek # None /\ dev' = dev),
         req[r].dek = None => dev'.dek = e /\ dev'.priv = e,
         \A k \in Keys : key[k] = Unissued => key'[k] = Unissued
  PROVE  /\ RequestsOK' /\ RowIsCurrent' /\ PsksAreCurrent' /\ BornWithDek' /\ DekIsCurrent'
         /\ req' \in [Requests -> Request] /\ dev' \in [dek : MaybeDek, priv : MaybeDek]
         /\ Sound => /\ dev'.dek = e /\ dev'.priv = e
                     /\ dev'.dek = dev.dek \/ dev.dek = None
                     /\ req[r].dek = dev.dek
<1>1. /\ RequestsOK' /\ RowIsCurrent' /\ PsksAreCurrent'
      /\ req' \in [Requests -> Request]
      /\ calm => \A x \in Requests : req'[x] = Idle
  BY EndKeeps
<1>2. TypeOK /\ req[r] \in Request /\ dev \in [dek : MaybeDek, priv : MaybeDek]
  BY DEF IInv, TypeOK
<1>3. req[r].dek # None => e = req[r].dek
  BY <1>2, TakesADek
<1>4. Sound => req[r].dek = dev.dek /\ dev.priv = dev.dek
  BY DEF IInv, DekIsCurrent, WrapsOpen
<1>5. dev' \in [dek : MaybeDek, priv : MaybeDek]
  BY <1>2 DEF MaybeDek
<1>6. Sound => /\ dev'.dek = e /\ dev'.priv = e
               /\ dev'.dek = dev.dek \/ dev.dek = None
               /\ req[r].dek = dev.dek
  BY <1>3, <1>4
<1>7. BornWithDek'
  BY <1>2, <1>6, NoneIsNothing DEF IInv, BornWithDek, Sound
<1>8. DekIsCurrent'
  <2>1. CASE calm
    BY <1>1, <2>1, IdleFacts DEF DekIsCurrent
  <2>2. CASE ~calm /\ Sound
    <3>1. dev.dek # None
      BY <2>2 DEF IInv, BornWithDek, Sound
    <3>2. dev'.dek = dev.dek
      BY <1>6, <2>2, <3>1
    <3>3. \A x \in Requests : req'[x].op \in UsesDek => req'[x] = req[x]
      BY IdleFacts DEF End, IInv, TypeOK
    <3> QED
      BY <2>2, <3>2, <3>3 DEF IInv, DekIsCurrent
  <2>3. CASE ~Sound
    BY <2>3 DEF DekIsCurrent, Sound
  <2> QED
    BY <2>1, <2>2, <2>3
<1> QED
  BY <1>1, <1>5, <1>6, <1>7, <1>8

LEMMA SyncCommitKeeps ==
  ASSUME IInv, NEW r \in Requests, SyncCommit(r)
  PROVE  IInv'
<1> DEFINE q == req[r]
<1>1. PICK e \in Deks :
        /\ Takes(q, e)
        /\ dev' = IF q.dek = None THEN [dek |-> e, priv |-> e] ELSE dev
        /\ key' = Rewrapped(q, e)
        /\ copy' = [h \in Holders |->
             IF h \in Shared THEN Copied(q, h, e, q.psks[h])
             ELSE IF psk[h] = None THEN NoCopy ELSE [dek |-> e, val |-> psk[h]]]
  BY DEF SyncCommit
<1>2. /\ q # Idle /\ q.step = "sync" /\ End(r) /\ IsRow(key[q.new]) /\ Unwraps(q)
      /\ handed' = handed \cup {q.new} /\ UNCHANGED <<psk, calm, born>>
  BY IdleFacts DEF SyncCommit
<1>3. TypeOK /\ q \in Request
  BY DEF IInv, TypeOK
<1>4. q.op \in Issuing /\ q.new \in Keys
  BY <1>2 DEF IInv, RequestsOK, SyncIsIssuing, NotYetIssued
<1>5. key' \in [Keys -> KeyRow]
  BY <1>1, <1>2, <1>3, <1>4, RewrappedTypes
<1>6. /\ Unwrapped(q) \in [Keys -> KeyRow]
      /\ \A k \in Keys : /\ IsRow(key[k]) => IsRow(Unwrapped(q)[k])
                         /\ ~IsRow(key[k]) => Unwrapped(q)[k] = key[k]
                         /\ Unwrapped(q)[k].wrap \in {None, key[k].wrap}
                         /\ q.dek # None => Unwrapped(q)[k] = key[k]
  BY <1>2, <1>3, UnwrappedTypes, UnwrappedWraps
<1>7. \A k \in Keys : k # q.new => key'[k] = Unwrapped(q)[k]
  BY <1>1, <1>6 DEF Rewrapped
<1>8. IsRow(key'[q.new]) /\ key'[q.new].wrap = e
  <2>1. key'[q.new] = [Unwrapped(q)[q.new] EXCEPT !.wrap = e]
    BY <1>1, <1>4, <1>6 DEF Rewrapped
  <2>2. Unwrapped(q)[q.new] \in [state : {"on", "off"}, wrap : MaybeDek]
    BY <1>2, <1>4, <1>6, RowTypes
  <2> QED
    BY <2>1, <2>2 DEF IsRow
<1>9. \A k \in Keys : key[k] = Unissued => key'[k] = Unissued
  BY <1>2, <1>6, <1>7, RowTypes
<1>10. /\ RequestsOK' /\ RowIsCurrent' /\ PsksAreCurrent' /\ BornWithDek' /\ DekIsCurrent'
       /\ req' \in [Requests -> Request] /\ dev' \in [dek : MaybeDek, priv : MaybeDek]
       /\ Sound => /\ dev'.dek = e /\ dev'.priv = e
                   /\ dev'.dek = dev.dek \/ dev.dek = None
                   /\ q.dek = dev.dek
  BY <1>1, <1>2, <1>4, <1>9, DekAfter DEF Issuing, UsesDek
<1>11. \A h \in Holders :
         /\ copy'[h] \in Copy
         /\ copy'[h].dek \in {None, e, copy[h].dek}
         /\ calm /\ psk[h] # None => copy'[h] = [dek |-> e, val |-> psk[h]]
  <2> SUFFICES ASSUME NEW h \in Holders
               PROVE  /\ copy'[h] \in Copy
                      /\ copy'[h].dek \in {None, e, copy[h].dek}
                      /\ calm /\ psk[h] # None => copy'[h] = [dek |-> e, val |-> psk[h]]
    OBVIOUS
  <2>1. CASE h \in Shared
    <3>1. copy'[h] = Copied(q, h, e, q.psks[h])
      BY <1>1, <2>1
    <3>2. q.psks[h] \in MaybePsk
      BY <1>3, <2>1 DEF Request
    <3>3. calm => q.psks[h] = psk[h]
      BY <1>4, <2>1 DEF IInv, PsksAreCurrent, Issuing
    <3>4. copy'[h] \in Copy
      BY <1>3, <3>1, <3>2, CopiedTypes
    <3>5. copy'[h] \in {NoCopy, copy[h], [dek |-> e, val |-> q.psks[h]]}
          /\ (q.psks[h] # None => copy'[h] = [dek |-> e, val |-> q.psks[h]])
      BY <3>1 DEF Copied, Cleared
    <3> QED
      BY <3>3, <3>4, <3>5 DEF NoCopy
  <2>2. CASE h \notin Shared
    <3>1. psk[h] \in MaybePsk
      BY <1>3 DEF TypeOK
    <3>2. copy'[h] = IF psk[h] = None THEN NoCopy ELSE [dek |-> e, val |-> psk[h]]
      BY <1>1, <2>2
    <3> QED
      BY <3>1, <3>2, CopyTypes DEF NoCopy, MaybePsk
  <2> QED
    BY <2>1, <2>2
<1>12. copy' \in [Holders -> Copy]
  BY <1>1, <1>11
<1>13. Sound' <=> Sound
  BY <1>2 DEF Sound
<1>14. WrapsOpen'
  <2> SUFFICES ASSUME Sound PROVE WrapsOpen'
    BY <1>13 DEF WrapsOpen
  <2>1. /\ \A k \in Keys : key[k].wrap \in {None, dev.dek}
        /\ \A h \in Holders : copy[h].dek \in {None, dev.dek}
    BY DEF IInv, WrapsOpen
  <2>2. \A k \in Keys : key'[k].wrap \in {None, dev'.dek}
    BY <1>4, <1>6, <1>7, <1>8, <1>10, <2>1
  <2>3. \A h \in Holders : copy'[h].dek \in {None, dev'.dek}
    BY <1>10, <1>11, <2>1
  <2> QED
    BY <1>10, <2>2, <2>3 DEF WrapsOpen
<1>15. HandedHaveWraps'
  <2> SUFFICES ASSUME Sound, NEW k \in handed'
               PROVE  IsRow(key'[k]) /\ dev'.dek # None /\ key'[k].wrap = dev'.dek
    BY <1>13 DEF HandedHaveWraps
  <2>1. e # None
    BY NoneIsNothing
  <2>2. CASE k = q.new
    BY <1>8, <1>10, <2>1, <2>2
  <2>3. CASE k # q.new
    <3>1. k \in handed /\ k \in Keys
      BY <1>2, <1>3, <2>3 DEF TypeOK
    <3>2. IsRow(key[k]) /\ dev.dek # None /\ key[k].wrap = dev.dek
      BY <3>1 DEF IInv, HandedHaveWraps
    <3> QED
      BY <1>6, <1>7, <1>10, <2>1, <2>3, <3>1, <3>2
  <2> QED
    BY <2>2, <2>3
<1>16. NoForgottenWraps'
  BY <1>2, <1>6, <1>7 DEF IInv, NoForgottenWraps
<1>17. CopiesFollow'
  BY <1>2, <1>10, <1>11 DEF CopiesFollow, Sound
<1> QED
  BY <1>2, <1>3, <1>4, <1>5, <1>10, <1>12, <1>14, <1>15, <1>16, <1>17 DEF IInv, TypeOK


LEMMA CommitReplaceKeeps ==
  ASSUME IInv, NEW r \in Requests, CommitReplace(r)
  PROVE  IInv'
<1> DEFINE q == req[r]
<1>1. PICK e \in Deks :
        /\ Takes(q, e)
        /\ dev' = [dek |-> IF q.dek = None THEN e ELSE dev.dek, priv |-> e]
        /\ copy' = [h \in Holders |-> IF h \in Shared /\ q.op = "privateKey"
                                    THEN Copied(q, h, e, q.psks[h]) ELSE copy[h]]
  BY DEF CommitReplace
<1>2. /\ q # Idle /\ q.op \in {"keypair", "privateKey"} /\ End(r) /\ Unwraps(q)
      /\ key' = Unwrapped(q) /\ UNCHANGED <<psk, handed, calm, born>>
  BY IdleFacts DEF CommitReplace, Reading
<1>3. TypeOK /\ q \in Request
  BY DEF IInv, TypeOK
<1>4. /\ key' \in [Keys -> KeyRow]
      /\ \A k \in Keys : /\ IsRow(key[k]) => IsRow(key'[k])
                         /\ ~IsRow(key[k]) => key'[k] = key[k]
                         /\ key'[k].wrap \in {None, key[k].wrap}
                         /\ q.dek # None => key'[k] = key[k]
  BY <1>2, <1>3, UnwrappedTypes, UnwrappedWraps
<1>5. \A k \in Keys : key[k] = Unissued => key'[k] = Unissued
  BY <1>4, RowTypes
<1>6. /\ RequestsOK' /\ RowIsCurrent' /\ PsksAreCurrent' /\ BornWithDek' /\ DekIsCurrent'
      /\ req' \in [Requests -> Request] /\ dev' \in [dek : MaybeDek, priv : MaybeDek]
      /\ Sound => /\ dev'.dek = e /\ dev'.priv = e
                  /\ dev'.dek = dev.dek \/ dev.dek = None
                  /\ q.dek = dev.dek
  BY <1>1, <1>2, <1>5, DekAfter DEF UsesDek
<1>7. \A h \in Holders :
        /\ copy'[h] \in Copy
        /\ copy'[h].dek \in {None, e, copy[h].dek}
        /\ calm /\ psk[h] # None =>
             copy'[h] = copy[h] \/ copy'[h] = [dek |-> e, val |-> psk[h]]
  <2> SUFFICES ASSUME NEW h \in Holders
               PROVE  /\ copy'[h] \in Copy
                      /\ copy'[h].dek \in {None, e, copy[h].dek}
                      /\ calm /\ psk[h] # None =>
                           copy'[h] = copy[h] \/ copy'[h] = [dek |-> e, val |-> psk[h]]
    OBVIOUS
  <2>1. CASE h \in Shared /\ q.op = "privateKey"
    <3>1. copy'[h] = Copied(q, h, e, q.psks[h])
      BY <1>1, <2>1
    <3>2. q.psks[h] \in MaybePsk
      BY <1>3, <2>1 DEF Request
    <3>3. calm => q.psks[h] = psk[h]
      BY <2>1 DEF IInv, PsksAreCurrent
    <3>4. copy'[h] \in Copy
      BY <1>3, <3>1, <3>2, CopiedTypes
    <3>5. copy'[h] \in {NoCopy, copy[h], [dek |-> e, val |-> q.psks[h]]}
          /\ (q.psks[h] # None => copy'[h] = [dek |-> e, val |-> q.psks[h]])
      BY <3>1 DEF Copied, Cleared
    <3> QED
      BY <3>3, <3>4, <3>5 DEF NoCopy
  <2>2. CASE ~(h \in Shared /\ q.op = "privateKey")
    BY <1>1, <1>3, <2>2 DEF TypeOK
  <2> QED
    BY <2>1, <2>2
<1>8. copy' \in [Holders -> Copy]
  BY <1>1, <1>7
<1>9. Sound' <=> Sound
  BY <1>2 DEF Sound
<1>10. WrapsOpen'
  <2> SUFFICES ASSUME Sound PROVE WrapsOpen'
    BY <1>9 DEF WrapsOpen
  <2>1. /\ \A k \in Keys : key[k].wrap \in {None, dev.dek}
        /\ \A h \in Holders : copy[h].dek \in {None, dev.dek}
    BY DEF IInv, WrapsOpen
  <2>2. \A k \in Keys : key'[k].wrap \in {None, dev'.dek}
    BY <1>4, <1>6, <2>1
  <2>3. \A h \in Holders : copy'[h].dek \in {None, dev'.dek}
    BY <1>6, <1>7, <2>1
  <2> QED
    BY <1>6, <2>2, <2>3 DEF WrapsOpen
<1>11. HandedHaveWraps'
  <2> SUFFICES ASSUME Sound, NEW k \in handed
               PROVE  IsRow(key'[k]) /\ dev'.dek # None /\ key'[k].wrap = dev'.dek
    BY <1>2, <1>9 DEF HandedHaveWraps
  <2>1. k \in Keys /\ IsRow(key[k]) /\ dev.dek # None /\ key[k].wrap = dev.dek
    BY <1>3 DEF TypeOK, IInv, HandedHaveWraps
  <2> QED
    BY <1>4, <1>6, <2>1
<1>12. NoForgottenWraps'
  BY <1>2, <1>4 DEF IInv, NoForgottenWraps
<1>13. CopiesFollow'
  <2> SUFFICES ASSUME calm, handed # {}, NEW h \in Holders, psk[h] # None
               PROVE  copy'[h] = [dek |-> dev'.dek, val |-> psk[h]]
    BY <1>2 DEF CopiesFollow
  <2>1. dev.dek # None /\ dev'.dek = dev.dek /\ dev'.dek = e
    BY <1>6, DekOfTheDevice DEF Sound
  <2>2. copy[h] = [dek |-> dev.dek, val |-> psk[h]]
    BY DEF IInv, CopiesFollow
  <2> QED
    BY <1>7, <2>1, <2>2
<1> QED
  BY <1>2, <1>3, <1>4, <1>6, <1>8, <1>10, <1>11, <1>12, <1>13 DEF IInv, TypeOK

-----------------------------------------------------------------------------
LEMMA DeviceKeysInit == Init => IInv
<1> SUFFICES ASSUME Init PROVE IInv
  OBVIOUS
<1>1. born \in {"legacy", "dek"}
  BY BirthsAreForms DEF Init
<1>2. dev \in [dek : MaybeDek, priv : MaybeDek] /\ dev.priv = dev.dek
      /\ (born = "dek" => dev.dek # None)
  BY <1>1, NoneIsNothing DEF Init, MaybeDek
<1>3. TypeOK
  BY <1>1, <1>2, RowTypes, CopyTypes, IdleTypes
     DEF Init, TypeOK, Untouched, NoCopies, MaybePsk
<1>4. \A r \in Requests : req[r] = Idle
  BY DEF Init
<1>5. RequestsOK /\ DekIsCurrent /\ RowIsCurrent /\ PsksAreCurrent
  <2>1. Idle.step = "idle" /\ Idle.op = "none" /\ Idle.new = None
    BY IdleFacts
  <2> QED
    BY <1>4, <2>1 DEF RequestsOK, OneWhenCalm, NewKeysDiffer, NotYetIssued,
       SyncIsIssuing, HolderIsKnown, DekIsCurrent, RowIsCurrent, PsksAreCurrent,
       Issuing, UsesDek
<1>6. BornWithDek /\ HandedHaveWraps
  BY <1>2 DEF Init, BornWithDek, HandedHaveWraps
<1>7. (\A k \in Keys : key[k].wrap = None) /\ (\A h \in Holders : copy[h].dek = None)
  BY RowTypes DEF Init, Untouched, NoCopies, NoCopy
<1>8. WrapsOpen /\ NoForgottenWraps /\ CopiesFollow
  BY <1>2, <1>7 DEF WrapsOpen, NoForgottenWraps, CopiesFollow, Init
<1> QED
  BY <1>3, <1>5, <1>6, <1>8 DEF IInv

LEMMA DeviceKeysNext == IInv /\ [Next]_vars => IInv'
<1> SUFFICES ASSUME IInv, [Next]_vars PROVE IInv'
  OBVIOUS
<1>1. CASE UNCHANGED vars
  BY <1>1 DEF vars, IInv, TypeOK, RequestsOK, OneWhenCalm, NewKeysDiffer, NotYetIssued,
     SyncIsIssuing, HolderIsKnown, BornWithDek, DekIsCurrent, WrapsOpen, HandedHaveWraps,
     RowIsCurrent, PsksAreCurrent, NoForgottenWraps, CopiesFollow, Sound
<1>2. ASSUME NEW r \in Requests,
             \/ \E k \in Keys : \/ StartCreate(r, k)
                                \/ \E old \in Keys : StartRotate(r, k, old)
                                \/ StartRegenerate(r, k)
                                \/ StartUpdateKey(r, k)
                                \/ StartRevoke(r, k)
             \/ StartLockdown(r)
             \/ \E v \in MaybePsk : \/ \E h \in Shared : StartShared(r, h, v)
                                    \/ \E l \in Links : StartLink(r, l, v)
             \/ \E op \in {"keypair", "privateKey"} : StartReplace(r, op)
      PROVE  IInv'
  BY <1>2, StartsBegin, BegunKeeps
<1>3. ASSUME NEW r \in Requests,
             \/ IssueKey(r) \/ SyncRead(r) \/ SyncCommit(r)
             \/ CommitUpdateKey(r) \/ CommitRevoke(r) \/ CommitLockdown(r)
             \/ CommitShared(r) \/ CommitLink(r) \/ CommitReplace(r) \/ Fail(r)
             \/ \E k \in Keys : DeleteKey(r, k)
             \/ \E l \in Links : DeleteLink(r, l)
      PROVE  IInv'
  BY <1>3, IssueKeyKeeps, SyncReadKeeps, SyncCommitKeeps, CommitUpdateKeyKeeps,
     CommitRevokeKeeps, CommitLockdownKeeps, CommitSharedKeeps, CommitLinkKeeps,
     CommitReplaceKeeps, FailKeeps, DeleteKeyKeeps, DeleteLinkKeeps
<1> QED
  BY <1>1, <1>2, <1>3 DEF Next

\* The inductive invariant, for any numbers of keys, links and requests.
THEOREM DeviceKeysInvariant == Spec => []IInv
<1> QED
  BY DeviceKeysInit, DeviceKeysNext, PTL DEF Spec

\* Every value is one that the rows of a device, its keys and its links can
\* hold (routers/devices.py, services/api_key.py, services/device_links.py).
THEOREM DeviceKeysTypes == Spec => []TypeOK
<1>1. IInv => TypeOK
  BY DEF IInv
<1> QED
  BY <1>1, DeviceKeysInvariant, PTL

\* Everything stored for a device opens with its DEK, however many requests
\* overlap if the device was created with a DEK, and with requests one at a
\* time if it was not (services/api_key.py, routers/api_keys.py,
\* services/devices.py, services/device_links.py).
THEOREM StoredSecretsOpen == Spec => []WrapsOpen
<1>1. IInv => WrapsOpen
  BY DEF IInv
<1> QED
  BY <1>1, DeviceKeysInvariant, PTL

\* Under the same conditions no operation takes the DEK away from an API key
\* that was handed out and not withdrawn (services/api_key.py,
\* routers/api_keys.py).
THEOREM KeysGoOnWorking == Spec => []HandedOutKeysWork
<1>1. IInv => HandedOutKeysWork
  BY DEF IInv, HandedHaveWraps, HandedOutKeysWork
<1> QED
  BY <1>1, DeviceKeysInvariant, PTL

\* With requests one at a time, a key never handed out, or withdrawn, has no
\* wrapped DEK left on its row, whichever commit of its request failed
\* (routers/api_keys.py commits the key and its wrap one after the other).
THEOREM WithdrawnKeysForget == Spec => []NoForgottenWraps
<1>1. IInv => NoForgottenWraps
  BY DEF IInv
<1> QED
  BY <1>1, DeviceKeysInvariant, PTL

\* With requests one at a time, what a device fetches are the current
\* preshared keys, whichever operations wrote them (services/devices.py,
\* services/device_links.py, routers/devices.py).
THEOREM CopiesAreCurrent == Spec => []CopiesFollow
<1>1. IInv => CopiesFollow
  BY DEF IInv
<1> QED
  BY <1>1, DeviceKeysInvariant, PTL
=============================================================================

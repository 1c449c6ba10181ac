------------------------- MODULE KeyRotationProofs -------------------------
(* Theorems about KeyRotation, for every value of its constants. *)
EXTENDS KeyRotation, TLAPS

-----------------------------------------------------------------------------
(* Operators. *)

LEMMA SealType ==
    ASSUME NEW p \in MaybePassword, NEW v \in MaybePsk, v # None => p \in Passwords
    PROVE  Seal(p, v) \in Blob
  BY DEF Seal, Blob, MaybePsk

LEMMA NothingType ==
    /\ NoRows \in [Devices -> Row]
    /\ NoPsks \in [Holders -> Blob]
    /\ Idle \in Request
    /\ WellFormed(Idle)
<1>1. NoRows \in [Devices -> Row] /\ NoPsks \in [Holders -> Blob]
  BY DEF NoRows, NoPsks, Row, Blob
<1>2. Idle \in Request
  BY <1>1 DEF Idle, Asking, InFlight, Request, MaybePsk, MaybePassword
<1>3. WellFormed(Idle)
  BY DEF WellFormed, Idle, Asking, InFlight
<1> QED  BY <1>1, <1>2, <1>3

LEMMA ResealedType ==
    ASSUME NEW q, q.new \in Passwords, NEW b \in Blob, b # NoBlob
    PROVE  Resealed(q, b) \in Blob
  BY DEF Resealed, Blob

\* A request slot that takes a well-formed record keeps the requests typed
LEMMA RequestUpdate ==
    ASSUME TypeOK, NEW r \in Requests, NEW q \in Request, WellFormed(q),
           req' = [req EXCEPT ![r] = q]
    PROVE  req' \in [Requests -> Request] /\ \A x \in Requests : WellFormed(req'[x])
  BY DEF TypeOK

LEMMA EndType ==
    ASSUME TypeOK, NEW r \in Requests, End(r)
    PROVE  req' \in [Requests -> Request] /\ \A x \in Requests : WellFormed(req'[x])
  BY NothingType, RequestUpdate DEF End

LEMMA BeginType ==
    ASSUME TypeOK, NEW r \in Requests, NEW h \in Holders, NEW v \in MaybePsk,
           NEW op \in {"create", "upgrade", "devicePsk", "insertLink", "updateLink",
                       "sharedPsk"},
           op \in {"create", "upgrade", "devicePsk"} => h \in Devices,
           op \in {"insertLink", "updateLink"} => h \in Links,
           op = "sharedPsk" => h \in Shared,
           op \notin {"insertLink", "updateLink"} \/ v # None => cached # None,
           NEW rows \in [Devices -> Row], Begin(r, op, h, v, rows)
    PROVE  TypeOK'
<1> DEFINE q == InFlight("write", op, h, v, cached, None, rows, NoPsks, FALSE)
<1>1. q \in Request
  BY NothingType DEF TypeOK, Request, InFlight, MaybePassword
<1>2. WellFormed(q)
  BY DEF WellFormed, InFlight, TypeOK, MaybePassword
<1>3. req' \in [Requests -> Request] /\ \A x \in Requests : WellFormed(req'[x])
  BY <1>1, <1>2, RequestUpdate DEF Begin
<1> QED  BY <1>3 DEF Begin, TypeOK

LEMMA AdvanceType ==
    ASSUME TypeOK, NEW r \in Requests, NEW c \in Passwords, NEW n \in Passwords,
           NEW step \in {"validated", "read", "tables", "reply"},
           NEW rows \in [Devices -> Row], NEW psks \in [Holders -> Blob],
           NEW ok \in BOOLEAN, Advance(r, step, c, n, rows, psks, ok)
    PROVE  req' \in [Requests -> Request] /\ \A x \in Requests : WellFormed(req'[x])
<1> DEFINE q == InFlight(step, "rotate", None, None, c, n, rows, psks, ok)
<1>1. q \in Request
  BY DEF Request, InFlight, MaybePassword, MaybePsk
<1>2. WellFormed(q)
  BY DEF WellFormed, InFlight
<1> QED  BY <1>1, <1>2, RequestUpdate DEF Advance

-----------------------------------------------------------------------------
(* Every action keeps the types. *)

LEMMA WriteType ==
    ASSUME TypeOK, NEW r \in Requests, Write(r)
    PROVE  TypeOK'
<1> DEFINE q == req[r]
<1>1. q \in Request /\ WellFormed(q)
  BY DEF TypeOK
<1>2. ASSUME NEW d \in Devices, NEW v \in MaybePsk, StartCreateDevice(r, d, v)
      PROVE  TypeOK'
  BY <1>2, BeginType, NothingType DEF StartCreateDevice, Holders
<1>3. ASSUME CommitCreateDevice(r)  PROVE TypeOK'
  <2>1. q.at \in Devices /\ q.pw \in Passwords /\ q.val \in MaybePsk
    BY <1>1, <1>3 DEF CommitCreateDevice, Writing, WellFormed, Request
  <2>2. Seal(q.pw, q.val) \in Blob
    BY <2>1, SealType DEF MaybePassword
  <2>3. dev' \in [Devices -> Row] /\ psk' \in [Holders -> Blob]
    BY <1>3, <2>1, <2>2 DEF CommitCreateDevice, TypeOK, Row
  <2> QED  BY <1>3, <2>3, EndType DEF CommitCreateDevice, TypeOK
<1>4. ASSUME NEW d \in Devices, StartUpgradeDevice(r, d)  PROVE TypeOK'
  BY <1>4, BeginType, NothingType DEF StartUpgradeDevice, Holders, MaybePsk
<1>5. ASSUME CommitUpgradeDevice(r)  PROVE TypeOK'
  <2>1. q.at \in Devices /\ q.pw \in Passwords
    BY <1>1, <1>5 DEF CommitUpgradeDevice, Writing, WellFormed
  <2>2. dev' \in [Devices -> Row]
    BY <1>5, <2>1 DEF CommitUpgradeDevice, TypeOK, Row
  <2> QED  BY <1>5, <2>2, EndType DEF CommitUpgradeDevice, TypeOK
<1>6. ASSUME NEW d \in Devices, NEW v \in MaybePsk, StartDevicePsk(r, d, v)
      PROVE  TypeOK'
  BY <1>6, BeginType, NothingType DEF StartDevicePsk, Holders
<1>7. ASSUME CommitDevicePsk(r)  PROVE TypeOK'
  <2>1. q.at \in Devices /\ q.pw \in Passwords /\ q.val \in MaybePsk
    BY <1>1, <1>7 DEF CommitDevicePsk, Writing, WellFormed, Request
  <2>2. psk' \in [Holders -> Blob]
    BY <1>7, <2>1, SealType DEF CommitDevicePsk, TypeOK, MaybePassword
  <2> QED  BY <1>7, <2>2, EndType DEF CommitDevicePsk, TypeOK
<1>8. ASSUME NEW l \in Links, NEW v \in MaybePsk, StartLinkPsk(r, l, v)
      PROVE  TypeOK'
  BY <1>8, BeginType, NothingType DEF StartLinkPsk, Holders
<1>9. ASSUME CommitLinkPsk(r)  PROVE TypeOK'
  <2>1. q.at \in Links /\ q.pw \in MaybePassword /\ q.val \in MaybePsk
        /\ (q.val # None => q.pw \in Passwords)
    BY <1>1, <1>9 DEF CommitLinkPsk, Writing, WellFormed, Request
  <2>2. psk' \in [Holders -> Blob] /\ links' \subseteq Links
    BY <1>9, <2>1, SealType DEF CommitLinkPsk, TypeOK
  <2> QED  BY <1>9, <2>2, EndType DEF CommitLinkPsk, TypeOK
<1>10. ASSUME NEW s \in Shared, NEW v \in MaybePsk, StartSharedPsk(r, s, v)
       PROVE  TypeOK'
  <2> DEFINE rows == [d \in Devices |-> IF v # None /\ d \in Members(s) /\ Present(dev[d])
                                        THEN dev[d] ELSE NoRow]
  <2>1. rows \in [Devices -> Row]
    BY NothingType DEF TypeOK, Row
  <2> QED  BY <1>10, <2>1, BeginType DEF StartSharedPsk, Holders, Shared
<1>11. ASSUME CommitSharedPsk(r)  PROVE TypeOK'
  <2>1. q.at \in Shared /\ q.pw \in Passwords /\ q.val \in MaybePsk
    BY <1>1, <1>11 DEF CommitSharedPsk, Writing, WellFormed, Request
  <2>2. psk' \in [Holders -> Blob]
    BY <1>11, <2>1, SealType DEF CommitSharedPsk, TypeOK, MaybePassword
  <2> QED  BY <1>11, <2>2, EndType DEF CommitSharedPsk, TypeOK
<1> QED
  BY <1>2, <1>3, <1>4, <1>5, <1>6, <1>7, <1>8, <1>9, <1>10, <1>11 DEF Write

LEMMA RotatedPskType ==
    ASSUME TypeOK, NEW r \in Requests, req[r].op = "rotate"
    PROVE  RotatedPsk(req[r]) \in [Holders -> Blob]
<1> DEFINE q == req[r]
<1>1. q \in Request /\ q.new \in Passwords /\ q.pw \in Passwords /\ psk \in [Holders -> Blob]
  BY DEF TypeOK, WellFormed
<1>2. q.psks \in [Holders -> Blob] /\ Table(q) \in [Holders -> Blob]
  BY <1>1 DEF Request, Table
<1>3. ASSUME NEW h \in Holders  PROVE RotatedPsk(q)[h] \in Blob
  <2>1. q.psks[h] # NoBlob => Resealed(q, q.psks[h]) \in Blob
    BY <1>1, <1>2, ResealedType
  <2>2. Table(q)[h].pw = q.pw => Table(q)[h] # NoBlob
    BY <1>1, NoneIsNothing DEF NoBlob
  <2>3. Table(q)[h].pw = q.pw => Resealed(q, Table(q)[h]) \in Blob
    BY <1>1, <1>2, <2>2, ResealedType
  <2>4. psk[h] \in Blob
    BY <1>1
  <2> QED  BY <2>1, <2>3, <2>4 DEF RotatedPsk
<1> QED  BY <1>3 DEF RotatedPsk

LEMMA RotateType ==
    ASSUME TypeOK, NEW r \in Requests, Rotate(r)
    PROVE  TypeOK'
<1> DEFINE q == req[r]
<1>1. q \in Request /\ WellFormed(q)
  BY DEF TypeOK
<1>2. q.op = "rotate" => /\ q.pw \in Passwords /\ q.new \in Passwords
                         /\ q.rows \in [Devices -> Row] /\ q.psks \in [Holders -> Blob]
  BY <1>1 DEF WellFormed, Request
<1>3. ASSUME NEW c \in Passwords, NEW n \in Passwords, RotateValidate(r, c, n)
      PROVE  TypeOK'
  <2>1. req' \in [Requests -> Request] /\ \A x \in Requests : WellFormed(req'[x])
    BY <1>3, AdvanceType, NothingType DEF RotateValidate
  <2> QED  BY <1>3, <2>1 DEF RotateValidate, TypeOK
<1>4. ASSUME RotateReadDevices(r)  PROVE TypeOK'
  <2> DEFINE P == [h \in Holders |-> IF h \in Devices THEN psk[h] ELSE NoBlob]
  <2>1. dev \in [Devices -> Row] /\ P \in [Holders -> Blob]
    BY DEF TypeOK, Blob
  <2>2. q.op = "rotate" /\ Advance(r, "read", q.pw, q.new, dev, P, FALSE)
    BY <1>4 DEF RotateReadDevices, Rotating
  <2>3. req' \in [Requests -> Request] /\ \A x \in Requests : WellFormed(req'[x])
    BY <1>2, <2>1, <2>2, AdvanceType
  <2> QED  BY <1>4, <2>3 DEF RotateReadDevices, TypeOK
<1>5. ASSUME RotateReadTables(r)  PROVE TypeOK'
  <2> DEFINE P == [h \in Holders |-> IF h \in Devices THEN q.psks[h] ELSE psk[h]]
  <2>1. q.op = "rotate" /\ Advance(r, "tables", q.pw, q.new, q.rows, P, FALSE)
    BY <1>5 DEF RotateReadTables, Rotating
  <2>2. P \in [Holders -> Blob]
    BY <1>2, <2>1 DEF TypeOK
  <2>3. req' \in [Requests -> Request] /\ \A x \in Requests : WellFormed(req'[x])
    BY <1>2, <2>1, <2>2, AdvanceType
  <2> QED  BY <1>5, <2>3 DEF RotateReadTables, TypeOK
<1>6. ASSUME ReadyToCommit(r), Answer(r)
      PROVE  req' \in [Requests -> Request] /\ \A x \in Requests : WellFormed(req'[x])
  <2>1. q.op = "rotate" /\ Advance(r, "reply", q.pw, q.new, NoRows, NoPsks, ReportsSuccess(q))
    BY <1>6 DEF ReadyToCommit, Rotating, Answer
  <2>2. ReportsSuccess(q) \in BOOLEAN
    BY DEF ReportsSuccess
  <2> QED  BY <1>2, <2>1, <2>2, NothingType, AdvanceType
<1>7. ASSUME RotateCommit(r)  PROVE TypeOK'
  <2>1. q.op = "rotate" /\ q.new \in Passwords
    BY <1>2, <1>7 DEF RotateCommit, ReadyToCommit, Rotating
  <2>2. dev' \in [Devices -> Row]
    BY <1>7, <2>1 DEF RotateCommit, TypeOK, Row
  <2>3. psk' \in [Holders -> Blob]
    BY <1>7, <2>1, RotatedPskType DEF RotateCommit
  <2> QED  BY <1>6, <1>7, <2>2, <2>3 DEF RotateCommit, TypeOK
<1>8. ASSUME RotateRollback(r)  PROVE TypeOK'
  BY <1>6, <1>8 DEF RotateRollback, TypeOK
<1>9. ASSUME RotateReply(r)  PROVE TypeOK'
  <2>1. q.pw \in Passwords
    BY <1>2, <1>9 DEF RotateReply, Rotating
  <2> QED  BY <1>9, <2>1, EndType DEF RotateReply, TypeOK, MaybePassword
<1> QED  BY <1>3, <1>4, <1>5, <1>7, <1>8, <1>9 DEF Rotate

LEMMA RemoveType ==
    ASSUME TypeOK, NEW r \in Requests, Remove(r)
    PROVE  TypeOK'
<1>1. NoBlob \in Blob /\ GoneRow \in Row
  BY DEF Blob, Row
<1>2. ASSUME NEW d \in Devices, DeleteDevice(r, d)  PROVE TypeOK'
  <2>1. dev' \in [Devices -> Row] /\ psk' \in [Holders -> Blob] /\ links' \subseteq Links
    BY <1>1, <1>2 DEF DeleteDevice, TypeOK
  <2> QED  BY <1>2, <2>1 DEF DeleteDevice, TypeOK
<1>3. ASSUME NEW l \in Links, DeleteLink(r, l)  PROVE TypeOK'
  <2>1. psk' \in [Holders -> Blob] /\ links' \subseteq Links
    BY <1>1, <1>3 DEF DeleteLink, TypeOK
  <2> QED  BY <1>3, <2>1 DEF DeleteLink, TypeOK
<1> QED  BY <1>2, <1>3 DEF Remove

LEMMA ImportType ==
    ASSUME TypeOK, NEW r \in Requests, Import(r)
    PROVE  TypeOK'
<1> PICK n \in Networks, D \in SUBSET Devices, p \in Passwords,
         form \in {"dek", "legacy"}, v \in MaybePsk : Restore(r, n, D, p, form, v)
  BY DEF Import
<1>1. [form |-> form, pw |-> p] \in Row /\ Seal(p, v) \in Blob
  BY SealType DEF Row, MaybePassword
<1>2. dev' \in [Devices -> Row] /\ psk' \in [Holders -> Blob]
  BY <1>1 DEF Restore, TypeOK
<1>3. netKey' \in [Networks -> MaybePassword]
  BY DEF Restore, TypeOK, MaybePassword
<1>4. imports' \in 0 .. MaxImports
  BY BoundsAndSwitches DEF Restore, TypeOK
<1> QED  BY <1>2, <1>3, <1>4 DEF Restore, TypeOK

LEMMA UnlockType ==
    ASSUME TypeOK, NEW r \in Requests, Unlock(r)
    PROVE  TypeOK'
<1>1. ASSUME NEW p \in Passwords, NEW op \in {"validPassword", "bootstrap"},
             UnlockRead(r, op, p)
      PROVE  TypeOK'
  <2> DEFINE q == Asking("unlock", op, None, None, p)
  <2>1. q \in Request /\ WellFormed(q)
    BY NothingType DEF Request, WellFormed, Asking, InFlight, MaybePassword, MaybePsk
  <2>2. req' \in [Requests -> Request] /\ \A x \in Requests : WellFormed(req'[x])
    BY <1>1, <2>1, RequestUpdate DEF UnlockRead
  <2> QED  BY <1>1, <2>2 DEF UnlockRead, TypeOK
<1>2. ASSUME UnlockFinish(r)  PROVE TypeOK'
  <2>1. req[r].pw \in Passwords
    BY <1>2 DEF UnlockFinish, TypeOK, WellFormed
  <2> QED  BY <1>2, <2>1, EndType DEF UnlockFinish, TypeOK, MaybePassword
<1> QED  BY <1>1, <1>2 DEF Unlock, UnlockValidate, UnlockBootstrap

LEMMA CacheType ==
    ASSUME TypeOK, Lock \/ Crash
    PROVE  TypeOK'
<1>1. CASE Lock
  BY <1>1 DEF Lock, TypeOK, MaybePassword
<1>2. CASE Crash
  <2>1. req' \in [Requests -> Request] /\ \A x \in Requests : WellFormed(req'[x])
    BY <1>2, NothingType DEF Crash
  <2> QED  BY <1>2, <2>1 DEF Crash, TypeOK, MaybePassword
<1> QED  BY <1>1, <1>2

LEMMA NextType == TypeOK /\ [Next]_vars => TypeOK'
<1> SUFFICES ASSUME TypeOK, [Next]_vars  PROVE TypeOK'
  OBVIOUS
<1>1. ASSUME NEW r \in Requests,
             Write(r) \/ Remove(r) \/ Import(r) \/ Unlock(r) \/ Rotate(r)
      PROVE  TypeOK'
  BY <1>1, WriteType, RemoveType, ImportType, UnlockType, RotateType
<1>2. ASSUME NEW r \in Requests, Abort(r)  PROVE TypeOK'
  BY <1>2, EndType DEF Abort, TypeOK
<1>3. CASE Lock \/ Crash
  BY <1>3, CacheType
<1>4. CASE UNCHANGED vars
  BY <1>4 DEF vars, TypeOK
<1> QED  BY <1>1, <1>2, <1>3, <1>4 DEF Next

\* Whatever the requests do, rows, blobs and requests keep the shape the code
\* relies on: nothing stored is half sealed, and no commit lacks its password.
THEOREM TypeInvariant == Spec => []TypeOK
<1>1. Init => TypeOK
  BY NothingType, BoundsAndSwitches DEF Init, TypeOK, MaybePassword
<1> QED  BY <1>1, NextType, PTL DEF Spec

-----------------------------------------------------------------------------
(* One request at a time.  Uniform and RetiredPasswordUnused are not         *)
(* inductive: that a commit leaves one password depends on what the request  *)
(* in flight carries, and that a rotation reaches every secret depends on    *)
(* which rows can hold one.                                                  *)

\* Every stored secret is under p
Under(p) ==
    /\ \A d \in Devices : dev[d].pw \in {None, p}
    /\ \A h \in Holders : psk[h].pw \in {None, p}

\* A secret of a device or a link belongs to a device with a device key
DbShape ==
    /\ \A n \in Networks : netKey[n] = None
    /\ \A d \in Devices : dev[d].form # "legacy"
    /\ \A d \in Devices : psk[d] # NoBlob => Present(dev[d])
    /\ \A l \in Links : psk[l] # NoBlob => l \in links
    /\ \A l \in links : Present(dev[LinkFrom[l]])

OnePassword ==
    /\ \A p \in StoredUnder : Under(p)
    /\ StoredUnder \cap retired = {}

Answering == \E r \in Requests : req[r].step = "reply" /\ req[r].ok

CacheFits ==
    /\ cached \notin retired
    /\ cached # None /\ ~Answering => Under(cached)

\* The password a request took still fits when it commits, what a rotation
\* read is still there, and a successful one has emptied its old password
RequestFits(q) ==
    /\ q.step = "write" =>
         /\ cached \in {None, q.pw}
         /\ q.pw # None => Under(q.pw) /\ q.pw \notin retired
    /\ q.step = "write" /\ q.op \in {"insertLink", "updateLink"} =>
         Present(dev[LinkFrom[q.at]])
    /\ q.step = "unlock" =>
         Under(q.pw) /\ (q.op = "validPassword" => q.pw \notin retired)
    /\ q.step \in {"read", "tables"} =>
         q.rows = dev /\ \A d \in Devices : q.psks[d] = psk[d]
    /\ q.step = "tables" => q.psks = psk
    /\ q.step = "reply" /\ q.ok => (q.pw \in StoredUnder => q.pw = q.new)

Safe == DbShape /\ OnePassword /\ CacheFits /\ \A r \in Requests : RequestFits(req[r])

SerialInv == TypeOK /\ Safe

LEMMA Stored ==
    ASSUME NEW p
    PROVE  p \in StoredUnder <=> /\ p # None
                                 /\ \/ \E d \in Devices : dev[d].pw = p
                                    \/ \E h \in Holders : psk[h].pw = p
  BY DEF StoredUnder

LEMMA StoredNext ==
    ASSUME NEW p
    PROVE  p \in StoredUnder' <=> /\ p # None
                                  /\ \/ \E d \in Devices : dev'[d].pw = p
                                     \/ \E h \in Holders : psk'[h].pw = p
  BY DEF StoredUnder

\* Secrets are only removed
LEMMA Shrinking ==
    ASSUME OnePassword, retired' \subseteq retired,
           \A d \in Devices : dev'[d].pw \in {dev[d].pw, None},
           \A h \in Holders : psk'[h].pw \in {psk[h].pw, None}
    PROVE  OnePassword' /\ \A p : Under(p) => Under(p)'
<1>1. \A p : Under(p) => Under(p)'
  BY DEF Under
<1>2. StoredUnder' \subseteq StoredUnder
  BY Stored, StoredNext
<1> QED  BY <1>1, <1>2 DEF OnePassword

\* Secrets are added under the password that fits
LEMMA Sealing ==
    ASSUME NEW p, Under(p), p \notin retired', OnePassword, retired' \subseteq retired,
           \A d \in Devices : dev'[d].pw \in {dev[d].pw, None, p},
           \A h \in Holders : psk'[h].pw \in {psk[h].pw, None, p}
    PROVE  OnePassword' /\ Under(p)'
<1>1. Under(p)'
  BY DEF Under
<1>2. \A x : x \in StoredUnder' => x = p
  BY <1>1, StoredNext DEF Under
<1> QED  BY <1>1, <1>2 DEF OnePassword

LEMMA PasswordsAreSomething == None \notin Passwords /\ None \notin Psks
  BY NoneIsNothing

LEMMA SealIsUnder ==
    ASSUME NEW p, NEW v \in MaybePsk
    PROVE  Seal(p, v).pw \in {None, p} /\ (v = None => Seal(p, v) = NoBlob)
  BY DEF Seal, NoBlob

\* Taking the cached password when no rotation is being answered
LEMMA TakenFits ==
    ASSUME SerialInv, NEW r \in Requests, \A x \in Requests : x = r, req[r] = Idle,
           cached # None
    PROVE  Under(cached) /\ cached \notin retired
<1>1. ~Answering
  BY DEF Answering, Idle, Asking, InFlight
<1> QED  BY <1>1 DEF SerialInv, Safe, CacheFits

\* A step of the database's only request that ends it, or starts it
LEMMA DbUnchanged ==
    ASSUME OnePassword, DbShape, UNCHANGED <<dev, psk, links, netKey, retired>>
    PROVE  OnePassword' /\ DbShape' /\ (\A p : Under(p)' <=> Under(p))
           /\ StoredUnder' = StoredUnder
  BY DEF OnePassword, DbShape, Under, StoredUnder

LEMMA IdleFits == RequestFits(Idle)
  BY DEF RequestFits, Idle, Asking, InFlight

LEMMA Ended ==
    ASSUME TypeOK, NEW r \in Requests, \A x \in Requests : x = r, End(r)
    PROVE  (\A x \in Requests : RequestFits(req[x]))' /\ ~Answering'
<1>1. \A x \in Requests : req'[x] = Idle
  BY DEF End, TypeOK
<1>2. \A x \in Requests : ~(req'[x].step = "reply" /\ req'[x].ok)
  BY <1>1 DEF Idle, Asking, InFlight
<1>3. ~Answering'
  BY <1>2 DEF Answering
<1>4. ASSUME NEW x \in Requests  PROVE RequestFits(req[x])'
  BY <1>1 DEF RequestFits, Idle, Asking, InFlight
<1> QED  BY <1>3, <1>4

LEMMA Begun ==
    ASSUME SerialInv, NEW r \in Requests, \A x \in Requests : x = r,
           NEW op, NEW h, NEW v, NEW rows, Begin(r, op, h, v, rows),
           op \in {"insertLink", "updateLink"} => Present(dev[LinkFrom[h]])
    PROVE  Safe'
<1> USE DEF SerialInv, Safe
<1>1. DbShape' /\ OnePassword'
  BY DbUnchanged DEF Begin
<1>2. \A x \in Requests : req'[x] = InFlight("write", op, h, v, cached, None, rows, NoPsks, FALSE)
  BY DEF Begin, TypeOK
<1>3. ~Answering /\ ~Answering'
  BY <1>2 DEF Answering, Asking, InFlight, Begin, Idle
<1>4. CacheFits'
  BY <1>3, DbUnchanged DEF Begin, CacheFits
<1>5. cached # None => Under(cached)' /\ cached \notin retired'
  BY TakenFits, DbUnchanged DEF Begin
<1>6. ASSUME NEW x \in Requests  PROVE RequestFits(req[x])'
  BY <1>2, <1>5 DEF RequestFits, Asking, InFlight, Begin
<1> QED  BY <1>1, <1>4, <1>6

\* A commit that seals under the request's own password
LEMMA Committed ==
    ASSUME SerialInv, NEW r \in Requests, \A x \in Requests : x = r,
           req[r].step = "write", End(r), UNCHANGED <<cached, retired, netKey>>,
           \A d \in Devices : dev'[d].pw \in {dev[d].pw, None, req[r].pw},
           \A h \in Holders : psk'[h].pw \in {psk[h].pw, None, req[r].pw},
           DbShape'
    PROVE  Safe'
<1> USE DEF SerialInv, Safe
<1> PICK p : p = req[r].pw
  OBVIOUS
<1>1. RequestFits(req[r])
  OBVIOUS
<1>2. cached \in {None, p} /\ (p # None => Under(p) /\ p \notin retired)
  BY <1>1 DEF RequestFits
<1>3. OnePassword' /\ (p # None => Under(p)')
  <2>1. CASE p = None
    BY <2>1, Shrinking
  <2>2. CASE p # None
    BY <2>2, <1>2, Sealing
  <2> QED  BY <2>1, <2>2
<1>4. (\A x \in Requests : RequestFits(req[x]))' /\ ~Answering'
  BY Ended
<1>5. CacheFits'
  BY <1>2, <1>3 DEF CacheFits
<1> QED  BY <1>3, <1>4, <1>5

LEMMA SafeWrite ==
    ASSUME SerialInv, NEW r \in Requests, \A x \in Requests : x = r, Write(r)
    PROVE  Safe'
<1> USE DEF SerialInv, Safe
<1> DEFINE q == req[r]
<1>1. q \in Request /\ WellFormed(q) /\ RequestFits(q)
  BY DEF TypeOK
<1>2. ASSUME NEW d \in Devices, NEW v \in MaybePsk,
             StartCreateDevice(r, d, v) \/ StartDevicePsk(r, d, v)
      PROVE  Safe'
  BY <1>2, Begun DEF StartCreateDevice, StartDevicePsk
<1>3. ASSUME NEW d \in Devices, StartUpgradeDevice(r, d)  PROVE Safe'
  BY <1>3, Begun DEF StartUpgradeDevice
<1>4. ASSUME NEW l \in Links, NEW v \in MaybePsk, StartLinkPsk(r, l, v)
      PROVE  Safe'
  BY <1>4, Begun DEF StartLinkPsk
<1>5. ASSUME NEW s \in Shared, NEW v \in MaybePsk, StartSharedPsk(r, s, v)
      PROVE  Safe'
  BY <1>5, Begun DEF StartSharedPsk
<1>6. ASSUME NEW p, NEW v \in MaybePsk
      PROVE  Seal(p, v).pw \in {None, p}
  BY <1>6, SealIsUnder
<1>7. ASSUME CommitCreateDevice(r)  PROVE Safe'
  <2>1. q.at \in Devices /\ q.val \in MaybePsk /\ q.step = "write"
    BY <1>1, <1>7 DEF CommitCreateDevice, Writing, WellFormed, Request
  <2>2. /\ \A d \in Devices : dev'[d].pw \in {dev[d].pw, None, q.pw}
        /\ \A h \in Holders : psk'[h].pw \in {psk[h].pw, None, q.pw}
    BY <1>6, <1>7, <2>1 DEF CommitCreateDevice, TypeOK
  <2>3. DbShape'
    BY <1>7, <2>1, RowsAreDistinct, ForeignKeys DEF CommitCreateDevice, DbShape, TypeOK, Present, Holders
  <2> QED  BY <1>7, <2>1, <2>2, <2>3, Committed DEF CommitCreateDevice
<1>8. ASSUME CommitUpgradeDevice(r)  PROVE Safe'
  <2>1. q.at \in Devices /\ q.step = "write"
    BY <1>1, <1>8 DEF CommitUpgradeDevice, Writing, WellFormed
  <2>2. /\ \A d \in Devices : dev'[d].pw \in {dev[d].pw, None, q.pw}
        /\ \A h \in Holders : psk'[h].pw \in {psk[h].pw, None, q.pw}
    BY <1>8, <2>1 DEF CommitUpgradeDevice, TypeOK
  <2>3. DbShape'
    BY <1>8, <2>1, ForeignKeys DEF CommitUpgradeDevice, DbShape, TypeOK, Present
  <2> QED  BY <1>8, <2>1, <2>2, <2>3, Committed DEF CommitUpgradeDevice
<1>9. ASSUME CommitDevicePsk(r)  PROVE Safe'
  <2>1. q.at \in Devices /\ q.val \in MaybePsk /\ q.step = "write"
    BY <1>1, <1>9 DEF CommitDevicePsk, Writing, WellFormed, Request
  <2>2. /\ \A d \in Devices : dev'[d].pw \in {dev[d].pw, None, q.pw}
        /\ \A h \in Holders : psk'[h].pw \in {psk[h].pw, None, q.pw}
    BY <1>6, <1>9, <2>1 DEF CommitDevicePsk, TypeOK
  <2>3. DbShape'
    BY <1>9, <2>1, RowsAreDistinct DEF CommitDevicePsk, DbShape, TypeOK, Holders
  <2> QED  BY <1>9, <2>1, <2>2, <2>3, Committed DEF CommitDevicePsk
<1>10. ASSUME CommitLinkPsk(r)  PROVE Safe'
  <2>1. /\ q.at \in Links /\ q.val \in MaybePsk /\ q.step = "write"
        /\ q.op \in {"insertLink", "updateLink"}
    BY <1>1, <1>10 DEF CommitLinkPsk, Writing, WellFormed, Request
  <2>2. /\ \A d \in Devices : dev'[d].pw \in {dev[d].pw, None, q.pw}
        /\ \A h \in Holders : psk'[h].pw \in {psk[h].pw, None, q.pw}
    BY <1>6, <1>10, <2>1 DEF CommitLinkPsk, TypeOK
  <2>3. Present(dev[LinkFrom[q.at]])
    BY <1>1, <2>1 DEF RequestFits
  <2>4. DbShape'
    BY <1>10, <2>1, <2>3, RowsAreDistinct DEF CommitLinkPsk, DbShape, TypeOK, Holders
  <2> QED  BY <1>10, <2>1, <2>2, <2>4, Committed DEF CommitLinkPsk
<1>11. ASSUME CommitSharedPsk(r)  PROVE Safe'
  <2>1. q.at \in Shared /\ q.val \in MaybePsk /\ q.step = "write"
    BY <1>1, <1>11 DEF CommitSharedPsk, Writing, WellFormed, Request
  <2>2. /\ \A d \in Devices : dev'[d].pw \in {dev[d].pw, None, q.pw}
        /\ \A h \in Holders : psk'[h].pw \in {psk[h].pw, None, q.pw}
    BY <1>6, <1>11, <2>1 DEF CommitSharedPsk, TypeOK
  <2>3. DbShape'
    BY <1>11, <2>1, RowsAreDistinct DEF CommitSharedPsk, DbShape, TypeOK, Holders
  <2> QED  BY <1>11, <2>1, <2>2, <2>3, Committed DEF CommitSharedPsk
<1> QED
  BY <1>2, <1>3, <1>4, <1>5, <1>7, <1>8, <1>9, <1>10, <1>11 DEF Write

LEMMA SafeRemove ==
    ASSUME SerialInv, NEW r \in Requests, \A x \in Requests : x = r, Remove(r)
    PROVE  Safe'
<1> USE DEF SerialInv, Safe
<1>1. /\ \A d \in Devices : dev'[d].pw \in {dev[d].pw, None}
      /\ \A h \in Holders : psk'[h].pw \in {psk[h].pw, None}
      /\ UNCHANGED <<netKey, cached, retired, req>>
  BY DEF Remove, DeleteDevice, DeleteLink, TypeOK, GoneRow, NoBlob
<1>2. OnePassword' /\ \A p : Under(p) => Under(p)'
  BY <1>1, Shrinking
<1>3. ASSUME NEW d \in Devices, DeleteDevice(r, d)  PROVE DbShape'
  <2> USE <1>3
  <2>1. \A h \in Holders : psk'[h] # NoBlob => psk'[h] = psk[h] /\ h # d
                               /\ ~(h \in links /\ d \in {LinkFrom[h], LinkTo[h]})
    BY DEF DeleteDevice
  <2>2. \A x \in Devices : x # d => dev'[x] = dev[x]
    BY DEF DeleteDevice, TypeOK
  <2>3. dev'[d].form = "gone"
    BY DEF DeleteDevice, TypeOK, GoneRow
  <2>4. \A l \in links' : l \in links /\ LinkFrom[l] # d
    BY DEF DeleteDevice
  <2>5. \A x \in Devices : dev'[x].form # "legacy"
    BY <2>2, <2>3 DEF DbShape
  <2>6. \A x \in Devices : psk'[x] # NoBlob => Present(dev'[x])
    BY <2>1, <2>2 DEF DbShape, Holders
  <2>7. \A l \in Links : psk'[l] # NoBlob => l \in links'
    BY <2>1 DEF DbShape, DeleteDevice, Holders
  <2>8. \A l \in links' : Present(dev'[LinkFrom[l]])
    BY <2>2, <2>4, ForeignKeys DEF DbShape, TypeOK
  <2>9. \A n \in Networks : netKey'[n] = None
    BY <1>1 DEF DbShape
  <2> QED  BY <2>5, <2>6, <2>7, <2>8, <2>9 DEF DbShape, Present
<1>4. ASSUME NEW l \in Links, DeleteLink(r, l)  PROVE DbShape'
  <2> USE <1>4
  <2>1. /\ l \notin Devices /\ psk'[l] = NoBlob
        /\ \A h \in Holders : h # l => psk'[h] = psk[h]
        /\ links' = links \ {l} /\ UNCHANGED <<dev, netKey>>
    BY RowsAreDistinct DEF DeleteLink, TypeOK, Holders
  <2> QED  BY <2>1 DEF DbShape, Present, Holders, TypeOK
<1>5. DbShape'
  BY <1>3, <1>4 DEF Remove
<1>6. req[r] = Idle
  BY DEF Remove, DeleteDevice, DeleteLink
<1>7. \A x \in Requests : RequestFits(req[x])'
  BY <1>1, <1>6 DEF RequestFits, Idle, Asking, InFlight
<1>8. CacheFits'
  BY <1>1, <1>2 DEF CacheFits, Answering
<1> QED  BY <1>2, <1>5, <1>7, <1>8

LEMMA SafeUnlock ==
    ASSUME SerialInv, CarefulBootstrap, NEW r \in Requests, \A x \in Requests : x = r,
           Unlock(r)
    PROVE  Safe'
<1> USE DEF SerialInv, Safe
<1>1. ASSUME NEW p \in Passwords, NEW op, UnlockRead(r, op, p), Under(p),
             op = "validPassword" => p \notin retired
      PROVE  Safe'
  <2>1. DbShape' /\ OnePassword' /\ Under(p)'
    BY <1>1, DbUnchanged DEF UnlockRead
  <2>2. \A x \in Requests : req'[x] = Asking("unlock", op, None, None, p)
    BY <1>1 DEF UnlockRead, TypeOK
  <2>3. ~Answering /\ ~Answering'
    BY <1>1, <2>2 DEF Answering, Asking, InFlight, UnlockRead, Idle
  <2>4. CacheFits'
    BY <1>1, <2>3, DbUnchanged DEF UnlockRead, CacheFits
  <2>5. \A x \in Requests : RequestFits(req[x])'
    BY <1>1, <2>1, <2>2 DEF RequestFits, Asking, InFlight, UnlockRead
  <2> QED  BY <2>1, <2>4, <2>5
<1>2. ASSUME NEW p \in Passwords, UnlockValidate(r, p)  PROVE Safe'
  <2>1. p \in StoredUnder
    BY <1>2, Stored, PasswordsAreSomething DEF UnlockValidate, DbShape
  <2>2. Under(p) /\ p \notin retired
    BY <2>1 DEF OnePassword
  <2> QED  BY <1>1, <1>2, <2>2 DEF UnlockValidate
<1>3. ASSUME NEW p \in Passwords, UnlockBootstrap(r, p)  PROVE Safe'
  <2>1. \A x \in StoredUnder : x = p
    BY <1>3 DEF UnlockBootstrap
  <2>2. Under(p)
    BY <2>1, Stored DEF Under
  <2> QED  BY <1>1, <1>3, <2>2 DEF UnlockBootstrap
<1>4. ASSUME UnlockFinish(r)  PROVE Safe'
  <2> PICK p : p = req[r].pw
    OBVIOUS
  <2>1. /\ Under(p) /\ (req[r].op = "validPassword" => p \notin retired)
        /\ req[r].op \in {"validPassword", "bootstrap"}
    BY <1>4 DEF UnlockFinish, RequestFits, TypeOK, WellFormed
  <2>2. cached' = p /\ retired' \subseteq retired /\ p \notin retired'
    BY <1>4, <2>1 DEF UnlockFinish
  <2>3. OnePassword' /\ Under(p)'
    BY <1>4, <2>1, <2>2, Shrinking DEF UnlockFinish
  <2>4. (\A x \in Requests : RequestFits(req[x]))' /\ ~Answering'
    BY <1>4, Ended DEF UnlockFinish
  <2>5. CacheFits'
    BY <2>2, <2>3 DEF CacheFits
  <2>6. DbShape'
    BY <1>4 DEF UnlockFinish, DbShape
  <2> QED  BY <2>3, <2>4, <2>5, <2>6
<1> QED  BY <1>2, <1>3, <1>4 DEF Unlock

LEMMA SafeCache ==
    ASSUME SerialInv, Lock \/ Crash
    PROVE  Safe'
<1> USE DEF SerialInv, Safe
<1>1. DbShape' /\ OnePassword' /\ (\A p : Under(p)' <=> Under(p))
      /\ StoredUnder' = StoredUnder
  BY DbUnchanged DEF Lock, Crash
<1>2. CacheFits'
  BY PasswordsAreSomething DEF CacheFits, Lock, Crash, TypeOK
<1>3. ASSUME NEW x \in Requests  PROVE RequestFits(req[x])'
  <2>1. CASE Lock
    BY <2>1 DEF Lock, RequestFits, Under, StoredUnder
  <2>2. CASE Crash
    <3>1. req'[x] = Idle
      BY <2>2 DEF Crash
    <3> QED  BY <3>1 DEF RequestFits, Idle, Asking, InFlight
  <2> QED  BY <2>1, <2>2
<1> QED  BY <1>1, <1>2, <1>3

\* The reads of a rotation: nothing stored changes
LEMMA SafeAdvance ==
    ASSUME SerialInv, NEW r \in Requests, \A x \in Requests : x = r, ~Answering,
           NEW step \in {"validated", "read", "tables"}, NEW c, NEW n, NEW rows, NEW psks,
           Advance(r, step, c, n, rows, psks, FALSE),
           step \in {"read", "tables"} => rows = dev /\ \A d \in Devices : psks[d] = psk[d],
           step = "tables" => psks = psk,
           UNCHANGED <<dev, psk, links, netKey, imports, cached, retired>>
    PROVE  Safe'
<1> USE DEF SerialInv, Safe
<1>1. DbShape' /\ OnePassword' /\ (\A p : Under(p)' <=> Under(p))
  BY DbUnchanged
<1>2. \A x \in Requests : req'[x] = InFlight(step, "rotate", None, None, c, n, rows, psks, FALSE)
  BY DEF Advance, TypeOK
<1>3. ~Answering'
  BY <1>2 DEF Answering, InFlight
<1>4. CacheFits'
  BY <1>1, <1>3 DEF CacheFits, Under
<1>5. \A x \in Requests : RequestFits(req[x])'
  BY <1>2 DEF RequestFits, InFlight
<1> QED  BY <1>1, <1>4, <1>5

\* What a rotation that is ready to commit has read is what is stored
LEMMA ReadIsCurrent ==
    ASSUME SerialInv, NEW r \in Requests, ReadyToCommit(r)
    PROVE  /\ req[r].rows = dev
           /\ \A d \in Devices : req[r].psks[d] = psk[d]
           /\ Table(req[r]) = psk
           /\ req[r].pw \in Passwords /\ req[r].new \in Passwords
<1>1. RequestFits(req[r]) /\ WellFormed(req[r])
  BY DEF SerialInv, Safe, TypeOK
<1> QED
  BY <1>1 DEF ReadyToCommit, Rotating, RequestFits, WellFormed, Table

\* If everything is under its old password, a rotation renews every secret
LEMMA AllRotate ==
    ASSUME SerialInv, NEW r \in Requests, ReadyToCommit(r), Under(req[r].pw)
    PROVE  /\ \A d \in Devices : dev[d].pw = None \/ DeviceRotates(req[r], d)
           /\ \A d \in Devices : DekRotates(req[r], d) <=> DeviceRotates(req[r], d)
           /\ \A d \in Devices : psk[d] # NoBlob => DeviceRotates(req[r], d)
           /\ ReportsSuccess(req[r])
<1> USE DEF SerialInv, Safe
<1> DEFINE q == req[r]
<1>1. /\ q.rows = dev /\ Table(q) = psk /\ q.pw \in Passwords
      /\ \A d \in Devices : q.psks[d] = psk[d]
  BY ReadIsCurrent
<1>2. \A d \in Devices : OpensPsk(q.psks[d], q.pw)
  BY <1>1 DEF Under, OpensPsk, Holders
<1>3. \A d \in Devices : Present(dev[d]) => dev[d] = [form |-> "dek", pw |-> q.pw]
  BY PasswordsAreSomething DEF Under, DbShape, TypeOK, Row, Present, NoRow, GoneRow
<1>4. \A d \in Devices : Present(dev[d]) => DeviceRotates(q, d)
  BY <1>1, <1>2, <1>3 DEF DeviceRotates, DekRotates
<1>5. \A d \in Devices : dev[d].pw = None \/ Present(dev[d])
  BY DEF TypeOK, Row, Present, NoRow, GoneRow
<1>6. \A d \in Devices : ~DeviceFails(q, d)
  BY <1>1, <1>4 DEF DeviceFails
<1>7. FailedShared(q, Networks) = {}
  BY <1>1 DEF FailedShared, Under, OpensPsk, Holders
<1>8. \A d \in Devices : psk[d] # NoBlob => DeviceRotates(q, d)
  BY <1>4 DEF DbShape
<1> QED  BY <1>2, <1>4, <1>5, <1>6, <1>7, <1>8 DEF ReportsSuccess, DeviceRotates

\* A rotation that commits moves everything from its old password to its new
LEMMA CommitMoves ==
    ASSUME SerialInv, NEW r \in Requests, \A x \in Requests : x = r, RotateCommit(r)
    PROVE  /\ req[r].pw \in StoredUnder /\ Under(req[r].pw) /\ ReportsSuccess(req[r])
           /\ \A n : n = req[r].new => Under(n)'
<1> USE DEF SerialInv, Safe
<1> DEFINE q == req[r]
<1> PICK c, n : c = q.pw /\ n = q.new
  OBVIOUS
<1>1. /\ ReadyToCommit(r) /\ q.rows = dev /\ Table(q) = psk
      /\ c \in Passwords /\ n \in Passwords /\ \A d \in Devices : q.psks[d] = psk[d]
  BY ReadIsCurrent DEF RotateCommit
<1>2. c \in StoredUnder
  <2>1. CASE \E d \in Devices : DeviceRotates(q, d)
    BY <1>1, <2>1, Stored, PasswordsAreSomething DEF DeviceRotates, DekRotates
  <2>2. CASE \E s \in Shared : psk[s].pw = c
    BY <1>1, <2>2, Stored, PasswordsAreSomething DEF Holders, Shared
  <2> QED  BY <1>1, <2>1, <2>2 DEF RotateCommit, RotatedDevices, RotatedShared
<1>3. Under(c)
  BY <1>2 DEF OnePassword
<1>4. /\ \A d \in Devices : dev[d].pw = None \/ DeviceRotates(q, d)
      /\ \A d \in Devices : DekRotates(q, d) <=> DeviceRotates(q, d)
      /\ \A d \in Devices : psk[d] # NoBlob => DeviceRotates(q, d)
      /\ ReportsSuccess(q)
  BY <1>1, <1>3, AllRotate
<1>5. \A d \in Devices : dev'[d].pw \in {None, n}
  BY <1>4 DEF RotateCommit
<1>6. \A h \in Holders : psk'[h].pw \in {None, n}
  <2> SUFFICES ASSUME NEW h \in Holders  PROVE psk'[h].pw \in {None, n}
    OBVIOUS
  <2>1. psk'[h] = RotatedPsk(q)[h]
    BY DEF RotateCommit
  <2>2. psk[h].pw \in {None, c}
    BY <1>3 DEF Under
  <2>3. CASE h \in Devices
    <3>1. CASE psk[h] = NoBlob
      BY <1>1, <2>1, <2>3, <3>1 DEF RotatedPsk, NoBlob
    <3>2. CASE psk[h] # NoBlob
      BY <1>1, <1>4, <2>1, <2>3, <3>2 DEF RotatedPsk, Resealed
    <3> QED  BY <3>1, <3>2
  <2>4. CASE h \notin Devices
    BY <1>1, <2>1, <2>2, <2>4 DEF RotatedPsk, Resealed
  <2> QED  BY <2>3, <2>4
<1>7. Under(n)'
  BY <1>5, <1>6 DEF Under
<1> QED  BY <1>2, <1>3, <1>4, <1>7

LEMMA SafeCommit ==
    ASSUME SerialInv, NEW r \in Requests, \A x \in Requests : x = r, RotateCommit(r)
    PROVE  Safe'
<1> USE DEF SerialInv, Safe
<1> DEFINE q == req[r]
<1> PICK c, n : c = q.pw /\ n = q.new
  OBVIOUS
<1>1. /\ ReadyToCommit(r) /\ q.rows = dev /\ Table(q) = psk
      /\ c \in Passwords /\ n \in Passwords /\ \A d \in Devices : q.psks[d] = psk[d]
  BY ReadIsCurrent DEF RotateCommit
<1>4. ReportsSuccess(q)
  BY CommitMoves
<1>7. Under(n)'
  BY CommitMoves
<1>8. \A x : x \in StoredUnder' => x = n
  BY <1>7, StoredNext DEF Under
<1>9. retired' = retired \ {n}
  BY <1>1 DEF RotateCommit
<1>10. OnePassword'
  BY <1>7, <1>8, <1>9 DEF OnePassword
<1>11. \A x \in Requests : req'[x] = InFlight("reply", "rotate", None, None, c, n,
                                              NoRows, NoPsks, TRUE)
  BY <1>1, <1>4 DEF RotateCommit, Answer, Advance, TypeOK, ReportsSuccess
<1>12. CacheFits'
  <2>1. Answering'
    BY <1>11 DEF Answering, InFlight
  <2>2. cached' = cached
    BY DEF RotateCommit
  <2> QED  BY <1>9, <2>1, <2>2 DEF CacheFits
<1>13. \A x \in Requests : RequestFits(req[x])'
  BY <1>8, <1>11 DEF RequestFits, InFlight
<1>14. DbShape'
  <2>1. \A d \in Devices : dev'[d].form # "legacy" /\ (Present(dev[d]) => Present(dev'[d]))
    BY DEF RotateCommit, DbShape, Present
  <2>2. \A h \in Holders : psk'[h] # NoBlob => psk[h] # NoBlob
    <3> SUFFICES ASSUME NEW h \in Holders, psk[h] = NoBlob  PROVE psk'[h] = NoBlob
      OBVIOUS
    <3>1. h \notin Devices => Table(q)[h].pw # q.pw
      BY <1>1, PasswordsAreSomething DEF NoBlob
    <3>2. h \in Devices => q.psks[h] = NoBlob
      BY <1>1
    <3> QED  BY <3>1, <3>2 DEF RotateCommit, RotatedPsk
  <2>3. UNCHANGED <<links, netKey>>
    BY DEF RotateCommit
  <2> QED  BY <2>1, <2>2, <2>3, ForeignKeys DEF DbShape, Present, Holders, TypeOK
<1> QED  BY <1>10, <1>12, <1>13, <1>14

\* A rotation that found nothing to renew had not the current password
LEMMA SafeRollback ==
    ASSUME SerialInv, NEW r \in Requests, \A x \in Requests : x = r, RotateRollback(r)
    PROVE  Safe'
<1> USE DEF SerialInv, Safe
<1> DEFINE q == req[r]
<1> PICK c, n : c = q.pw /\ n = q.new
  OBVIOUS
<1>1. /\ ReadyToCommit(r) /\ Table(q) = psk /\ c \in Passwords
  BY ReadIsCurrent DEF RotateRollback
<1>2. c \notin StoredUnder
  <2> SUFFICES ASSUME c \in StoredUnder  PROVE FALSE
    OBVIOUS
  <2>1. Under(c)
    BY DEF OnePassword
  <2>2. \A d \in Devices : ~DeviceRotates(q, d)
    BY DEF RotateRollback, RotatedDevices
  <2>0. /\ \A d \in Devices : dev[d].pw = None \/ DeviceRotates(q, d)
        /\ \A d \in Devices : psk[d] # NoBlob => DeviceRotates(q, d)
    BY <1>1, <2>1, AllRotate
  <2>3. /\ \A d \in Devices : dev[d].pw = None
        /\ \A d \in Devices : psk[d] = NoBlob
    BY <2>0, <2>2
  <2>4. \A d \in Devices : ~Present(dev[d])
    <3> SUFFICES ASSUME NEW d \in Devices  PROVE ~Present(dev[d])
      OBVIOUS
    <3>1. dev[d] \in Row /\ dev[d].pw \notin Passwords
      BY <2>3, PasswordsAreSomething DEF TypeOK
    <3> QED  BY <3>1 DEF Row, Present, NoRow, GoneRow
  <2>5. \A l \in Links : psk[l] = NoBlob
    BY <2>4, ForeignKeys DEF DbShape
  <2>6. \A s \in Shared : psk[s].pw # c
    BY <1>1 DEF RotateRollback, RotatedShared
  <2>7. \A h \in Holders : psk[h].pw # c
    BY <1>1, <2>3, <2>5, <2>6, PasswordsAreSomething DEF Holders, Shared, NoBlob
  <2> QED  BY <2>3, <2>7, Stored
<1>3. \A x \in Requests : req'[x] = InFlight("reply", "rotate", None, None, c, n,
                                             NoRows, NoPsks, ReportsSuccess(q))
  BY DEF RotateRollback, Answer, Advance, TypeOK
<1>4. DbShape' /\ OnePassword' /\ (\A p : Under(p)' <=> Under(p))
      /\ StoredUnder' = StoredUnder
  BY DbUnchanged DEF RotateRollback
<1>5. ~Answering
  BY <1>1 DEF Answering, ReadyToCommit, Rotating
<1>6. CacheFits'
  BY <1>4, <1>5 DEF CacheFits, RotateRollback, Under
<1>7. \A x \in Requests : RequestFits(req[x])'
  BY <1>2, <1>3, <1>4 DEF RequestFits, InFlight
<1> QED  BY <1>4, <1>6, <1>7

LEMMA SafeReply ==
    ASSUME SerialInv, NEW r \in Requests, \A x \in Requests : x = r, RotateReply(r)
    PROVE  Safe'
<1> USE DEF SerialInv, Safe
<1> DEFINE q == req[r]
<1>1. (\A x \in Requests : RequestFits(req[x]))' /\ ~Answering'
  BY Ended DEF RotateReply
<1>2. DbShape'
  BY DEF RotateReply, DbShape
<1>3. q.ok => (q.pw \in StoredUnder => q.pw = q.new)
  BY DEF RotateReply, Rotating, RequestFits
<1>4. StoredUnder' = StoredUnder /\ \A p : Under(p)' <=> Under(p)
  BY DEF RotateReply, StoredUnder, Under
<1>5. OnePassword'
  BY <1>3, <1>4 DEF OnePassword, RotateReply
<1>6. CacheFits'
  <2>1. CASE q.ok
    <3>1. cached' = None /\ retired' \subseteq Passwords
      BY <2>1 DEF RotateReply, TypeOK, WellFormed, Rotating
    <3> QED  BY <3>1, PasswordsAreSomething DEF CacheFits
  <2>2. CASE ~q.ok
    <3>1. ~Answering
      BY <2>2 DEF Answering
    <3>2. UNCHANGED <<cached, retired, dev, psk>>
      BY <2>2 DEF RotateReply
    <3> QED  BY <3>1, <3>2 DEF CacheFits, Under
  <2> QED  BY <2>1, <2>2
<1> QED  BY <1>1, <1>2, <1>5, <1>6

LEMMA SafeRotate ==
    ASSUME SerialInv, NEW r \in Requests, \A x \in Requests : x = r, Rotate(r)
    PROVE  Safe'
<1>1. ASSUME req[r].step # "reply"  PROVE ~Answering
  BY <1>1 DEF Answering
<1>2. ASSUME NEW c \in Passwords, NEW n \in Passwords, RotateValidate(r, c, n)
      PROVE  Safe'
  <2>1. req[r].step = "idle"
    BY <1>2 DEF RotateValidate, Idle, Asking, InFlight
  <2>2. Advance(r, "validated", c, n, NoRows, NoPsks, FALSE) /\ ~Answering
    BY <1>1, <1>2, <2>1 DEF RotateValidate
  <2>3. UNCHANGED <<dev, psk, links, netKey, imports, cached, retired>>
    BY <1>2 DEF RotateValidate
  <2> QED  BY <2>2, <2>3, SafeAdvance
<1>3. ASSUME RotateReadDevices(r)  PROVE Safe'
  <2> DEFINE P == [h \in Holders |-> IF h \in Devices THEN psk[h] ELSE NoBlob]
  <2>1. \A d \in Devices : P[d] = psk[d]
    BY DEF Holders
  <2>2. Advance(r, "read", req[r].pw, req[r].new, dev, P, FALSE) /\ ~Answering
    BY <1>1, <1>3 DEF RotateReadDevices, Rotating
  <2> QED  BY <1>3, <2>1, <2>2, SafeAdvance DEF RotateReadDevices
<1>4. ASSUME RotateReadTables(r)  PROVE Safe'
  <2> DEFINE P == [h \in Holders |-> IF h \in Devices THEN req[r].psks[h] ELSE psk[h]]
  <2>1. req[r].rows = dev /\ \A d \in Devices : req[r].psks[d] = psk[d]
    BY <1>4 DEF RotateReadTables, Rotating, SerialInv, Safe, RequestFits
  <2>2. P = psk
    BY <2>1 DEF SerialInv, TypeOK
  <2>3. Advance(r, "tables", req[r].pw, req[r].new, req[r].rows, P, FALSE) /\ ~Answering
    BY <1>1, <1>4 DEF RotateReadTables, Rotating
  <2> QED  BY <1>4, <2>1, <2>2, <2>3, SafeAdvance DEF RotateReadTables
<1> QED
  BY <1>2, <1>3, <1>4, SafeCommit, SafeRollback, SafeReply DEF Rotate

LEMMA SerialNext == Serial /\ SerialInv /\ [Next]_vars => SerialInv'
<1> SUFFICES ASSUME Serial, SerialInv, [Next]_vars  PROVE SerialInv'
  OBVIOUS
<1>1. TypeOK'
  BY NextType DEF SerialInv
<1>2. ASSUME NEW r \in Requests, Write(r) \/ Remove(r) \/ Unlock(r) \/ Rotate(r)
      PROVE  Safe'
  <2>1. (\A x \in Requests : x = r) /\ CarefulBootstrap
    BY DEF Serial
  <2> QED  BY <1>2, <2>1, SafeWrite, SafeRemove, SafeUnlock, SafeRotate
<1>3. ASSUME NEW r \in Requests, Import(r)  PROVE Safe'
  <2>1. imports < MaxImports
    BY <1>3 DEF Import, Restore
  <2> QED  BY <2>1 DEF Serial, SerialInv, TypeOK
<1>4. ASSUME NEW r \in Requests, Abort(r)  PROVE Safe'
  <2>1. \A x \in Requests : x = r
    BY DEF Serial
  <2>2. DbShape' /\ OnePassword' /\ (\A p : Under(p)' <=> Under(p))
    BY <1>4, DbUnchanged DEF Abort, SerialInv, Safe
  <2>3. (\A x \in Requests : RequestFits(req[x]))'
    BY <1>4, <2>1, Ended DEF Abort, SerialInv
  <2>4. ~Answering
    BY <1>4, <2>1 DEF Abort, Answering
  <2>5. CacheFits'
    BY <1>4, <2>4 DEF Abort, CacheFits, SerialInv, Safe, Under
  <2> QED  BY <2>2, <2>3, <2>5 DEF Safe
<1>5. CASE Lock \/ Crash
  BY <1>1, <1>5, SafeCache DEF SerialInv
<1>6. CASE UNCHANGED vars
  <2>1. DbShape' /\ OnePassword' /\ (\A p : Under(p)' <=> Under(p))
    BY <1>6, DbUnchanged DEF vars, SerialInv, Safe
  <2>2. CacheFits'
    BY <1>6 DEF vars, CacheFits, Answering, Under, SerialInv, Safe
  <2>3. ASSUME NEW x \in Requests  PROVE RequestFits(req[x])'
    BY <1>6 DEF vars, RequestFits, Under, StoredUnder, Present, SerialInv, Safe
  <2> QED  BY <1>1, <2>1, <2>2, <2>3 DEF SerialInv, Safe
<1> QED  BY <1>1, <1>2, <1>3, <1>4, <1>5, <1>6 DEF Next, SerialInv

LEMMA SerialInit == Init => SerialInv
<1> SUFFICES ASSUME Init  PROVE SerialInv
  OBVIOUS
<1>1. TypeOK
  BY NothingType, BoundsAndSwitches DEF Init, TypeOK, MaybePassword
<1>2. DbShape
  BY DEF Init, DbShape, NoRows, NoRow, NoPsks, Holders
<1>3. \A p : p \notin StoredUnder
  BY Stored DEF Init, NoRows, NoRow, NoPsks, NoBlob
<1>4. OnePassword /\ CacheFits
  BY <1>3 DEF OnePassword, CacheFits, Init
<1>5. \A r \in Requests : RequestFits(req[r])
  BY IdleFits DEF Init
<1> QED  BY <1>1, <1>2, <1>4, <1>5 DEF SerialInv, Safe

\* Without concurrent requests, imports and forgotten passwords, every stored
\* secret is under one password and the cache holds no other: creation,
\* updates, deletion, rotation, their failures and crashes never split the
\* database between two passwords.
THEOREM SerialUniform == Serial /\ Spec => []Uniform
<1> SUFFICES ASSUME Serial  PROVE Spec => []Uniform
  OBVIOUS
<1>0. SerialInv /\ [Next]_vars => SerialInv'
  BY SerialNext
<1>1. SerialInv => Uniform
  <2> SUFFICES ASSUME SerialInv  PROVE Uniform
    OBVIOUS
  <2>1. ASSUME NEW p, Under(p)  PROVE \A x \in StoredUnder : x = p
    BY <2>1, Stored DEF Under
  <2>2. \A p1, p2 \in StoredUnder : p1 = p2
    BY <2>1 DEF SerialInv, Safe, OnePassword
  <2>3. ASSUME cached # None, \A r \in Requests : ~(req[r].step = "reply" /\ req[r].ok)
        PROVE  StoredUnder \subseteq {cached}
    BY <2>1, <2>3 DEF SerialInv, Safe, CacheFits, Answering
  <2> QED  BY <2>2, <2>3 DEF Uniform
<1> QED  BY <1>0, <1>1, SerialInit, PTL DEF Spec

\* Under the same conditions, no secret is left under a password that a
\* rotation has reported replaced.
THEOREM SerialRetired == Serial /\ Spec => []RetiredPasswordUnused
<1> SUFFICES ASSUME Serial  PROVE Spec => []RetiredPasswordUnused
  OBVIOUS
<1>0. SerialInv /\ [Next]_vars => SerialInv'
  BY SerialNext
<1>1. SerialInv => RetiredPasswordUnused
  BY DEF SerialInv, Safe, OnePassword, RetiredPasswordUnused
<1> QED  BY <1>0, <1>1, SerialInit, PTL DEF Spec
-----------------------------------------------------------------------------
(* What the write lock gives a rotation that has changed a device: from the  *)
(* flush of the devices to its commit it sees the tables as they are.        *)

\* Only the end of a transaction takes a rotation to its answer.
LEMMA RotatedByCommit ==
    ASSUME TypeOK, [Next]_vars, NEW r \in Requests, Rotated(r)
    PROVE  RotateCommit(r) \/ RotateRollback(r)
<1>1. req[r].step \in {"read", "tables"} /\ req'[r].step = "reply"
  BY DEF Rotated
<1>2. ASSUME NEW x \in Requests, NEW q, q.step # "reply", req' = [req EXCEPT ![x] = q]
      PROVE  FALSE
  BY <1>1, <1>2 DEF TypeOK
<1>3. Idle.step # "reply"
  BY DEF Idle, Asking, InFlight
<1>4. ASSUME NEW x \in Requests, Abort(x) \/ Unlock(x) \/ Remove(x) \/ Import(x)
      PROVE  FALSE
  BY <1>1, <1>2, <1>3, <1>4
     DEF Abort, End, Unlock, UnlockValidate, UnlockBootstrap, UnlockRead, UnlockFinish,
         Asking, InFlight, Remove, DeleteDevice, DeleteLink, Import, Restore
<1>5. ASSUME NEW x \in Requests, Write(x)  PROVE FALSE
  <2>1. ASSUME NEW op, NEW h, NEW v, NEW rows, Begin(x, op, h, v, rows)  PROVE FALSE
    BY <1>2, <2>1 DEF Begin, InFlight
  <2>2. ~End(x)
    BY <1>2, <1>3 DEF End
  <2> QED
    BY <1>5, <2>1, <2>2
       DEF Write, StartCreateDevice, CommitCreateDevice, StartUpgradeDevice,
           CommitUpgradeDevice, StartDevicePsk, CommitDevicePsk, StartLinkPsk,
           CommitLinkPsk, StartSharedPsk, CommitSharedPsk
<1>6. ~Lock /\ ~Crash /\ ~UNCHANGED vars
  BY <1>1, <1>3 DEF Lock, Crash, vars
<1>7. ASSUME NEW x \in Requests, Rotate(x)  PROVE RotateCommit(r) \/ RotateRollback(r)
  <2>1. CASE RotateCommit(x) \/ RotateRollback(x)
    <3>1. r = x
      BY <1>1, <2>1 DEF RotateCommit, RotateRollback, Answer, Advance, TypeOK
    <3> QED  BY <2>1, <3>1
  <2>2. ASSUME RotateReply(x)  PROVE FALSE
    BY <1>2, <1>3, <2>2 DEF RotateReply, End
  <2>3. ASSUME NEW c \in Passwords, NEW n \in Passwords, RotateValidate(x, c, n)
        PROVE  FALSE
    BY <1>2, <2>3 DEF RotateValidate, Advance, InFlight
  <2>4. ASSUME RotateReadDevices(x) \/ RotateReadTables(x)  PROVE FALSE
    BY <1>2, <2>4 DEF RotateReadDevices, RotateReadTables, Advance, InFlight
  <2> QED  BY <1>7, <2>1, <2>2, <2>3, <2>4 DEF Rotate
<1> QED  BY <1>4, <1>5, <1>6, <1>7 DEF Next

LEMMA RotatesWithPasswords ==
    ASSUME TypeOK, NEW r \in Requests, ReadyToCommit(r)
    PROVE  /\ req[r].pw \in Passwords /\ req[r].new \in Passwords
           /\ req[r].step = "read" => Table(req[r]) = psk
  BY DEF TypeOK, WellFormed, ReadyToCommit, Rotating, Table

\* A rotation that changed a device changes no preshared key of the other
\* tables and brings no deleted device back, whatever other requests, imports
\* among them, do between its reads and its commit (rotate_master_password in
\* key_rotation.py, which flushes the devices first).
THEOREM RotationKeeps == Spec => RotationKeepsValues
<1>1. ASSUME TypeOK, [Next]_vars, NEW r \in Requests, Rotated(r), req[r].step = "read"
      PROVE  /\ \A h \in Holders \ Devices : psk'[h].val = psk[h].val
             /\ \A d \in Devices : Present(dev'[d]) <=> Present(dev[d])
  <2>1. CASE RotateCommit(r)
    <3>1. Table(req[r]) = psk
      BY <1>1, <2>1, RotatesWithPasswords DEF RotateCommit
    <3>2. \A h \in Holders \ Devices : psk'[h].val = psk[h].val
      BY <2>1, <3>1 DEF RotateCommit, RotatedPsk, Resealed
    <3>3. \A d \in Devices : Present(dev'[d]) <=> Present(dev[d])
      BY <2>1 DEF RotateCommit, RowsStillThere, Present
    <3> QED  BY <3>2, <3>3
  <2>2. CASE RotateRollback(r)
    BY <2>2 DEF RotateRollback
  <2> QED  BY <1>1, <2>1, <2>2, RotatedByCommit
<1>2. TypeOK /\ [Next]_vars =>
        [\A r \in Requests : Rotated(r) /\ req[r].step = "read" =>
            /\ \A h \in Holders \ Devices : psk'[h].val = psk[h].val
            /\ \A d \in Devices : Present(dev'[d]) <=> Present(dev[d])]_vars
  BY <1>1
<1> QED  BY <1>2, TypeInvariant, PTL DEF Spec, RotationKeepsValues

\* A rotation that changed a device and reports success has left no key of a
\* network or a link, and no device it read, under another password than the
\* new one, whatever other requests do in between (rotate_master_password in
\* key_rotation.py; keys of locations are not looked at).
THEOREM SuccessIsComplete == Spec => SuccessReencrypts
<1>1. ASSUME TypeOK, [Next]_vars, NEW r \in Requests, Rotated(r), req[r].step = "read",
             req'[r].ok
      PROVE  /\ \A h \in Networks \cup Links : OpensPsk(psk'[h], req[r].new)
             /\ \A d \in Devices : Present(req[r].rows[d]) => dev'[d].pw = req[r].new
  <2> DEFINE q == req[r]
  <2>1. ReadyToCommit(r) /\ Answer(r)
    BY <1>1, RotatedByCommit DEF RotateCommit, RotateRollback
  <2>2. q.pw \in Passwords /\ Table(q) = psk
    BY <1>1, <2>1, RotatesWithPasswords
  <2>3. ReportsSuccess(q)
    BY <1>1, <2>1 DEF Answer, Advance, InFlight, TypeOK
  <2>4. \A d \in Devices : Present(q.rows[d]) => DeviceRotates(q, d)
    BY <2>3 DEF ReportsSuccess, DeviceFails
  <2>5. \E d \in Devices : DeviceRotates(q, d)
    BY <1>1, <2>1, <2>4 DEF ReadyToCommit, Rotating, DekRotates, Present
  <2>6. RotateCommit(r)
    BY <1>1, <2>5, RotatedByCommit DEF RotateRollback, RotatedDevices
  <2>7. \A d \in Devices : Present(q.rows[d]) => dev'[d].pw = q.new
    BY <2>4, <2>6 DEF RotateCommit, DeviceRotates
  <2>8. \A h \in Networks \cup Links : OpensPsk(psk[h], q.pw)
    BY <2>1, <2>2, <2>3 DEF ReportsSuccess, FailedShared, ReadyToCommit, LinksOpen
  <2>9. \A h \in Networks \cup Links : OpensPsk(psk'[h], q.new)
    BY <2>2, <2>6, <2>8, RowsAreDistinct
       DEF RotateCommit, RotatedPsk, Resealed, OpensPsk, Holders, Shared
  <2> QED  BY <2>7, <2>9
<1>2. TypeOK /\ [Next]_vars =>
        [\A r \in Requests : Rotated(r) /\ req[r].step = "read" /\ req'[r].ok =>
            /\ \A h \in Networks \cup Links : OpensPsk(psk'[h], req[r].new)
            /\ \A d \in Devices :
                 Present(req[r].rows[d]) => dev'[d].pw = req[r].new]_vars
  BY <1>1
<1> QED  BY <1>2, TypeInvariant, PTL DEF Spec, SuccessReencrypts

-----------------------------------------------------------------------------
(* Refinement of SecretVault.  The vault is read off from what is stored: a  *)
(* slot is empty exactly if nothing is sealed for it, so the master password *)
(* of the vault is the one password stored under, if there is one.           *)

VaultSlots == ({"dek"} \X Devices) \cup ({"psk"} \X Holders)

Secret == [s \in VaultSlots |->
             IF s[1] = "psk" THEN psk[s[2]].val
             ELSE IF Present(dev[s[2]]) THEN "deviceKey" ELSE None]

Master == IF StoredUnder = {} THEN None ELSE CHOOSE p \in StoredUnder : TRUE

LEMMA MasterIs ==
    \A p : Under(p) => /\ StoredUnder = {} => Master = None
                       /\ StoredUnder # {} => Master = p
  BY Stored DEF Master, Under

LEMMA NothingStored ==
    ASSUME TypeOK, StoredUnder = {}
    PROVE  \A p : Under(p)
  BY Stored DEF Under

\* An empty vault is one with nothing under any password.
LEMMA EmptyVault ==
    TypeOK => /\ Secret \in [VaultSlots -> Psks \cup {"deviceKey"} \cup {None}]
              /\ Secret = [s \in VaultSlots |-> None] <=> StoredUnder = {}
<1> SUFFICES ASSUME TypeOK
             PROVE  /\ Secret \in [VaultSlots -> Psks \cup {"deviceKey"} \cup {None}]
                    /\ Secret = [s \in VaultSlots |-> None] <=> StoredUnder = {}
  OBVIOUS
<1>1. \A d \in Devices : dev[d].pw = None <=> ~Present(dev[d])
  BY PasswordsAreSomething DEF TypeOK, Row, NoRow, GoneRow, Present
<1>2. \A h \in Holders : psk[h].pw = None <=> psk[h].val = None
  BY PasswordsAreSomething DEF TypeOK, Blob, NoBlob
<1>3. \A h \in Holders : psk[h].val \in Psks \cup {None}
  BY DEF TypeOK, Blob, NoBlob
<1>4. /\ \A d \in Devices : <<"dek", d>> \in VaultSlots
                            /\ Secret[<<"dek", d>>] = IF Present(dev[d]) THEN "deviceKey" ELSE None
      /\ \A h \in Holders : <<"psk", h>> \in VaultSlots
                            /\ Secret[<<"psk", h>>] = psk[h].val
  <2>1. ASSUME NEW d \in Devices  PROVE <<"dek", d>> \in VaultSlots
    BY DEF VaultSlots
  <2>2. ASSUME NEW h \in Holders  PROVE <<"psk", h>> \in VaultSlots
    BY DEF VaultSlots
  <2>3. ASSUME NEW d \in Devices
        PROVE  Secret[<<"dek", d>>] = IF Present(dev[d]) THEN "deviceKey" ELSE None
    BY <2>1 DEF Secret
  <2>4. ASSUME NEW h \in Holders  PROVE Secret[<<"psk", h>>] = psk[h].val
    BY <2>2 DEF Secret
  <2> QED  BY <2>1, <2>2, <2>3, <2>4
<1>5. \A s \in VaultSlots : \/ \E d \in Devices : s = <<"dek", d>>
                            \/ \E h \in Holders : s = <<"psk", h>>
  BY DEF VaultSlots
<1>6. Secret \in [VaultSlots -> Psks \cup {"deviceKey"} \cup {None}]
  <2>1. \A s \in VaultSlots : Secret[s] \in Psks \cup {"deviceKey"} \cup {None}
    BY <1>3, <1>4, <1>5
  <2> QED  BY <2>1 DEF Secret
<1>7. StoredUnder = {} <=> /\ \A d \in Devices : dev[d].pw = None
                           /\ \A h \in Holders : psk[h].pw = None
  BY Stored
<1>8. ASSUME StoredUnder = {}  PROVE Secret = [s \in VaultSlots |-> None]
  <2>1. \A s \in VaultSlots : Secret[s] = None
    BY <1>1, <1>2, <1>4, <1>5, <1>7, <1>8
  <2> QED  BY <2>1 DEF Secret
<1>9. ASSUME Secret = [s \in VaultSlots |-> None]  PROVE StoredUnder = {}
  <2>1. \A s \in VaultSlots : Secret[s] = None
    BY <1>9
  <2>2. ASSUME NEW d \in Devices  PROVE ~Present(dev[d])
    <3>1. None # "deviceKey"
      BY NoneIsNothing
    <3>2. Secret[<<"dek", d>>] = None
      BY <1>4, <2>1
    <3>3. Secret[<<"dek", d>>] = IF Present(dev[d]) THEN "deviceKey" ELSE None
      BY <1>4
    <3> QED  BY <3>1, <3>2, <3>3
  <2>3. \A h \in Holders : psk[h].val = None
    BY <1>4, <2>1
  <2> QED  BY <1>1, <1>2, <1>7, <2>2, <2>3
<1> QED  BY <1>6, <1>8, <1>9

\* A step that leaves the cache alone and ends with everything under a
\* password that everything was under before is a Write.
LEMMA IsWrite ==
    ASSUME TypeOK, TypeOK', NEW p \in Passwords, Under(p), Under(p)', UNCHANGED cached
    PROVE  Vault!Write(p)
<1>1. Master \in {None, p}
  BY MasterIs
<1>2. (TypeOK => /\ Secret \in [VaultSlots -> Psks \cup {"deviceKey"} \cup {None}]
                 /\ Secret = [s \in VaultSlots |-> None] <=> StoredUnder = {})'
  BY EmptyVault, PTL
<1>3. (StoredUnder' = {} => Master' = None) /\ (StoredUnder' # {} => Master' = p)
  BY StoredNext DEF Master, Under
<1>4. /\ Secret' \in [VaultSlots -> Psks \cup {"deviceKey"} \cup {None}]
      /\ Master' = IF Secret' = [s \in VaultSlots |-> None] THEN None ELSE p
  BY <1>2, <1>3
<1> QED
  BY <1>1, <1>4
     DEF Vault!Write, Vault!Fits, Vault!Empty, Secret, Master, VaultSlots

\* A step that leaves what is stored and the cache alone is none of the vault.
LEMMA IsStutter ==
    ASSUME UNCHANGED <<dev, psk, cached>>
    PROVE  UNCHANGED Vault!vars
  BY DEF Vault!vars, StoredUnder

\* Secrets are only removed: a Write of nothing, unless there was nothing.
LEMMA IsRemoval ==
    ASSUME TypeOK, TypeOK', UNCHANGED cached, \A p : Under(p) => Under(p)',
           \A p \in StoredUnder : Under(p)
    PROVE  [Vault!Next]_(Vault!vars)
<1>1. CASE StoredUnder = {}
  <2>1. StoredUnder' = {}
    <3>1. ASSUME NEW p \in StoredUnder'  PROVE FALSE
      <4>1. Under(None)'
        BY <1>1, NothingStored
      <4> QED  BY <3>1, <4>1, StoredNext DEF Under
    <3> QED  BY <3>1
  <2>2. (TypeOK => /\ Secret \in [VaultSlots -> Psks \cup {"deviceKey"} \cup {None}]
                   /\ Secret = [s \in VaultSlots |-> None] <=> StoredUnder = {})'
    BY EmptyVault, PTL
  <2>3. Secret' = Secret /\ Master' = Master
    BY <1>1, <2>1, <2>2, EmptyVault DEF Master, VaultSlots
  <2> QED  BY <2>3 DEF Vault!vars, Secret, Master, VaultSlots
<1>2. CASE StoredUnder # {}
  <2>1. PICK p \in StoredUnder : TRUE
    BY <1>2
  <2>2. p \in Passwords
    BY <2>1, Stored DEF TypeOK, Row, NoRow, GoneRow, Blob, NoBlob
  <2>3. Under(p)
    BY <1>2
  <2> QED  BY <2>2, <2>3, IsWrite DEF Vault!Next
<1> QED  BY <1>1, <1>2

\* A rotation that commits changes the master password, and no secret.
LEMMA IsChangeOfMaster ==
    ASSUME SerialInv, TypeOK', NEW r \in Requests, \A x \in Requests : x = r, RotateCommit(r)
    PROVE  Vault!ChangeMaster(req[r].new) /\ req[r].new \in Passwords
<1> DEFINE q == req[r]
<1> USE DEF SerialInv, Safe
<1>1. /\ ReadyToCommit(r) /\ q.rows = dev /\ Table(q) = psk /\ q.new \in Passwords
      /\ \A d \in Devices : q.psks[d] = psk[d]
  BY ReadIsCurrent DEF RotateCommit
<1> PICK n : n = q.new
  OBVIOUS
<1>2. q.pw \in StoredUnder /\ Under(q.pw) /\ Under(n)'
  BY CommitMoves
<1>3. \A h \in Holders : psk'[h].val = psk[h].val
  BY <1>1 DEF RotateCommit, RotatedPsk, Resealed
<1>4. \A d \in Devices : Present(dev'[d]) <=> Present(dev[d])
  BY DEF RotateCommit, RowsStillThere, Present
<1>5. Secret' = Secret
  <2>1. \A s \in VaultSlots : \/ s[1] # "psk" /\ s[2] \in Devices
                              \/ s[1] = "psk" /\ s[2] \in Holders
    BY DEF VaultSlots
  <2> QED  BY <1>3, <1>4, <2>1 DEF Secret
<1>6. (TypeOK => /\ Secret \in [VaultSlots -> Psks \cup {"deviceKey"} \cup {None}]
                 /\ Secret = [s \in VaultSlots |-> None] <=> StoredUnder = {})'
  BY EmptyVault, PTL
<1>7. StoredUnder' # {}
  BY <1>2, <1>5, <1>6, EmptyVault DEF VaultSlots
<1>8. Master # None
  BY <1>2, MasterIs, Stored
<1>9. Master' = n
  BY <1>2, <1>7, StoredNext DEF Master, Under
<1>10. cached' = cached
  BY DEF RotateCommit
<1> QED
  BY <1>1, <1>5, <1>8, <1>9, <1>10 DEF Vault!ChangeMaster, Secret, Master, VaultSlots

\* The commits of the writers seal under the password the vault has.
LEMMA WritesAreWrites ==
    ASSUME SerialInv, SerialInv', NEW r \in Requests, \A x \in Requests : x = r, Write(r)
    PROVE  [Vault!Next]_(Vault!vars)
<1> DEFINE q == req[r]
<1> USE DEF SerialInv, Safe
<1>1. ASSUME NEW op, NEW h, NEW v, NEW rows, Begin(r, op, h, v, rows)
      PROVE  UNCHANGED Vault!vars
  BY <1>1, IsStutter DEF Begin
<1>2. ASSUME q.step = "write", q.pw # None, UNCHANGED cached,
             \A d \in Devices : dev'[d].pw \in {dev[d].pw, None, q.pw},
             \A h \in Holders : psk'[h].pw \in {psk[h].pw, None, q.pw}
      PROVE  [Vault!Next]_(Vault!vars)
  <2> PICK p : p = q.pw
    OBVIOUS
  <2>1. p \in Passwords /\ Under(p)
    BY <1>2 DEF RequestFits, TypeOK, Request, MaybePassword
  <2>2. Under(p)'
    BY <1>2, <2>1 DEF Under
  <2> QED  BY <1>2, <2>1, <2>2, IsWrite DEF Vault!Next
<1>3. q \in Request /\ WellFormed(q)
  BY DEF TypeOK
<1>4. ASSUME NEW p, NEW v \in MaybePsk
      PROVE  Seal(p, v).pw \in {None, p}
  BY SealIsUnder
<1>5. ASSUME CommitCreateDevice(r)  PROVE [Vault!Next]_(Vault!vars)
  <2>1. /\ q.at \in Devices /\ q.val \in MaybePsk /\ q.step = "write" /\ q.pw # None
    BY <1>3, <1>5, PasswordsAreSomething DEF CommitCreateDevice, Writing, WellFormed, Request
  <2>2. /\ \A d \in Devices : dev'[d].pw \in {dev[d].pw, None, q.pw}
        /\ \A h \in Holders : psk'[h].pw \in {psk[h].pw, None, q.pw}
    BY <1>4, <1>5, <2>1 DEF CommitCreateDevice, TypeOK
  <2> QED  BY <1>2, <1>5, <2>1, <2>2 DEF CommitCreateDevice
<1>6. ASSUME CommitUpgradeDevice(r)  PROVE [Vault!Next]_(Vault!vars)
  <2>1. q.at \in Devices /\ q.step = "write" /\ q.pw # None
    BY <1>3, <1>6, PasswordsAreSomething DEF CommitUpgradeDevice, Writing, WellFormed
  <2>2. /\ \A d \in Devices : dev'[d].pw \in {dev[d].pw, None, q.pw}
        /\ \A h \in Holders : psk'[h].pw \in {psk[h].pw, None, q.pw}
    BY <1>6, <2>1 DEF CommitUpgradeDevice, TypeOK
  <2> QED  BY <1>2, <1>6, <2>1, <2>2 DEF CommitUpgradeDevice
<1>7. ASSUME CommitDevicePsk(r)  PROVE [Vault!Next]_(Vault!vars)
  <2>1. /\ q.at \in Devices /\ q.val \in MaybePsk /\ q.step = "write" /\ q.pw # None
    BY <1>3, <1>7, PasswordsAreSomething DEF CommitDevicePsk, Writing, WellFormed, Request
  <2>2. /\ \A d \in Devices : dev'[d].pw \in {dev[d].pw, None, q.pw}
        /\ \A h \in Holders : psk'[h].pw \in {psk[h].pw, None, q.pw}
    BY <1>4, <1>7, <2>1 DEF CommitDevicePsk, TypeOK
  <2> QED  BY <1>2, <1>7, <2>1, <2>2 DEF CommitDevicePsk
<1>8. ASSUME CommitSharedPsk(r)  PROVE [Vault!Next]_(Vault!vars)
  <2>1. /\ q.at \in Shared /\ q.val \in MaybePsk /\ q.step = "write" /\ q.pw # None
    BY <1>3, <1>8, PasswordsAreSomething DEF CommitSharedPsk, Writing, WellFormed, Request
  <2>2. /\ \A d \in Devices : dev'[d].pw \in {dev[d].pw, None, q.pw}
        /\ \A h \in Holders : psk'[h].pw \in {psk[h].pw, None, q.pw}
    BY <1>4, <1>8, <2>1 DEF CommitSharedPsk, TypeOK
  <2> QED  BY <1>2, <1>8, <2>1, <2>2 DEF CommitSharedPsk
<1>9. ASSUME CommitLinkPsk(r)  PROVE [Vault!Next]_(Vault!vars)
  <2>1. /\ q.at \in Links /\ q.val \in MaybePsk /\ q.step = "write"
        /\ (q.val # None => q.pw \in Passwords)
    BY <1>3, <1>9 DEF CommitLinkPsk, Writing, WellFormed, Request
  <2>2. /\ \A d \in Devices : dev'[d].pw \in {dev[d].pw, None, q.pw}
        /\ \A h \in Holders : psk'[h].pw \in {psk[h].pw, None, q.pw}
    BY <1>4, <1>9, <2>1 DEF CommitLinkPsk, TypeOK
  <2>3. UNCHANGED <<dev, cached>>
    BY <1>9 DEF CommitLinkPsk
  <2>4. CASE q.pw # None
    BY <1>2, <2>1, <2>2, <2>3, <2>4
  \* a link without a preshared key needs no password
  <2>5. CASE q.pw = None
    <3>1. \A p : Under(p) => Under(p)'
      BY <2>2, <2>3, <2>5 DEF Under
    <3> QED  BY <2>3, <3>1, IsRemoval DEF OnePassword
  <2> QED  BY <2>4, <2>5
<1> QED
  BY <1>1, <1>5, <1>6, <1>7, <1>8, <1>9
     DEF Write, StartCreateDevice, StartUpgradeDevice, StartDevicePsk, StartLinkPsk,
         StartSharedPsk

LEMMA StepIsVaultStep ==
    ASSUME Serial, SerialInv, SerialInv', [Next]_vars
    PROVE  [Vault!Next]_(Vault!vars)
<1> USE DEF SerialInv, Safe
<1>1. ASSUME NEW r \in Requests, Write(r)  PROVE [Vault!Next]_(Vault!vars)
  BY <1>1, WritesAreWrites DEF Serial
<1>2. ASSUME NEW r \in Requests, Remove(r)  PROVE [Vault!Next]_(Vault!vars)
  <2>1. /\ \A d \in Devices : dev'[d].pw \in {dev[d].pw, None}
        /\ \A h \in Holders : psk'[h].pw \in {psk[h].pw, None}
        /\ UNCHANGED cached
    BY <1>2 DEF Remove, DeleteDevice, DeleteLink, TypeOK, GoneRow, NoBlob
  <2>2. \A p : Under(p) => Under(p)'
    BY <2>1 DEF Under
  <2> QED  BY <2>1, <2>2, IsRemoval DEF OnePassword
<1>3. ASSUME NEW r \in Requests, Import(r)  PROVE FALSE
  BY <1>3 DEF Import, Restore, Serial, TypeOK
<1>4. ASSUME NEW r \in Requests, Unlock(r)  PROVE [Vault!Next]_(Vault!vars)
  <2>1. CASE UnlockFinish(r)
    <3>1. Under(req[r].pw) /\ req[r].pw \in Passwords
      BY <2>1 DEF UnlockFinish, RequestFits, TypeOK, WellFormed
    <3>2. UNCHANGED <<dev, psk>> /\ cached' = req[r].pw
      BY <2>1 DEF UnlockFinish
    <3>3. Master \in {None, req[r].pw}
      BY <3>1, MasterIs
    <3>4. Vault!Unlock(req[r].pw)
      BY <3>2, <3>3 DEF Vault!Unlock, Vault!Fits, Master, StoredUnder
    <3> QED  BY <3>1, <3>4 DEF Vault!Next
  <2>2. CASE ~UnlockFinish(r)
    BY <1>4, <2>2, IsStutter DEF Unlock, UnlockValidate, UnlockBootstrap, UnlockRead
  <2> QED  BY <2>1, <2>2
<1>5. ASSUME cached' = None, UNCHANGED <<dev, psk>>  PROVE Vault!Next
  BY <1>5 DEF Vault!Next, Vault!Lock, StoredUnder
<1>6. ASSUME NEW r \in Requests, Rotate(r)  PROVE [Vault!Next]_(Vault!vars)
  <2>1. CASE RotateCommit(r)
    BY <2>1, IsChangeOfMaster DEF Serial, Vault!Next
  <2>2. CASE RotateReply(r)
    BY <1>5, <2>2, IsStutter DEF RotateReply
  <2>3. CASE ~RotateCommit(r) /\ ~RotateReply(r)
    BY <1>6, <2>3, IsStutter
       DEF Rotate, RotateValidate, RotateReadDevices, RotateReadTables, RotateRollback
  <2> QED  BY <2>1, <2>2, <2>3
<1>7. ASSUME NEW r \in Requests, Abort(r)  PROVE UNCHANGED Vault!vars
  BY <1>7, IsStutter DEF Abort
<1>8. CASE Lock \/ Crash
  BY <1>5, <1>8 DEF Lock, Crash
<1>9. CASE UNCHANGED vars
  BY <1>9, IsStutter DEF vars
<1> QED
  BY <1>1, <1>2, <1>3, <1>4, <1>6, <1>7, <1>8, <1>9 DEF Next

\* Without concurrent requests, imports and forgotten passwords, database and
\* cache implement the vault with one master password, for any rows and any
\* passwords: the writers' commits, with their failures, are its writes, the
\* commit of a rotation, whatever crashes come before and after it, changes
\* the master password and no secret, and every other step is a lock, an
\* unlock or nothing to a user.
THEOREM SerialIsVault == Serial /\ Spec => ImplementsVault
<1> SUFFICES ASSUME Serial  PROVE Spec => ImplementsVault
  OBVIOUS
<1>1. Init => Vault!Init
  <2> SUFFICES ASSUME Init  PROVE Vault!Init
    OBVIOUS
  <2>1. SerialInv
    BY SerialInit
  <2>2. StoredUnder = {}
    BY Stored DEF Init, NoRows, NoRow, NoPsks, NoBlob
  <2>3. Secret = [s \in VaultSlots |-> None] /\ Master = None
    BY <2>1, <2>2, EmptyVault DEF Master, SerialInv
  <2> QED  BY <2>3 DEF Vault!Init, Vault!Empty, Secret, Master, VaultSlots, Init
<1>2. SerialInv /\ [Next]_vars => SerialInv'
  BY SerialNext
<1>3. SerialInv /\ SerialInv' /\ [Next]_vars => [Vault!Next]_(Vault!vars)
  BY StepIsVaultStep
<1> QED  BY <1>1, <1>2, <1>3, SerialInit, PTL DEF Spec, ImplementsVault, Vault!Spec

=============================================================================

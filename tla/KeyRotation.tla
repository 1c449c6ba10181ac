----------------------------- MODULE KeyRotation -----------------------------
(***************************************************************************)
(* The secrets the backend keeps encrypted under the master password, the  *)
(* in-memory cache of that password, and the requests that read and write  *)
(* both: device creation and upgrade, preshared-key updates on devices,    *)
(* peer links, networks and locations, unlock and lock, import, and the    *)
(* rotation of the master password.                                        *)
(*                                                                         *)
(* A request is an asyncio coroutine with a database session of its own.   *)
(* Its SELECTs run in autocommit mode; the write lock of SQLite is taken   *)
(* by the first flush and released by the commit.  A request is therefore  *)
(* one step that reads (and captures the cached password, which the code   *)
(* does without awaiting after its last read), and one later step that     *)
(* flushes and commits what it computed from what it read.  Rotation reads *)
(* in several statements and has a step for each.                          *)
(***************************************************************************)

EXTENDS Naturals

CONSTANTS
    Devices, Links, Networks, Locations,   \* rows that may ever exist
    NetworkOf, LocationOf,                 \* foreign keys of a device
    LinkFrom, LinkTo,                      \* the two devices of a peer link
    Passwords,                             \* master passwords a user may type
    Psks,                                  \* preshared keys, in the clear
    Requests,                              \* slots for requests in flight
    None,                                  \* no password, no key, no row
    MaxImports,                            \* bound: imports of exported data
    CarefulBootstrap                       \* see UnlockBootstrap

Holders == Devices \cup Links \cup Networks \cup Locations
Shared  == Networks \cup Locations

ASSUME RowsAreDistinct ==
    /\ Devices \cap (Links \cup Shared) = {}
    /\ Links \cap Shared = {}
    /\ Networks \cap Locations = {}

ASSUME ForeignKeys ==
    /\ NetworkOf \in [Devices -> Networks]
    /\ LocationOf \in [Devices -> Locations]
    /\ LinkFrom \in [Links -> Devices]
    /\ LinkTo \in [Links -> Devices]
    /\ \A l \in Links : LinkFrom[l] # LinkTo[l]

ASSUME NoneIsNothing == None \notin Passwords \cup Psks \cup Holders \cup {"deviceKey"}

ASSUME BoundsAndSwitches == MaxImports \in Nat /\ CarefulBootstrap \in BOOLEAN

VARIABLES
    dev,      \* device rows: the form of the private key and what it opens with
    psk,      \* master-encrypted preshared key of every row that has one
    links,    \* peer-link rows that exist
    netKey,   \* password of a network's own private key (imported data only)
    imports,  \* imports so far, at most MaxImports
    cached,   \* the password cache
    retired,  \* history: passwords a rotation has reported replaced, and that
              \* no later rotation or bootstrap has put in use again
    req       \* the requests in flight

vars == <<dev, psk, links, netKey, imports, cached, retired, req>>

----------------------------------------------------------------------------
(* Data. "dek": the private key is under a device key, the device key under *)
(* the master password.  "legacy": the private key is under the master      *)
(* password itself.  "gone": deleted; identifiers are never used again.     *)

MaybePassword == Passwords \cup {None}
MaybePsk      == Psks \cup {None}

NoRow   == [form |-> "none", pw |-> None]
GoneRow == [form |-> "gone", pw |-> None]
NoBlob  == [pw |-> None, val |-> None]

Row  == {NoRow, GoneRow} \cup [form : {"dek", "legacy"}, pw : Passwords]
Blob == {NoBlob} \cup [pw : Passwords, val : Psks]

\* Mutant: the check for an absent preshared key dropped
SealAlways(p, v) == [pw |-> p, val |-> v]

\* import_wireguard_preshared_key: no preshared key gives no blob
Seal(p, v) == IF v = None THEN NoBlob ELSE [pw |-> p, val |-> v]

Present(row) == row.form \in {"dek", "legacy"}

\* decrypt_preshared_key_from_json succeeds, or there is nothing to decrypt
OpensPsk(blob, p) == blob.pw \in {None, p}

NoRows == [d \in Devices |-> NoRow]
NoPsks == [h \in Holders |-> NoBlob]

Request ==
    [step : {"idle", "write", "unlock", "validated", "read", "tables", "reply"},
     op   : {"none", "create", "upgrade", "devicePsk", "insertLink", "updateLink",
             "sharedPsk", "validPassword", "bootstrap", "rotate"},
     at   : Holders \cup {None},
     val  : MaybePsk,
     pw   : MaybePassword,
     new  : MaybePassword,
     rows : [Devices -> Row],
     psks : [Holders -> Blob],
     ok   : BOOLEAN]

InFlight(step, op, h, v, p, n, rows, psks, ok) ==
    [step |-> step, op |-> op, at |-> h, val |-> v, pw |-> p, new |-> n,
     rows |-> rows, psks |-> psks, ok |-> ok]

Asking(step, op, h, v, p) == InFlight(step, op, h, v, p, None, NoRows, NoPsks, FALSE)

Idle == Asking("idle", "none", None, None, None)

\* every password some stored secret is encrypted under
StoredUnder == ({dev[d].pw : d \in Devices} \cup {psk[h].pw : h \in Holders}) \ {None}

Init ==
    /\ dev = NoRows
    /\ psk = NoPsks
    /\ links = {}
    /\ netKey = [n \in Networks |-> None]
    /\ imports = 0
    /\ cached = None
    /\ retired = {}
    /\ req = [r \in Requests |-> Idle]

----------------------------------------------------------------------------
(* Writers. *)

\* A request has read what it needs and taken the cached password; it keeps
\* the devices in rows as it read them
Begin(r, op, h, v, rows) ==
    /\ req[r] = Idle
    /\ req' = [req EXCEPT ![r] = InFlight("write", op, h, v, cached, None, rows,
                                          NoPsks, FALSE)]
    /\ UNCHANGED <<dev, psk, links, netKey, imports, cached, retired>>

Writing(r, op) == req[r].step = "write" /\ req[r].op = op

End(r) == req' = [req EXCEPT ![r] = Idle]

\* create_device: the network's and the location's preshared keys, as read,
\* are decrypted to be sealed again under the new device key
StartCreateDevice(r, d, v) ==
    /\ cached # None
    /\ dev[d].form = "none"
    /\ OpensPsk(psk[NetworkOf[d]], cached)
    /\ OpensPsk(psk[LocationOf[d]], cached)
    /\ Begin(r, "create", d, v, NoRows)

CommitCreateDevice(r) ==
    LET q == req[r] IN
    /\ Writing(r, "create")
    /\ dev[q.at].form = "none"
    /\ dev' = [dev EXCEPT ![q.at] = [form |-> "dek", pw |-> q.pw]]
    /\ psk' = [psk EXCEPT ![q.at] = Seal(q.pw, q.val)]
    /\ End(r)
    /\ UNCHANGED <<links, netKey, imports, cached, retired>>

\* A legacy device gets a device key wrapped by the cached password.
\* regenerate_device_keys replaces the private key and decrypts nothing.
StartUpgradeDevice(r, d) ==
    /\ cached # None
    /\ dev[d].form = "legacy"
    /\ Begin(r, "upgrade", d, None, NoRows)

CommitUpgradeDevice(r) ==
    LET q == req[r] IN
    /\ Writing(r, "upgrade")
    /\ Present(dev[q.at])
    /\ dev' = [dev EXCEPT ![q.at] = [form |-> "dek", pw |-> q.pw]]
    /\ End(r)
    /\ UNCHANGED <<psk, links, netKey, imports, cached, retired>>

\* Clearing a key that was not there when read writes nothing
Changes(h, v) == v # None \/ psk[h] # NoBlob

\* update_device with a preshared key; clearing it needs the password too
StartDevicePsk(r, d, v) ==
    /\ cached # None
    /\ Present(dev[d])
    /\ Changes(d, v)
    /\ Begin(r, "devicePsk", d, v, NoRows)

CommitDevicePsk(r) ==
    LET q == req[r] IN
    /\ Writing(r, "devicePsk")
    /\ Present(dev[q.at])
    /\ psk' = [psk EXCEPT ![q.at] = Seal(q.pw, q.val)]
    /\ End(r)
    /\ UNCHANGED <<dev, links, netKey, imports, cached, retired>>

\* upsert_link: both devices exist when read; a preshared key needs a device
\* key that opens, none needs no password at all
StartLinkPsk(r, l, v) ==
    /\ Present(dev[LinkFrom[l]]) /\ Present(dev[LinkTo[l]])
    /\ v # None => /\ cached # None
                   /\ dev[LinkFrom[l]] = [form |-> "dek", pw |-> cached]
    /\ l \notin links \/ Changes(l, v)
    /\ Begin(r, IF l \in links THEN "updateLink" ELSE "insertLink", l, v, NoRows)

\* The unique index refuses a second row; the foreign keys are not enforced
CommitLinkPsk(r) ==
    LET q == req[r] IN
    /\ \/ Writing(r, "insertLink") /\ q.at \notin links
       \/ Writing(r, "updateLink") /\ q.at \in links
    /\ links' = links \cup {q.at}
    /\ psk' = [psk EXCEPT ![q.at] = Seal(q.pw, q.val)]
    /\ End(r)
    /\ UNCHANGED <<dev, netKey, imports, cached, retired>>

Members(s) == {d \in Devices : NetworkOf[d] = s \/ LocationOf[d] = s}

\* create_network, update_network, create_location, update_location; the row
\* is read with its member devices
StartSharedPsk(r, s, v) ==
    /\ cached # None
    /\ Changes(s, v)
    /\ Begin(r, "sharedPsk", s, v,
             [d \in Devices |-> IF v # None /\ d \in Members(s) /\ Present(dev[d])
                               THEN dev[d] ELSE NoRow])

\* A member device as the request knows it: the second SELECT finds it in the
\* session's identity map and does not refresh it, unless it is new
AsKnown(q, d) == IF q.rows[d] = NoRow THEN dev[d] ELSE q.rows[d]

\* One device key that does not open undoes the update
CommitSharedPsk(r) ==
    LET q == req[r] IN
    /\ Writing(r, "sharedPsk")
    /\ q.val # None =>
         \A d \in Members(q.at) : Present(dev[d]) /\ AsKnown(q, d).form = "dek"
                                     => AsKnown(q, d).pw = q.pw
    /\ psk' = [psk EXCEPT ![q.at] = Seal(q.pw, q.val)]
    /\ End(r)
    /\ UNCHANGED <<dev, links, netKey, imports, cached, retired>>

\* Any request may fail before its commit: a decryption error, a database
\* that stays locked, a row deleted since it was read, a cancelled client
Abort(r) ==
    /\ req[r].step \notin {"idle", "reply"}
    /\ End(r)
    /\ UNCHANGED <<dev, psk, links, netKey, imports, cached, retired>>

\* delete_device: the links of the device go with it
DeleteDevice(r, d) ==
    LET lost == {l \in links : d \in {LinkFrom[l], LinkTo[l]}} IN
    /\ req[r] = Idle
    /\ Present(dev[d])
    /\ dev' = [dev EXCEPT ![d] = GoneRow]
    /\ links' = links \ lost
    /\ psk' = [h \in Holders |-> IF h \in lost \cup {d} THEN NoBlob ELSE psk[h]]
    /\ UNCHANGED <<netKey, imports, cached, retired, req>>

DeleteLink(r, l) ==
    /\ req[r] = Idle
    /\ l \in links
    /\ links' = links \ {l}
    /\ psk' = [psk EXCEPT ![l] = NoBlob]
    /\ UNCHANGED <<dev, netKey, imports, cached, retired, req>>

\* import_networks copies what an export made under password p holds, for the
\* network, its locations and some of its devices, and never opens it
Restore(r, n, D, p, form, v) ==
    LET imported == {n} \cup D \cup {LocationOf[d] : d \in D} IN
    /\ imports < MaxImports
    /\ imports' = imports + 1
    /\ req[r] = Idle
    /\ \A d \in D : NetworkOf[d] = n /\ dev[d].form # "gone"
    /\ dev' = [d \in Devices |-> IF d \in D THEN [form |-> form, pw |-> p] ELSE dev[d]]
    /\ psk' = [h \in Holders |-> IF h \in imported THEN Seal(p, v) ELSE psk[h]]
    /\ netKey' = [netKey EXCEPT ![n] = IF form = "legacy" THEN p ELSE None]
    /\ UNCHANGED <<links, cached, retired, req>>

----------------------------------------------------------------------------
(* The password cache. *)

UnlockRead(r, op, p) ==
    /\ req[r] = Idle
    /\ req' = [req EXCEPT ![r] = Asking("unlock", op, None, None, p)]
    /\ UNCHANGED <<dev, psk, links, netKey, imports, cached, retired>>

\* The first row, in no particular order, decides: a network that has a
\* private key of its own, else a device
UnlockValidate(r, p) ==
    /\ \/ \E n \in Networks : netKey[n] = p
       \/ /\ \E n \in Networks : netKey[n] = None
          /\ \E d \in Devices : Present(dev[d]) /\ dev[d].pw = p
    /\ UnlockRead(r, "validPassword", p)

\* Mutant: the bootstrap path taken without looking for a device
BootstrapAnyway(r, p) == CarefulBootstrap /\ UnlockRead(r, "bootstrap", p)

\* No device: any password is accepted (with the bootstrap token).  Preshared
\* keys of networks and locations are not tried.  CarefulBootstrap stands for
\* users who never type a password other than the one those are under.
UnlockBootstrap(r, p) ==
    /\ \E n \in Networks : netKey[n] = None
    /\ \A d \in Devices : ~Present(dev[d])
    /\ CarefulBootstrap => StoredUnder \subseteq {p}
    /\ UnlockRead(r, "bootstrap", p)

\* cache.unlock; a password chosen at bootstrap is in use again
UnlockFinish(r) ==
    /\ req[r].step = "unlock"
    /\ cached' = req[r].pw
    /\ retired' = IF req[r].op = "bootstrap" THEN retired \ {req[r].pw} ELSE retired
    /\ End(r)
    /\ UNCHANGED <<dev, psk, links, netKey, imports>>

\* lock request, idle timeout or TTL
Lock ==
    /\ cached # None
    /\ cached' = None
    /\ UNCHANGED <<dev, psk, links, netKey, imports, retired, req>>

\* The process dies: memory and uncommitted transactions are lost
Crash ==
    /\ cached' = None
    /\ req' = [r \in Requests |-> Idle]
    /\ UNCHANGED <<dev, psk, links, netKey, imports, retired>>

----------------------------------------------------------------------------
(* Rotation of the master password from pw to new. *)

Rotating(r, step) == req[r].step = step /\ req[r].op = "rotate"

Advance(r, step, c, n, rows, psks, ok) ==
    req' = [req EXCEPT ![r] = InFlight(step, "rotate", None, None, c, n, rows, psks, ok)]

\* validate_current_password: the first device decides; with no device any
\* password is valid
RotateValidate(r, c, n) ==
    /\ req[r] = Idle
    /\ \/ \A d \in Devices : ~Present(dev[d])
       \/ \E d \in Devices : Present(dev[d]) /\ dev[d].pw = c
    /\ Advance(r, "validated", c, n, NoRows, NoPsks, FALSE)
    /\ UNCHANGED <<dev, psk, links, netKey, imports, cached, retired>>

\* _get_all_devices
RotateReadDevices(r) ==
    /\ Rotating(r, "validated")
    /\ Advance(r, "read", req[r].pw, req[r].new, dev,
               [h \in Holders |-> IF h \in Devices THEN psk[h] ELSE NoBlob], FALSE)
    /\ UNCHANGED <<dev, psk, links, netKey, imports, cached, retired>>

\* The device key of d, as read, is sealed again under the new password, even
\* when the preshared key of d then fails and d is counted as failed
DekRotates(q, d)   == q.rows[d] = [form |-> "dek", pw |-> q.pw]
DeviceRotates(q, d) == DekRotates(q, d) /\ OpensPsk(q.psks[d], q.pw)
DeviceFails(q, d)  == Present(q.rows[d]) /\ ~DeviceRotates(q, d)

\* Devices that were changed are flushed before the other tables are read: the
\* write lock is then held to the end.  Otherwise the other tables are read
\* without it.
RotateReadTables(r) ==
    /\ Rotating(r, "read")
    /\ \A d \in Devices : ~DekRotates(req[r], d)
    /\ Advance(r, "tables", req[r].pw, req[r].new, req[r].rows,
               [h \in Holders |-> IF h \in Devices THEN req[r].psks[h] ELSE psk[h]],
               FALSE)
    /\ UNCHANGED <<dev, psk, links, netKey, imports, cached, retired>>

\* Links, networks and locations as the rotation sees them
Table(q) == IF q.step = "tables" THEN q.psks ELSE psk

\* A shared key that does not open is counted and left; a link's ends it all
FailedShared(q, S)  == {s \in S : ~OpensPsk(Table(q)[s], q.pw)}
RotatedShared(q)    == {s \in Shared : Table(q)[s].pw = q.pw}
RotatedDevices(q)   == {d \in Devices : DeviceRotates(q, d)}
LinksOpen(q)        == \A l \in Links : OpensPsk(Table(q)[l], q.pw)

\* Mutant: failed_networks is not looked at either
ReportsDevicesOnly(q) == \A d \in Devices : ~DeviceFails(q, d)

\* failed_locations is not looked at
ReportsSuccess(q) ==
    FailedShared(q, Networks) = {} /\ \A d \in Devices : ~DeviceFails(q, d)

ReadyToCommit(r) ==
    /\ \/ Rotating(r, "read") /\ \E d \in Devices : DekRotates(req[r], d)
       \/ Rotating(r, "tables")
    /\ LinksOpen(req[r])

\* The answer is being prepared; what was read is no longer needed
Answer(r) ==
    Advance(r, "reply", req[r].pw, req[r].new, NoRows, NoPsks, ReportsSuccess(req[r]))

Resealed(q, blob) == [pw |-> q.new, val |-> blob.val]

\* Mutant: location keys were forgotten
RotatedPskNoLocations(q) ==
    [h \in Holders |->
        IF h \in Devices
        THEN IF DeviceRotates(q, h) /\ q.psks[h] # NoBlob
             THEN Resealed(q, q.psks[h]) ELSE psk[h]
        ELSE IF h \notin Locations /\ Table(q)[h].pw = q.pw
             THEN Resealed(q, Table(q)[h]) ELSE psk[h]]

RotatedPsk(q) ==
    [h \in Holders |->
        IF h \in Devices
        THEN IF DeviceRotates(q, h) /\ q.psks[h] # NoBlob
             THEN Resealed(q, q.psks[h]) ELSE psk[h]
        ELSE IF Table(q)[h].pw = q.pw THEN Resealed(q, Table(q)[h]) ELSE psk[h]]

\* Mutant: rows are merged back instead of updated
RowsMerged(q) == q = q

\* A row that was changed and is gone by now makes the flush fail
RowsStillThere(q) ==
    /\ \A d \in Devices : DekRotates(q, d) => Present(dev[d])
    /\ \A l \in Links : Table(q)[l].pw = q.pw => l \in links

RotateCommit(r) ==
    LET q == req[r] IN
    /\ ReadyToCommit(r)
    /\ RotatedDevices(q) # {} \/ RotatedShared(q) # {}
    /\ RowsStillThere(q)
    /\ dev' = [d \in Devices |->
                 IF DekRotates(q, d) THEN [form |-> "dek", pw |-> q.new] ELSE dev[d]]
    /\ psk' = RotatedPsk(q)
    /\ retired' = retired \ {q.new}
    /\ Answer(r)
    /\ UNCHANGED <<links, netKey, imports, cached>>

\* Nothing was counted as rotated: links that were are undone
RotateRollback(r) ==
    LET q == req[r] IN
    /\ ReadyToCommit(r)
    /\ RotatedDevices(q) = {} /\ RotatedShared(q) = {}
    /\ Answer(r)
    /\ UNCHANGED <<dev, psk, links, netKey, imports, cached, retired>>

\* Mutant: the cache is not locked
ReplyKeepsCache(r) ==
    LET q == req[r] IN
    /\ Rotating(r, "reply")
    /\ retired' = IF q.ok THEN (retired \cup {q.pw}) \ {q.new} ELSE retired
    /\ End(r)
    /\ UNCHANGED <<dev, psk, links, netKey, imports, cached>>

\* After the commit, success locks the cache; failures leave it as it is
RotateReply(r) ==
    LET q == req[r] IN
    /\ Rotating(r, "reply")
    /\ cached'  = IF q.ok THEN None ELSE cached
    /\ retired' = IF q.ok THEN (retired \cup {q.pw}) \ {q.new} ELSE retired
    /\ End(r)
    /\ UNCHANGED <<dev, psk, links, netKey, imports>>

----------------------------------------------------------------------------

Write(r) ==
    \/ \E d \in Devices, v \in MaybePsk : StartCreateDevice(r, d, v)
    \/ CommitCreateDevice(r)
    \/ \E d \in Devices : StartUpgradeDevice(r, d)
    \/ CommitUpgradeDevice(r)
    \/ \E d \in Devices, v \in MaybePsk : StartDevicePsk(r, d, v)
    \/ CommitDevicePsk(r)
    \/ \E l \in Links, v \in MaybePsk : StartLinkPsk(r, l, v)
    \/ CommitLinkPsk(r)
    \/ \E s \in Shared, v \in MaybePsk : StartSharedPsk(r, s, v)
    \/ CommitSharedPsk(r)

Remove(r) ==
    \/ \E d \in Devices : DeleteDevice(r, d)
    \/ \E l \in Links : DeleteLink(r, l)

Import(r) ==
    \E n \in Networks, D \in SUBSET Devices, p \in Passwords,
       form \in {"dek", "legacy"}, v \in MaybePsk : Restore(r, n, D, p, form, v)

Unlock(r) ==
    \/ \E p \in Passwords : UnlockValidate(r, p) \/ UnlockBootstrap(r, p)
    \/ UnlockFinish(r)

Rotate(r) ==
    \/ \E c, n \in Passwords : RotateValidate(r, c, n)
    \/ RotateReadDevices(r)
    \/ RotateReadTables(r)
    \/ RotateCommit(r)
    \/ RotateRollback(r)
    \/ RotateReply(r)

Next ==
    \/ \E r \in Requests : Write(r) \/ Remove(r) \/ Import(r) \/ Unlock(r)
                             \/ Rotate(r) \/ Abort(r)
    \/ Lock
    \/ Crash

Spec == Init /\ [][Next]_vars

----------------------------------------------------------------------------
(* Properties. *)

\* What a request carries, by the step it has reached
WellFormed(q) ==
    /\ q.step = "write" =>
         q.op \in {"create", "upgrade", "devicePsk", "insertLink", "updateLink", "sharedPsk"}
    /\ q.op \in {"create", "upgrade", "devicePsk"} =>
         q.at \in Devices /\ q.pw \in Passwords
    /\ q.op \in {"insertLink", "updateLink"} =>
         q.at \in Links /\ (q.val # None => q.pw \in Passwords)
    /\ q.op = "sharedPsk" => q.at \in Shared /\ q.pw \in Passwords
    /\ q.op \in {"validPassword", "bootstrap"} => q.pw \in Passwords
    /\ q.step = "unlock" => q.op \in {"validPassword", "bootstrap"}
    /\ q.op = "rotate" => q.pw \in Passwords /\ q.new \in Passwords

\* Every row is absent, deleted or sealed under a password, every blob is
\* absent or sealed under a password, and a request in flight carries the
\* password its commit will need.
TypeOK ==
    /\ dev \in [Devices -> Row]
    /\ psk \in [Holders -> Blob]
    /\ links \subseteq Links
    /\ netKey \in [Networks -> MaybePassword]
    /\ imports \in 0 .. MaxImports
    /\ cached \in MaybePassword
    /\ retired \subseteq Passwords
    /\ req \in [Requests -> Request]
    /\ \A r \in Requests : WellFormed(req[r])

\* One request at a time, no import, and users who remember their password
Serial ==
    /\ \A r1, r2 \in Requests : r1 = r2
    /\ MaxImports = 0
    /\ CarefulBootstrap

\* All stored secrets are under one password, and the cache holds no other
\* one, except between the commit of a rotation and its answer.
Uniform ==
    /\ \A p1, p2 \in StoredUnder : p1 = p2
    /\ cached # None /\ (\A r \in Requests : ~(req[r].step = "reply" /\ req[r].ok))
         => StoredUnder \subseteq {cached}

\* A password that a rotation reported replaced encrypts nothing any more
\* (the promise of key_rotation.py's rotate: "Re-encrypts each device DEK
\* with the new password", and with it every preshared key).
RetiredPasswordUnused == StoredUnder \cap retired = {}

\* The step in which rotation r ends its transaction
Rotated(r) == req[r].step \in {"read", "tables"} /\ req'[r].step = "reply"

\* A rotation that changed a device and is reported as successful has left no
\* network key, no link key and no key of a device it read under another
\* password than the new one, whatever other requests did between its reads
\* and its commit.
SuccessReencrypts ==
    [][\A r \in Requests : Rotated(r) /\ req[r].step = "read" /\ req'[r].ok =>
          /\ \A h \in Networks \cup Links : OpensPsk(psk'[h], req[r].new)
          /\ \A d \in Devices : Present(req[r].rows[d]) => dev'[d].pw = req[r].new]_vars

\* A rotation that changed a device holds the write lock from then on: it
\* changes the password of a shared or link key, never the key itself, and it
\* brings back no device that was deleted.
RotationKeepsValues ==
    [][\A r \in Requests : Rotated(r) /\ req[r].step = "read" =>
          /\ \A h \in Holders \ Devices : psk'[h].val = psk[h].val
          /\ \A d \in Devices : Present(dev'[d]) <=> Present(dev[d])]_vars

\* PRODUCTION_RUNBOOK.md: rotation "automatically re-encrypts the database
\* with new keys": success leaves nothing under another password.
SuccessMeansNewPassword ==
    [][\A r \in Requests : Rotated(r) /\ req'[r].ok =>
          StoredUnder' \subseteq {req[r].new}]_vars

\* unlock: "If encrypted data exists in the database, the password is
\* validated": the cache never takes a password that opens nothing stored.
UnlockIsValidated ==
    [][cached' \notin {None, cached} /\ StoredUnder # {} => cached' \in StoredUnder]_vars

\* Without concurrent requests the database and the cache are a vault with one
\* master password: creating, updating, deleting and rotating, with all their
\* failures and with crashes between any two steps, look to a user like the
\* operations of that vault.
Vault == INSTANCE SecretVault WITH
    Slots  <- ({"dek"} \X Devices) \cup ({"psk"} \X Holders),
    Values <- Psks \cup {"deviceKey"},
    secret <- [s \in ({"dek"} \X Devices) \cup ({"psk"} \X Holders) |->
                  IF s[1] = "psk" THEN psk[s[2]].val
                  ELSE IF Present(dev[s[2]]) THEN "deviceKey" ELSE None],
    master <- IF StoredUnder = {} THEN None ELSE CHOOSE p \in StoredUnder : TRUE,
    key    <- cached

ImplementsVault == Vault!Spec

=============================================================================

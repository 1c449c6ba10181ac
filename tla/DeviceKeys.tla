----------------------------- MODULE DeviceKeys -----------------------------
(***************************************************************************)
(* The keys one device lives on.  Its private key is encrypted under a     *)
(* device key (DEK), and the DEK once for every API key that may fetch the *)
(* device's configuration.  Copies of the preshared keys of the network,   *)
(* the location and the links of the device are kept under the DEK too.    *)
(* Devices from before device keys existed have their private key under    *)
(* the master password and get a DEK when first touched.                   *)
(*                                                                         *)
(* Here the master password is unlocked and opens everything (KeyRotation  *)
(* is about when it does not): a request that it fails is one that fails.  *)
(*                                                                         *)
(* A request holds a row as it first read it: a session does not refresh   *)
(* the objects it has, and writes only columns that the code has changed.  *)
(* Creating or rotating an API key commits twice, first the row of the new *)
(* key, then the DEK wrapped by it; its value is only in the answer.       *)
(***************************************************************************)

EXTENDS FiniteSets

CONSTANTS
    Keys,                \* API keys ever generated
    Deks,                \* device keys ever generated
    Psks,                \* preshared keys, in the clear
    Network, Location,   \* the ones the device belongs to
    Links,               \* links from the device to others
    Requests,
    Births,              \* "legacy", "dek": without a DEK at first, or with one
    None

Shared  == {Network, Location}
Holders == Shared \cup Links

ASSUME HoldersDiffer == Network # Location /\ Shared \cap Links = {}

ASSUME BirthsAreForms == Births \subseteq {"legacy", "dek"}

ASSUME NoneIsNothing == None \notin Keys \cup Deks \cup Psks \cup Holders

VARIABLES
    dev,      \* the DEK of the device, and what its private key is under
    key,      \* the API-key rows
    psk,      \* preshared keys under the master password
    copy,     \* their copies under the DEK
    handed,   \* history: API keys given to somebody and not withdrawn since
    calm,     \* history: no request has run beside another one
    born,     \* history: whether the device is from before device keys
    req

vars == <<dev, key, psk, copy, handed, calm, born, req>>

----------------------------------------------------------------------------

MaybeDek == Deks \cup {None}
MaybePsk == Psks \cup {None}
MaybeKey == Keys \cup {None}

\* A row is enabled ("on") or not, and holds a DEK wrapped by its key
Unissued == [state |-> "unissued", wrap |-> None]
Deleted  == [state |-> "deleted", wrap |-> None]
KeyRow   == {Unissued, Deleted} \cup [state : {"on", "off"}, wrap : MaybeDek]

IsRow(k) == k.state \in {"on", "off"}

NoCopy == [dek |-> None, val |-> None]
Copy   == {NoCopy} \cup [dek : Deks, val : Psks]

Untouched == [k \in Keys |-> Unissued]

Request ==
    [step   : {"idle", "read", "issued", "sync"},
     op     : {"none", "create", "rotate", "regenerate", "enable", "disable", "revoke",
               "lockdown", "shared", "link", "keypair", "privateKey"},
     new    : MaybeKey,
     old    : MaybeKey,
     at     : Holders \cup {None},
     val    : MaybePsk,
     dek    : MaybeDek,
     psks   : [Shared -> MaybePsk],
     held   : SUBSET Holders,
     seen   : [Keys -> KeyRow]]

NoPsks   == [h \in Shared |-> None]
NoCopies == [h \in Holders |-> NoCopy]

Idle == [step |-> "idle", op |-> "none", new |-> None, old |-> None, at |-> None,
         val |-> None, dek |-> None, psks |-> NoPsks, held |-> {}, seen |-> Untouched]

Init ==
    /\ born \in Births
    /\ \/ born = "legacy" /\ dev = [dek |-> None, priv |-> None]
       \/ born = "dek" /\ dev \in {[dek |-> e, priv |-> e] : e \in Deks}
    /\ key = Untouched
    /\ psk = [h \in Holders |-> None]
    /\ copy = NoCopies
    /\ handed = {}
    /\ calm = TRUE
    /\ req = [r \in Requests |-> Idle]

----------------------------------------------------------------------------
(* Requests. *)

UsesDek == {"create", "rotate", "regenerate", "shared", "link", "keypair", "privateKey"}

Calm(r) == calm' = (calm /\ \A x \in Requests \ {r} : req[x] = Idle)

\* What a request keeps of its first read: the key rows in S, and of the
\* holders in H the preshared key and whether there is a copy (held)
Begin(r, op, new, old, h, v, S, H) ==
    /\ req[r] = Idle
    /\ req' = [req EXCEPT ![r] =
         [step |-> "read", op |-> op, new |-> new, old |-> old, at |-> h, val |-> v,
          dek  |-> IF op \in UsesDek THEN dev.dek ELSE None,
          psks |-> [s \in Shared |-> IF s \in H THEN psk[s] ELSE None],
          held |-> {x \in H : copy[x] # NoCopy},
          seen |-> [k \in Keys |-> IF k \in S THEN key[k] ELSE Unissued]]]
    /\ Calm(r)
    /\ UNCHANGED <<dev, key, psk, copy, handed, born>>

Reading(r, op) == req[r].step = "read" /\ req[r].op = op

End(r) == req' = [req EXCEPT ![r] = Idle]

\* An error, a locked cache or database, a row that is gone; a failed
\* request leaves what it has committed
Fail(r) ==
    /\ req[r] # Idle
    /\ End(r)
    /\ UNCHANGED <<dev, key, psk, copy, handed, calm, born>>

DeksInUse ==
    {dev.dek, dev.priv} \cup {key[k].wrap : k \in Keys} \cup {copy[h].dek : h \in Holders}
    \cup {req[r].dek : r \in Requests}
    \cup UNION {{req[r].seen[k].wrap : k \in Keys} : r \in Requests}

\* Mutant: a DEK is generated whether there is one or not
FreshDek(q, e) == e \notin DeksInUse

\* e is the DEK the request works with: the one it read, else a new one
Takes(q, e) == IF q.dek = None THEN e \notin DeksInUse ELSE e = q.dek

\* Mutant: an absent key is encrypted like any other
CopiedAlways(q, h, e, v) == [dek |-> e, val |-> v]

\* A column set to NULL that was NULL when read is not written
Cleared(q, h) == IF h \in q.held THEN NoCopy ELSE copy[h]

\* Mutant: the copy is kept when there already is one
CopiedOnce(q, h, e, v) ==
    IF v = None THEN Cleared(q, h)
    ELSE IF copy[h] # NoCopy THEN copy[h] ELSE [dek |-> e, val |-> v]

\* What the column of a copy becomes when h has preshared key v
Copied(q, h, e, v) ==
    IF v = None THEN Cleared(q, h) ELSE [dek |-> e, val |-> v]


\* Mutants: the old wrap is forgotten; a wrap is dropped with every new one
KeepsWrap(seen, now) == [state |-> IF seen.state = "on" THEN "off" ELSE now.state,
                         wrap  |-> now.wrap]
OnlyNewest(q, e) == [k \in Keys |-> IF ~IsRow(key[k]) THEN key[k]
                                   ELSE [key[k] EXCEPT !.wrap = IF k = q.new THEN e ELSE None]]

\* A row disabled and unwrapped: what differs from the row as seen is written
Withdrawn(seen, now) ==
    [state |-> IF seen.state = "on" THEN "off" ELSE now.state,
     wrap  |-> IF seen.wrap # None THEN None ELSE now.wrap]

\* A device that gets its first DEK drops the wraps on the keys it has seen
Unwrapped(q) ==
    [k \in Keys |-> IF q.dek = None /\ q.seen[k].wrap # None
                   THEN [key[k] EXCEPT !.wrap = None] ELSE key[k]]

\* The rows it drops wraps from are still there
Unwraps(q) == q.dek = None => \A k \in Keys : q.seen[k].wrap # None => IsRow(key[k])

\* The rows once new has its wrap
Rewrapped(q, e) == [Unwrapped(q) EXCEPT ![q.new] = [@ EXCEPT !.wrap = e]]

----------------------------------------------------------------------------
(* Issuing an API key. *)

Fresh(k) == key[k] = Unissued /\ \A x \in Requests : req[x].new # k

Rows == {k \in Keys : IsRow(key[k])}

StartCreate(r, k) == Fresh(k) /\ Begin(r, "create", k, None, None, None, {}, Shared)

StartRotate(r, k, old) ==
    /\ Fresh(k)
    /\ old \in Rows
    /\ Begin(r, "rotate", k, old, None, None, {old}, Shared)

\* The first row of an unordered result is rotated, enabled or not
StartRegenerate(r, k) ==
    /\ Fresh(k)
    /\ \E old \in IF Rows = {} THEN {None} ELSE Rows :
         Begin(r, "regenerate", k, old, None, None, Keys, Shared)

\* First commit: the row of the new key, and the old one withdrawn.  Only a
\* key that an administrator creates may start disabled.
IssueKey(r) ==
    LET q == req[r] IN
    /\ q.step = "read" /\ q.op \in {"create", "rotate", "regenerate"}
    /\ q.old # None => IsRow(key[q.old])
    /\ \E s \in IF q.op = "create" THEN {"on", "off"} ELSE {"on"} :
         LET row == [state |-> s, wrap |-> None] IN
         /\ key' = [k \in Keys |-> IF k = q.new THEN row
                                  ELSE IF k = q.old THEN Withdrawn(q.seen[k], key[k])
                                  ELSE key[k]]
         /\ req' = [req EXCEPT ![r] =
              [q EXCEPT !.step = "issued",
                        !.seen = [k \in Keys |->
                           IF k = q.new THEN row
                           ELSE IF k = q.old THEN [state |-> "off", wrap |-> None]
                           ELSE q.seen[k]]]]
    /\ handed' = handed \ {q.old}
    /\ UNCHANGED <<dev, psk, copy, calm, born>>

\* get_device: the location and the other key rows are read now, the device
\* and its network are in the session since the first read
SyncRead(r) ==
    LET q == req[r] IN
    /\ q.step = "issued"
    /\ req' = [req EXCEPT ![r] =
         [q EXCEPT !.step = "sync",
                   !.psks = [q.psks EXCEPT ![Location] = psk[Location]],
                   !.seen = [k \in Keys |-> IF IsRow(q.seen[k]) THEN q.seen[k]
                                           ELSE IF IsRow(key[k]) THEN key[k]
                                           ELSE Unissued]]]
    /\ UNCHANGED <<dev, key, psk, copy, handed, calm, born>>

\* Second commit: the DEK under the new key.  The links are read under the
\* write lock that the flush before has taken.
SyncCommit(r) ==
    LET q == req[r] IN
    /\ q.step = "sync"
    /\ IsRow(key[q.new])
    /\ Unwraps(q)
    /\ \E e \in Deks :
         /\ Takes(q, e)
         /\ dev' = IF q.dek = None THEN [dek |-> e, priv |-> e] ELSE dev
         /\ key' = Rewrapped(q, e)
         /\ copy' = [h \in Holders |->
              IF h \in Shared THEN Copied(q, h, e, q.psks[h])
              ELSE IF psk[h] = None THEN NoCopy ELSE [dek |-> e, val |-> psk[h]]]
    /\ handed' = handed \cup {q.new}
    /\ End(r)
    /\ UNCHANGED <<psk, calm, born>>

----------------------------------------------------------------------------
(* Withdrawing API keys. *)

\* An update that changes nothing writes nothing
StartUpdateKey(r, k) ==
    \/ key[k].state = "off" /\ Begin(r, "enable", None, k, None, None, {k}, {})
    \/ key[k].state = "on" /\ Begin(r, "disable", None, k, None, None, {k}, {})

CommitUpdateKey(r) ==
    LET q == req[r] IN
    /\ Reading(r, "enable") \/ Reading(r, "disable")
    /\ IsRow(key[q.old])
    /\ key' = [key EXCEPT ![q.old] =
                 [@ EXCEPT !.state = IF q.op = "enable" THEN "on" ELSE "off"]]
    /\ End(r)
    /\ UNCHANGED <<dev, psk, copy, handed, calm, born>>

StartRevoke(r, k) == k \in Rows /\ Begin(r, "revoke", None, k, None, None, {k}, {})

CommitRevoke(r) ==
    LET q == req[r] IN
    /\ Reading(r, "revoke")
    /\ IsRow(key[q.old])
    /\ key' = [key EXCEPT ![q.old] = Withdrawn(q.seen[q.old], @)]
    /\ handed' = handed \ {q.old}
    /\ End(r)
    /\ UNCHANGED <<dev, psk, copy, calm, born>>

DeleteKey(r, k) ==
    /\ req[r] = Idle
    /\ k \in Rows
    /\ key' = [key EXCEPT ![k] = Deleted]
    /\ handed' = handed \ {k}
    /\ Calm(r)
    /\ UNCHANGED <<dev, psk, copy, born, req>>

\* revoke_device: the rows enabled now, unless the session knows better; the
\* wraps stay
StartLockdown(r) == Begin(r, "lockdown", None, None, None, None, Keys, {})

CommitLockdown(r) ==
    LET q == req[r] IN
    /\ Reading(r, "lockdown")
    /\ key' = [k \in Keys |-> IF key[k].state = "on" /\ q.seen[k].state # "off"
                            THEN [key[k] EXCEPT !.state = "off"] ELSE key[k]]
    /\ End(r)
    /\ UNCHANGED <<dev, psk, copy, handed, calm, born>>

----------------------------------------------------------------------------
(* Preshared keys and the private key. *)

\* update_network and update_location
StartShared(r, h, v) == Begin(r, "shared", None, None, h, v, {}, {h})

CommitShared(r) ==
    LET q == req[r]
        h == q.at IN
    /\ Reading(r, "shared")
    /\ psk' = IF q.val = q.psks[h] /\ q.val = None THEN psk ELSE [psk EXCEPT ![h] = q.val]
    /\ copy' = [copy EXCEPT ![h] = Copied(q, h, q.dek, IF q.dek = None THEN None ELSE q.val)]
    /\ End(r)
    /\ UNCHANGED <<dev, key, handed, calm, born>>

\* upsert_link: a preshared key needs a device that has a DEK
StartLink(r, l, v) ==
    /\ IF v = None THEN psk[l] # None ELSE dev.dek # None
    /\ Begin(r, "link", None, None, l, v, {}, {l})

CommitLink(r) ==
    LET q == req[r] IN
    /\ Reading(r, "link")
    /\ psk' = [psk EXCEPT ![q.at] = q.val]
    /\ copy' = [copy EXCEPT ![q.at] = Copied(q, q.at, q.dek, q.val)]
    /\ End(r)
    /\ UNCHANGED <<dev, key, handed, calm, born>>

DeleteLink(r, l) ==
    /\ req[r] = Idle
    /\ psk[l] # None
    /\ psk' = [psk EXCEPT ![l] = None]
    /\ copy' = [copy EXCEPT ![l] = NoCopy]
    /\ Calm(r)
    /\ UNCHANGED <<dev, key, handed, born, req>>

\* A new key pair, generated (regenerate_device_keys) or given (update_device)
StartReplace(r, op) ==
    /\ op \in {"keypair", "privateKey"}
    /\ Begin(r, op, None, None, None, None, Keys,
             IF op = "keypair" THEN {} ELSE Shared)

\* Only update_device copies the preshared keys again
CommitReplace(r) ==
    LET q == req[r] IN
    /\ Reading(r, "keypair") \/ Reading(r, "privateKey")
    /\ Unwraps(q)
    /\ \E e \in Deks :
         /\ Takes(q, e)
         /\ dev' = [dek |-> IF q.dek = None THEN e ELSE dev.dek, priv |-> e]
         /\ copy' = [h \in Holders |-> IF h \in Shared /\ q.op = "privateKey"
                                     THEN Copied(q, h, e, q.psks[h]) ELSE copy[h]]
    /\ key' = Unwrapped(q)
    /\ End(r)
    /\ UNCHANGED <<psk, handed, calm, born>>

Next ==
    \E r \in Requests :
        \/ \E k \in Keys : \/ StartCreate(r, k)
                           \/ \E old \in Keys : StartRotate(r, k, old)
                           \/ StartRegenerate(r, k)
                           \/ StartUpdateKey(r, k)
                           \/ StartRevoke(r, k)
                           \/ DeleteKey(r, k)
        \/ IssueKey(r) \/ SyncRead(r) \/ SyncCommit(r)
        \/ CommitUpdateKey(r) \/ CommitRevoke(r)
        \/ StartLockdown(r) \/ CommitLockdown(r)
        \/ \E v \in MaybePsk : \/ \E h \in Shared : StartShared(r, h, v)
                               \/ \E l \in Links : StartLink(r, l, v)
        \/ CommitShared(r) \/ CommitLink(r)
        \/ \E l \in Links : DeleteLink(r, l)
        \/ \E op \in {"keypair", "privateKey"} : StartReplace(r, op)
        \/ CommitReplace(r)
        \/ Fail(r)

Spec == Init /\ [][Next]_vars

----------------------------------------------------------------------------
(* Properties. *)

\* Every value is one the database and a request can hold
TypeOK ==
    /\ dev \in [dek : MaybeDek, priv : MaybeDek]
    /\ key \in [Keys -> KeyRow]
    /\ psk \in [Holders -> MaybePsk]
    /\ copy \in [Holders -> Copy]
    /\ handed \subseteq Keys
    /\ calm \in BOOLEAN
    /\ born \in {"legacy", "dek"}
    /\ req \in [Requests -> Request]

\* Requests that overlap on a device without a DEK may each generate one
Sound == calm \/ born = "dek"

\* Everything that is stored for the device opens with the DEK it has: its
\* private key, every wrap, every copy of a preshared key
WrapsOpen ==
    Sound => /\ dev.priv = dev.dek
             /\ \A k \in Keys : key[k].wrap \in {None, dev.dek}
             /\ \A h \in Holders : copy[h].dek \in {None, dev.dek}

\* An API key that was handed out and not withdrawn since can fetch the
\* configuration: no other operation, a change of key pair or another API key
\* among them, takes the wrapped DEK away from it
HandedOutKeysWork ==
    Sound => \A k \in handed : key[k].state = "on" => dev.dek # None /\ key[k].wrap = dev.dek

\* With requests one at a time, a key that was never handed out, or was
\* withdrawn, cannot open the DEK: no wrap is left on its row
NoForgottenWraps == calm => \A k \in Keys \ handed : key[k].wrap = None

\* With requests one at a time, what a device that has a key fetches are the
\* current preshared keys, whichever of the operations wrote them
CopiesFollow ==
    calm /\ handed # {} =>
        \A h \in Holders : psk[h] # None => copy[h] = [dek |-> dev.dek, val |-> psk[h]]

Enabled(k) == key[k].state = "on"

\* What the dialog says of regenerating the API key of a device that has one
\* key in force: it becomes invalid
OldKeyBecomesInvalid ==
    [][\A r \in Requests, k \in Keys :
         calm /\ k \in handed /\ IssueKey(r) /\ req[r].op = "regenerate"
         /\ {x \in Keys : Enabled(x)} = {k} => ~Enabled(k)']_vars

============================================================================

# A TLA+ model of WireGuard Mesh Manager

This directory holds TLA+ specifications of WireGuard Mesh Manager, its web
frontend (`src/frontend/src`) and its backend (`src/backend/app`), the TLC
configurations that check them on small instances, and theorems about them that
TLAPS checks for every instance.
`PROJECT.json` maps every definition to the lines it models and lists the runs,
the hazards, the findings and the theorems.

The backend is one asyncio process (FastAPI, SQLAlchemy, SQLite). An
administrator unlocks it with a master password that is kept in memory only,
manages networks, locations, devices, the links between devices and API keys,
and the devices fetch their WireGuard configuration with an API key. All
secrets are stored encrypted. What is hard in it is not the cryptography but
which key every stored value is under at every moment, with requests that
overlap at each `await`, commit in pieces, fail half way and outlive the
password they took from the cache.

The frontend is a React application. What is hard in it is the same thing seen
from the other side: handlers await calls whose answers may come in any order,
twice, late or never, while the user types, dismisses dialogs, changes tabs or
leaves the page, and nothing aborts or numbers what is in flight.

## 1. Inventory

| component | state it keeps | operations |
|---|---|---|
| password cache (`services/master_password.py`) | the password, its term and idle deadline | unlock, lock, extend, access, lazy expiry |
| master sessions (`services/master_session.py`, `middleware/auth.py`) | tokens with expiry and last activity | create at unlock, authenticate, extend, remove, lazy expiry |
| unlock (`routers/master_password.py`) | none | validate against the database, bootstrap, fill the cache |
| master key rotation (`services/key_rotation.py`, `routers/key_rotation.py`) | none; rewrites rows of four tables | validate, read, re-encrypt, commit or roll back, lock the cache |
| devices (`services/devices.py`) | rows with a private key under a device key (DEK), the DEK under the master password, preshared keys, copies of preshared keys under the DEK, address, endpoints | create, update, new key pair, lockdown, delete |
| API keys (`services/api_key.py`, `routers/api_keys.py`) | rows with hash, enabled flag, the DEK wrapped by the key | create, update, rotate, regenerate, revoke, delete |
| networks, locations (`services/networks.py`, `services/locations.py`) | rows, preshared keys under the master password | create, update with refresh of the device copies, delete rules |
| peer links (`services/device_links.py`) | directional rows with properties and a preshared key, twice encrypted | upsert, delete |
| export, import, backup (`services/export.py`, `services/backup.py`) | none; copies rows as they are encrypted | export, import with or without overwriting |
| device configuration (`services/device_config.py`) | none | peers, endpoints, keepalive and preshared key of a device's configuration |
| rate limiting (`middleware/rate_limit.py`) | counters per address and API key, in memory or Redis | count, block, expire, fall back to memory |
| audit log, CSRF tokens, operational settings, lint, hardening, metrics | rows or dictionaries read by nobody else | write, list, prune |
| device client (`scripts/device-config-fetcher.py`) | a configuration file | poll with retries |
| API client (`lib/api-client.ts`, `lib/auth.ts`) | session token, CSRF token | one wrapper per endpoint; `request()` repeats, refreshes the token, gives up |
| unlock provider and dialogs (`contexts/unlock-context.tsx`) | belief that the backend is unlocked, status, timers | refresh, poll, unlock, lock, extend, force lock |
| shell (`app-shell.tsx`, `locked-placeholder.tsx`) | none | mounts a page only while the provider says unlocked |
| list of networks (`app/networks/page.tsx`) | rows, dialogs, one form, one selection, flags | fetch, search, sort, create, update, delete |
| page of a network (`app/networks/[id]/`) | network, lint results, open tab; each tab its rows and dialogs | fetch, reload on a change, lint, locations, devices |
| all devices, a device, its form | rows or record, key on display, form fields, one flag per button | create, update, regenerate keys, load, preview |
| connections | links, a draft per direction | save, clear, generate |
| key rotation, audit, settings | form, filters, card with a copy of the values | validate and rotate; filter, export; edit, save |
| dashboard, editing and exporting | record, one submitting flag | fetch, submit |

How they interact. A handler runs on the event loop and may be interleaved with
any other at each `await`. Every request has a database session of its own;
rows are shared state between requests, with SQLite's write lock taken by the
first flush and released by the commit, and `SELECT`s that run outside of it.
A session does not refresh rows it has (`expire_on_commit=False`, identity
map), so a request works with rows as it first read them and writes only the
columns it changed. The password cache is shared memory: a service takes the
password out of it and goes on with its copy. The middleware authenticates a
request once, before its handler. The rotation locks the cache after its commit.

What is hard, in the order of what goes wrong at worst:

1. Writes sealed with a password that is being replaced; a rotation that works
   on rows read before other requests changed them, fails for some rows, or
   dies between its commit and the lock of the cache (section 4, KeyRotation).
2. Two levels of keys: one DEK per device, wrapped for every API key, copies of
   preshared keys under it that six handlers have to keep current, two commits
   to issue an API key (DeviceKeys).
3. Deadlines that nobody watches: cache and sessions expire when somebody asks,
   each by its own clock (UnlockSession).
4. Rules checked by a query and not by the database: addresses, endpoints,
   "last location", change of the address range (not modelled).
5. Sliding and fixed windows, blocking, and the change of stores on a failure
   (not modelled).
6. Imports that commit network by network over rows in use (not modelled).
7. Answers in the frontend: an older fetch answered after a newer one, a handler
   that goes on after its tab or page is gone, variables two dialogs share, a
   dialog dismissed and opened again with its request in flight, a key on
   display that is not the one in force, and a belief about the lock that
   nobody corrects (Screen and the page modules).
8. Which failures may be repeated, and when a call gives up (ApiClient).

What makes each component right: the properties named below for the modelled
ones; for the others, section 2. `PROJECT.json` lists the hazards with their
lines; a hazard with a note instead of a property is one that no run covers yet
or one the code is exposed to without promising otherwise.

## 2. Plan

| module | models |
|---|---|
| `KeyRotation` | every secret under the master password, the cache, rotation |
| `SecretVault` | abstract: a vault under one password; refined by KeyRotation |
| `UnlockSession` | the backend's cache and sessions with time |
| `PasswordLease` | abstract: a password with a term and an idle time; refined by UnlockSession |
| `DeviceKeys` | DEK, wraps, copies, API keys of one device |
| `Endpoints` | the calls of the API client and their methods |
| `RemoteCall` | abstract: one call, performed at most once unless it may be repeated |
| `ApiClient` | `request()` attempt by attempt; refines RemoteCall |
| `Screen` | what all pages share: one mounted page, calls in flight, a backend that answers, a network that loses answers |
| `NetworksPage`, `NetworkPage`, `NetworkLocations`, `NetworkDevices` | list of networks; one network with its lint and its tabs |
| `DevicesPage`, `DeviceForm`, `DevicePage` | all devices; the form; one device |
| `PeerLinks`, `RotationPage`, `AuditPage`, `SettingsPage`, `SmallPages` | the other pages |
| `UnlockProvider` | the provider, its dialogs and its timers |
| `Frontend` | composes the pages, the provider and the client with the backend |
| `KeyRotationProofs`, `UnlockSessionProofs`, `DeviceKeysProofs` | the theorems about those modules |
| `FrontendProofs`, `DisplayProofs`, `RowsProofs` | the theorems about what the pages show; each extends the one before |
| `CallProofs`, `WriteProofs` | the theorems about the client and the calls, and about writes; both extend `RowsProofs` |
| `MC*` | symmetry and views for TLC |

Composition. KeyRotation composes cache, database and all writers. DeviceKeys
takes the master password as unlocked; what a locked or replaced password does
is KeyRotation's. Every page module EXTENDS Screen, and Frontend EXTENDS them
all: pages share no React state, so a behaviour is about one of them, named by
`screen`, which may be left and mounted again any number of times. The pages
rely on RemoteCall, which ApiClient implements; Screen's `Perform`,
`LoseAnswer` and `Refuse` are the three steps of RemoteCall for a call in a slot.

What is left, in this order: the rules on records (addresses, endpoints, deletion:
a module `Inventory`), the device configuration as functions of the tables
(`PeerConfig`), the windows of the rate limiter (`RateLimit`), imports over
devices in use. They belong to the backend, and none of them is needed by a
module that is there. On the frontend: the fields of forms and the countdown of
the unlock dialog.

## 3. How the modules correspond to the code

### KeyRotation

State: `dev` (per device: no row, deleted, or how the private key is stored and
which password opens it), `psk` (per device, link, network, location: which
password its preshared key is under, and its value), `links`, `netKey` (a
network's own private key, from an import only), `cached`, `req` (requests in
flight with the password they took and the rows they read). History: `retired`,
the passwords that a rotation has reported replaced.

A request is a step that reads and takes the password from the cache - the code
does not await between its last read and that - and a step that flushes and
commits under the write lock. Rotation has more: validate, read the devices,
(flush,) read links, networks and locations, commit or roll back, answer and
lock the cache. When a device was changed, the flush before the next `SELECT`
takes the write lock, and the tables are read under it: `RotateCommit` then
reads them itself. When none was, they are read without the lock
(`RotateReadTables`). `Abort` ends any request before its commit; `Crash` loses
memory. `Restore` is an import, which copies what was encrypted elsewhere.

Abstractions: a cipher is the password that opens it; a blob of a NULL column is
`NoBlob`; identifiers are not used again (`gone`); foreign keys are not enforced,
as SQLite does unless told to; network and location rows exist from the start;
an import is made under one password, with one form and one preshared key;
devices stay in their location and locations in their network.
`MaxImports` bounds imports, the set `Requests` the requests in flight.
`CarefulBootstrap` is not code: it is the assumption that users who unlock a
database without devices type the password its preshared keys are under. The
run `unvalidated_unlock` shows what happens without it.

### UnlockSession

State: `cache` and `session` with deadlines as the time left, `req`, and the last
password handed out. `Tick` passes one unit of time for all. One action per
handler (`LockHandler`, `ExtendHandler`, `RefreshHandler`, `Status`,
`GetPassword`, `GetPasswordAgain`), `Authenticate` for the middleware, two steps
for unlock, `Restart`. Handlers do not await between reading and writing these
dictionaries, so each is one step. Only the global cache is modelled, which is
the default; refusals for another client address or user agent change nothing.
`Tokens` bounds the number of unlocks.

### DeviceKeys

State: one device's DEK and what its private key is under (`dev`), its API key
rows (`key`: state and wrap), the preshared keys of its network, its location and
its links (`psk`), the copies under the DEK (`copy`), requests. History: `handed`
(keys whose value was returned and that were not withdrawn since), `calm` (no two
requests have overlapped), `born`.

A request keeps what it has read: `seen` (key rows), `psks`, `held` (which copies
were not NULL), `dek`. A commit writes the columns whose value differs from the
one read (`Withdrawn`, `Unwrapped`, `Cleared`), and needs the rows it updates to
be there. Issuing a key is `StartCreate`, `StartRotate` or `StartRegenerate`, then
`IssueKey` (first commit), `SyncRead`, `SyncCommit` (second commit, after which
the key's value is in the answer); `Fail` may come between any two.

Not in it: the move of a device to another location, an import over the device,
the locked cache (a request then fails), expiry times and address ranges of API
keys, and the flag that disables the device. Links with properties but no
preshared key are not told apart from no link.

### The API client: Endpoints, ApiClient, RemoteCall

`Endpoints` is the table of wrappers, with the method of each. ApiClient is one
run of `request()`: `phase` says where it is, `retryCount`, `retryOnCsrf` and
`retryOnNetwork` are its parameters (it calls itself), `reply` the class of what
an attempt came back with. `PerformAttempt` lets the backend perform an attempt
and the answer be lost or turn into an error, `TurnAway` refuses it before any
effect. History: `performed`, how often it took effect. The delays between the
attempts are left out: an attempt is made some time later. `MaxRetries` is the
code's default of 3 in the runs and any number in the proofs.

### The pages: Screen and the modules that extend it

State: `screen`, fixed for a behaviour; `ui`, a record of the `useState` variables
of the mounted page, or `Unmounted`; `calls`, the calls in flight by slot, each
with its wrapper, its arguments, whether the page that made it is still mounted
(`mine`), whether it has taken effect (`done`) and its answer; `db`, what the backend
holds of what the page works on. A click or a timer is one action that sets
variables and makes a call, since a handler does not yield before its first
`await`; the part of a handler after an `await` is another action, enabled once
the call is answered. What can be clicked follows from what is rendered: a
skeleton hides the page, a dialog covers everything but itself, a button has
the `disabled` expression of the code.

`Unmount` is a navigation or a change of the provider's belief. The handlers of a
page that is gone run on: reads end without effect, writes stay in flight
(`Orphaned`, `Left`, `Abandoned`: by page, what the code's handler still does, such as
reloading the page of the network or locking the provider).

Ghost variables. Every page may be overtaken by another client or by an answer
that was lost, and then shows something old, which no page can know. The
properties are about the rest, so a page model carries a variable that is not
in the code and no guard reads: `uncertain` (told of a failure that may have taken
effect, or fetched while another of its calls was in flight), `overlapped` (two
fetches of the same thing in flight together) and `crossed` (two regenerations
under way together). They are set where that happens, cleared by the next fetch
that is alone, and say how far each guarantee goes: where a ghost is set TLC
finds the property false.

By page: `NetworksPage` has one form and one selection for all its dialogs.
`NetworkPage` is used twice, with a real tab under it (screens `locations` and
`devices`) and on its own for the lint (screen `network`). `NetworkDevices` has the
timer of its filters. `DevicesPage` and `DevicePage` keep the number of the API key
on display. `DeviceForm` names keys after the device they were generated for.
`PeerLinks` has the two directions of one pair of devices. `RotationPage` goes
through validation, rotation and the forced lock. `SettingsPage` has the card
with its own copy of the values. `SmallPages` has five pages with one fetch or
one submission. `UnlockProvider` has the token in session storage, the belief, and
sessions the backend issues, ends or forgets on its own.

## 4. What is checked

| run | question | result |
|---|---|---|
| `serial_rotation` | one request at a time, failures and crashes anywhere, three passwords, two devices with a link | `Uniform`, `RetiredPasswordUnused`, and the refinement of SecretVault hold |
| `concurrent_rotation` | two requests interleaved, an import, careless users | what a rotation that holds the lock guarantees: `RotationKeepsValues`, `SuccessReencrypts` |
| `raced_rotation` | the same as serial with two requests | violated: see findings |
| `unvalidated_rotation`, `unvalidated_unlock` | databases without devices | violated: see findings |
| `unlock_session` | two requests, two sessions, terms shorter and longer than the idle timeout | `GoneForGood`, `ExpiredStaysExpired`, `UseAloneRunsOut`, refinement of PasswordLease |
| `session_outlives_cache` | do sessions expire with the cache | violated: see findings |
| `device_keys` | one request at a time, three API keys, a device with or without a DEK | `WrapsOpen`, `HandedOutKeysWork`, `NoForgottenWraps`, `CopiesFollow` |
| `raced_device_keys` | two requests interleaved on a device that has its DEK | `WrapsOpen`, `HandedOutKeysWork` |
| `regenerated_key` | does regenerating replace the key in force | violated: see findings |
| `frontend` | nine screens, the tabs of a network among them, and the session: two requests in flight, two records, answers lost, refused and in any order | `OneWriteAtATime`, `WritesOwnRecord`, `RowsFollowWrites`, `LintIsCurrent`, `KeyShownIsInForce`, `DevicesKeepTheirKeys`, `RotationIsNoticed`, `SessionAgrees` |
| `frontend_progress` | the other pages, the session and the API client, under fairness | `AuditMatchesFilters`, `KeyShownIsInForce`, `ClientPostsOnce`, `ClientGivesUp`, the refinement of RemoteCall, `WaitingEnds`, `LockedIsNoticed`, `ClientEnds` |

Findings, each with its run (details and quotations in `PROJECT.json`):

* A device created while the master password is rotated stays under the old one,
  and the rotation reports success.
* Rotation with a wrong current password succeeds on a database without devices
  and ignores locations whose key did not open.
* Unlock accepts any password on a database without devices, also when networks
  and locations have encrypted keys.
* Sessions are accepted after the password cache has expired or was locked.
* Regenerating an API key rotates the first row of the device, which after one
  earlier rotation need not be the key in force; that one stays valid.

Bounds. Three passwords are a current, a next and a wrong one; two devices with a
link between them are the least with every kind of holder and a partial failure.
With two requests in flight one device suffices: every race found is of two
requests over one row, and the state space with more is out of reach. Three API
keys let a rotation leave a disabled row behind and a second one follow. Two
DEKs are one in use and one that a bug could generate. Two preshared keys tell
a stale copy from a current one. Terms 1 and 4 with idle time 2 put each
deadline before and after the other. Interchangeable values are declared
symmetric in the runs without liveness. In the frontend two calls in flight let
any answer overtake any other, and a second mount meets the calls of the first;
two records tell "the wrong record" from "the right one"; two sessions are an old
and a new one; two API keys, three passwords and two property sets or values are
enough for old, new and wrong. With three calls in flight the state space is out
of reach of the run; the concurrent run leaves the history
variable out of its view, which its properties read no more of than its type.

Fairness. In UnlockSession: weak fairness of `Tick`, time passes. No
request need arrive, be answered or be retried, since clients owe nothing. The
one liveness property, `UseAloneRunsOut`, follows from time alone. In the frontend a call is answered or fails (weak
fairness of `BackendAnswers`: `fetch` settles), the browser runs the handler that
waits (`PageHandle`), the client goes on (`ClientStep`), and the poll of the provider
fires while it believes the backend unlocked (`SessionPoll`). The poll's is a strong
fairness: the interval fires every 30 seconds whatever else is in flight, and only
the bound `MaxCalls`, which the browser does not have, disables it now and then. No
user need click, and no answer need be lost. The run `frontend_progress` checks no
deadlock, since screen `client` is one call, which ends; the run `frontend` does.

`WaitingEnds` leaves out the settings page, where it does not hold: `loading` of
`app/settings/page.tsx` is never set to false, so a first fetch that fails leaves the
skeleton for ever (a hazard with a note, as no document promises otherwise).
`OneWriteAtATime` leaves out the devices tab and the page of all devices, whose
row menus are not disabled by the flag that their dialogs share.

Every property of a passing run has a mutant in `PROJECT.json`: a change of a
mapped definition of the kind a plausible bug would be, under which TLC finds the
property violated. The mutated forms stand beside the definitions, marked
"Mutant" or "Not the code".

## 5. What is proved

`KeyRotationProofs`

* `TypeInvariant`: `Spec => []TypeOK`, for any constants that satisfy the
  assumptions of the module. TypeOK is inductive because it says by step what a
  request carries (`WellFormed`): a commit seals with the password of the request,
  which must be one.
* `SerialUniform` and `SerialRetired`: with one request slot, no import and
  `CarefulBootstrap`, `Uniform` and `RetiredPasswordUnused` always hold. Neither is
  inductive. The invariant `SerialInv` adds that the password of the request in
  flight is the one everything is stored under (`RequestFits`), that rows a
  rotation has read are still what the database holds, and that between the
  commit of a rotation and its answer the cache may hold the password that was
  replaced (`CacheFits`, `Answering`). One lemma per group of actions
  (`SafeWrite`, `SafeRemove`, `SafeUnlock`, `SafeCache`, `SafeRotate`) leads to
  `SerialNext`. The assumptions are needed: the runs expected to be violated
  drop one each.
* `RotationKeeps` and `SuccessIsComplete`: `RotationKeepsValues` and `SuccessReencrypts`,
  the two action properties, for any number of requests and imports at a time. They
  need TypeOK only, and that nothing but the commit of a rotation takes it to its
  answer (`RotatedByCommit`): from its flush of the devices to its commit the rotation
  holds the write lock, so the rows it re-encrypts are those the commit finds.
* `SerialIsVault`: under the assumptions of `SerialUniform`, `Spec => ImplementsVault`,
  the whole refinement of SecretVault. `SerialInv` makes the password that the mapping
  chooses (`Master`) the only one there is (`MasterIs`). The commit of a rotation is the
  vault's `ChangeMaster`, the commits of the other writers are `Write`s, removals are
  `Write`s or stutters, unlock, lock and crash are the vault's, and all between is a
  stutter (`StepIsVaultStep`).

`UnlockSessionProofs`

* `TypeInvariant`; `GoneIsForGood` and `ExpiredIsFinal`, the action properties, from
  it and from a lemma on what a step may do to one session (`SessionStep`).
* `CacheIsALease`: `Spec => ImplementsLease`, the whole refinement of PasswordLease,
  which is a safety specification. `StepIsLeaseStep` maps each step to one of the
  lease or to a stutter; the lazily locked cache is mapped to one that is empty
  from the deadline on, so that locking an expired cache is a stutter and the tick
  that reaches a deadline is the lease's `RunOut`.

`DeviceKeysProofs`

* `DeviceKeysInvariant`: `Spec => []IInv`, for any numbers of API keys, links and
  requests that overlap. The four properties are conjuncts of IInv or follow from
  one, but none is inductive: a commit writes what the request read earlier. IInv
  adds that what was read is not stale when it is written: for a device born with a
  DEK, that DEK (`DekIsCurrent`), whatever overlaps; the row of the key and the
  preshared keys only while requests come one at a time (`RowIsCurrent`,
  `PsksAreCurrent`). `NewKeysDiffer` and `NotYetIssued` say that two requests never
  generate the same key.
* `DeviceKeysTypes`, `StoredSecretsOpen`, `KeysGoOnWorking`, `WithdrawnKeysForget`
  and `CopiesAreCurrent` are its consequences. The runs check them with one request
  in flight, or two on a device that has its DEK; the theorems have no such bound.

`FrontendProofs`: five properties of pages for any number of records, values and
calls in flight, and what the next four modules build on. A behaviour stays with one page (`ScreenStays`), so a proof is about
the steps of that page, those of the backend on its calls, and unmounting.
Common to all is `CallsOK`, what a slot may hold; each adds what relates the page to
its calls:

* `FormKeepsKeys`: the public key in a form, and in each of its writes, is that of the
  device or a new one (`FormUiOK`, `FormCallsOK`). The private key need not be, as a late
  answer may bring another device's; `update_device`, which compares the halves, then
  refuses, and a change of the public key alone is ignored.
* `RotationNeverUnnoticed`: a page that is not told of a failure knows the password, or
  a rotation that took effect has its answer under way (`PasswordKnown`).
* `AuditShowsItsFilters`, `LintStaysCurrent`: unless fetches overlap, the one in flight
  was asked for what the page needs now, and with none in flight the page has it
  (`AuditFetches`, `LintsAlone`).
* `UpdatesAreTheirOwn`: the form in an edit dialog is that of the selected record
  (`EditsOwn`), through every opening, closing and submission.

`DisplayProofs`: that what the user is told is so.

* `ShownKeysWork`, from one invariant for each of the two pages. On the page of all
  devices a regeneration the page waits for is the only one in flight and is of the
  selected device (`OneRegeneration`), and none is in flight while the dialog with
  the key is open (`KeyInDialog`); `crossed` records the one way around it, through the
  row menu that the flag does not disable. On the page of one device nothing
  follows a regeneration before its own reload of the device has ended
  (`OneRegenerating`, `KeyFollows`).
* `ProviderAgrees`: while the provider is sure, one refresh at most is in flight, made
  with the token it has now, and its answer is still true if neither unlock nor
  lock is in flight (`RefreshIsCurrent`); with none in flight the belief is right
  already, and a lock that was done shows, unless an unlock is under way too
  (`BeliefFollows`).

`RowsProofs`: `RowsAreTheBackends`, from one invariant for each of the six pages and
tabs. A fetch is made after a write that was answered, never during one. So while
nothing but one fetch is in flight nothing changes what it reads, and its answer is
still true when it arrives (`FetchesFollow`). On a tab, whose calls outlive it, they are
also those of the tab that is there (`TabAlive`). The links keep their rows through a
save and change one of them, so there what is shown differs from the backend's at
most where the save in flight is for (`FetchAlone`, `SaveAlone`, `ShownButForSave`).

`CallProofs`: one call of the client, and the calls that the pages have in flight.

* `ClientInvariant`: `AttemptsCount` relates the counter, the phase and the effects:
  an attempt that has ended performed the call at most once, and a call that may
  not be repeated goes on only after an attempt that was turned away before it
  performed anything. `PostsOnce` and `GivesUp` follow, for every `MaxRetries`.
* `ClientRefines`: `ClientSpec => ClientImplementsCall`. An attempt the backend performs
  is the abstract `Performed` or `AnswerLost`, the last one turned away is `Refused`
  and everything between is a stutter.
* `FrontendTypes`: `FrontendTypeOK`, on every screen. It says what a call has in common,
  but how one may end depends on what the backend is asked, so the invariant
  (`CallTyped`) also says which calls each page makes (`PageOps`). Every handler of every
  page sends one of its page's, ends its own or neither (`Proceeds`), or looks at all
  of them because a page or a part of one goes away (`Moves`): one lemma per page, and
  two that both keep the invariant. Three pages need more: the form and the provider
  what `FrontendProofs` and `DisplayProofs` have of them, the dashboard how its first
  call ended (`DashboardOK`), which it has a case for each way of.

`WriteProofs`: `WritesComeOneByOne`. All a page knows of its writes in flight is one flag.
`WritesKnown` says that it is set whenever a write of a mounted part is under way: a
handler that sends one finds it clear and sets it, only the handler of that write
clears it, and a part that goes away takes its flag along but leaves its write to
nobody (`alive`). That a new part begins with the flag clear is right only because
none of its own is under way, for which `TabHidden` and `CardOK` say that a part which
is not on display is not mounted.

Every invariant and every action property that the passing runs check is stated by a
theorem, and so are the three refinements. Only model-checked: liveness under fairness
(`UseAloneRunsOut`, `WaitingEnds`, `LockedIsNoticed`, `ClientEnds`). Liveness and ENABLED are beyond the
prover, as is induction over data and anything about RECURSIVE operators, of which there
are none.

## 6. What is not modelled

Of the backend: cryptography and key derivation; request parsing and response
formats; HTTP and TLS; the per-user-session password cache (an option that is
off by default); databases other than SQLite; the rules on addresses, endpoints
and deletion; the device configuration; the rate limiter; partial imports;
audit events, metrics, logging, CSRF tokens, operational settings and the
configuration lint, which no other part reads; backups, which wrap export and
import in a file format; the scripts on the devices.

Of the frontend: what only displays (cards, badges, navigation, theme,
breadcrumbs, tooltips) and the proxy that forwards requests; pure functions on
strings (validation, CIDR, sorting, error texts), the inputs of the models being
those that pass them; filters and sorting that are applied to rows in place; the
seconds of the unlock dialog, so that expiry is a step of the backend that may
happen at any time; `requireUnlock` on pages that are mounted only while the
provider says unlocked, where it lets everything through; `use-crud.ts`,
which no page uses; two tabs of one browser,
which share nothing but the backend (the token is in session storage), so that
another tab is another client.

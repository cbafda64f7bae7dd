# OpenBastion in TLA+

OpenBastion is a web bastion: a NestJS server that authenticates people, decides which machine each
may use, and carries SSH and RDP sessions between a browser and those machines, recording and
auditing them. This directory holds TLA+ models of the server's stateful parts, the TLC
configurations that check them and TLAPS proofs of what they promise for every value of their
constants. `PROJECT.json` lists the runs, what each definition models (file and lines) and the
hazards the properties are for. Paths below are relative to `backend/src/` unless they say otherwise.

## 1. Inventory

The server is one Node process on one PostgreSQL database. Code between two `await`s is never
interrupted; everything else (other requests, socket events, timers, the far end of a channel, the
database's answers) happens in between. That sets the grain of every model: **an action is the code
from one await to the next**, a database statement or `$transaction` is atomic, and process memory
(maps, caches, timers) dies with the process while rows survive.

| component | state | operations | hard behaviour | what makes it correct |
|---|---|---|---|---|
| SSH gateway `terminal/ssh.gateway.ts`, `ssh.service.ts` | `sshSessions`, `userSessions`, `client.data.user`, per session: timers, poll, access cache | connect, start-session, input, resize, poll, disconnect | every handler awaits between reading and writing the maps; `client.disconnect()` re-enters `handleDisconnect` | no channel out of the gateway's reach, exact count per account, revocation ends sessions, every end audited and recorded |
| RDP gateway `terminal/rdp.gateway.ts`, `rdp.service.ts` | `sessions`, `userSessions`, `authReady` | the same, through guacd | the order of registration, timers and map differs from SSH; listeners attach late | the same |
| Guacamole protocol `terminal/guac-protocol.ts` | parse buffer | feed, encode | instructions cut at any place | every split of a stream parses to the same instructions |
| recorder and retention `terminal/recording/` | files, rows, map of active recordings | start, write, end, register/finalise (RDP), sweep, pin | ending while output arrives; sweep against pin and settings; crash | what is kept by the policy is never deleted, rows end |
| OTP `auth/otp-lockout.service.ts`, `auth.service.ts`, `totp.ts` | lockout row, replay map, pending and enabled secret | consume, verify, reset, generate, enable, disable | bursts, expiry of windows, restart | bounded guesses, no code accepted twice, a promised wait is enough |
| tokens `auth/refresh-token.service.ts`, `token-blacklist.service.ts`, `guards/jwt-auth.guard.ts`, `auth.controller.ts` | refresh-token rows, blacklist rows, `tokenVersion` | login, refresh, step-up, logout, revoke, cleanup | rotation against revocation, logout, reuse; expiry between two tests | one successor per token, revocation and logout end sessions |
| OIDC `auth/oidc.service.ts` and callbacks | handshake cookies, metadata cache | start, callback, discovery, invalidation | answers out of order, cache filled after invalidation | a callback completes the flow that began it |
| providers, LDAP, provisioning `auth/auth-providers.service.ts`, `ldap.service.ts`, `users/users.service.ts` | provider rows, external users, synchronised groups | create, delete, just-in-time provisioning, group sync | count-then-delete, find-then-create | one user per identity, no user without provider |
| access control `rbac/`, and the routes of `users/`, `machines/` | users, groups, machines, machine groups, permission rows | grant, revoke, move, join, leave, delete, `hasAccess` | checks and writes awaits apart; a verdict from two reads | owners cannot change their own access; a verdict is an entitlement |
| audit log `audit/` | hash-sealed rows | log, query, verify | what a changed table looks like to the verifier | intact rows verify, changed rows do not |
| settings `settings/` | rows and an in-memory cache | set, clear, read | concurrent writes; a value and its unit set apart | the cache is what the table says |
| web client `client/src/`: `context/`, `services/api.ts`, `pages/Session.tsx`, panes, tunnel | the user as last answered, the groups of sessions, the state of the tunnel | sign in and out, step up, navigate, open, close, drag and merge sessions | answers of several requests in any order; a 401 or 403 signs the interface out; panes unmount with their sockets | no page outlives the right to see it, no session gets lost in the sidebar |
| its pages: administration, history, players | one dialog per kind of entity sharing one `editingId`, timers of a replay, the seek under way | edit, delete, probe, permissions; play, seek, export | late answers act on the dialog open by then; late timers | what is saved goes home, a replay is the recording |
| vault, monitoring, throttling, bootstrap | none that matters, or a library's | | | not modelled: stateless, pure I/O or presentation |

**Interactions.** The gateways call access control, tokens (blacklist, `tokenVersion`), settings,
the recorder and the audit log. A poll of 30 s per session is the only way the administration's
changes reach an open session. Controllers call the services of their component and then the audit
log; no event bus or message queue exists, so all interaction is through calls, rows and the maps.

## 2. Modules

| module | models | checked by | proved in |
|---|---|---|---|
| `SessionBroker` | what a gateway promises, abstractly | implemented by both gateways | their proof modules |
| `SshGateway` | SSH gateway with the recorder it drives | `ssh` | `SshGatewayProofs` |
| `RdpGateway` | RDP gateway with the rows of its recordings | `rdp` | `RdpGatewayProofs` |
| `Channel` | the data path of an RDP session: guacd, parser, handshake, pipe, tunnel | `channel` | `RdpGatewayProofs` |
| `OtpLockout` | OTP verification, lockout, replay | `otp_lockout` | `AuthProofs` |
| `OtpEnrolment` | setting up and removing the factor, and who is asked for it | `otp_enrolment` | `AuthProofs` |
| `TokenLifecycle` | access and refresh tokens of an account | `tokens` | `AuthProofs` |
| `SignIn` | OIDC and LDAP sign-in, admin mode, provisioning, providers that change | `sign_in` | `SignInProofs` |
| `Rbac` | access control and what changes its inputs | `rbac` | `AdminProofs` |
| `RecordingArchive` | what the archive of recordings promises, abstractly | implemented by `Recordings` | `RecordingsProofs` |
| `Recordings` | recorder, retention sweep, pins, retention settings with their cache | `recordings`, `retention_settings` | `RecordingsProofs` |
| `Audit` | from an audited operation to the verdict on its row | `audit` | `AdminProofs` |
| `Client` | user, routes and requests of the web client, and the four modules below as its pages | `client` | `ClientProofs` |
| `Workspace`, `CastPlayer`, `GuacPlayer`, `Console` | session page, the two players, administration pages | `client` | `ClientProofs` |
| `Selection` | `Array.prototype.filter`, as the client uses it; in `Channel`, what is left of a stream | `client`, `channel` | `ListLemmas` |

Proofs that go together share a module: `AuthProofs` is about the three modules of the second factor and the tokens,
`AdminProofs` about access control and the audit log (hence `AuditSpec`, `AuditInit`), `RdpGatewayProofs` about the
gateway and its channel (`ChannelFairSpec`); `ListLemmas` holds what they need of sequences.

Each `MC*` module extends one of them with the symmetry sets and the values a `.cfg` cannot write.
Definitions marked "Mutant" in the modules are broken variants of the definition that follows or
precedes them; `PROJECT.json` pairs each property with one that it must reject.

### SessionBroker

A session is idle, cleared (access was found), open or ended. It opens once, after it was cleared,
and stays ended; `FairSpec` adds that a session which stays without access, or whose tokens stay
revoked, is ended (`Evict`). Both gateways map their state to `phase` with `PhaseOf` and share
`by`, `operators` and `stale`. There is no promise that a session ends when its socket does: a
socket that drops while its channel is being opened leaves it open, in both gateways (section 4).

### SshGateway

`sock`/`auth`/`slots` are the socket, `client.data.user` and `userSessions`; `active` is
`sshSessions`; `start[s]` is how far `handleStartSession` has come for session `s`; `closing[c]` the
same for `handleDisconnect`; `polling` and `checking` hold the session a poll or an input handler
looked up before it awaited. `operators` and `stale` are what the database says about access and
token versions. Handlers are split at their awaits: `StartSession` (test of the map), `CheckAccess`,
`OpenStream` (timers, map, start of the recording), `RowCreated`, `Announce` (audit, then the
listeners). `HangUp` is the synchronous part of a disconnection, because socket.io emits the event
inside `client.disconnect()`: a kill that deletes its entry first makes `handleDisconnect` find
nothing, and the model reproduces that. A cached denial is never read: the step that caches one
deletes the session, so no action stands for that branch.

Constants bound it: sockets used once, sessions started once. One machine is enough, as no state
couples machines; one account too, as all counters are per account. `Environment` names what the
surroundings may do (sockets that drop early, a second `start-session` at once, audit writes that
fail), so that a run says which of it a property survives. `resize` and `input` share their actions:
they differ in whether the poll is cleared, which is a choice in `AccessAnswered`.

* `StreamsReachable` - every open channel is the one the map holds for its socket, where polls, input
  and disconnection look. Holds under early drops and failing audits, false with parallel starts.
* `SlotsExact` - the counter against what is owed: the sockets that are counted and live (`Live`), and the slots
  nobody will return (`Left`: let in after the socket had gone, or closed by a `handleDisconnect` that stopped at its
  audit event). It is never above that, and below by at most one for each refusal (`Refused`), so that it drifts for
  these three reasons only, each of which section 4 names. What the comments want of the counter - no more sockets of
  an account than the limit, none counted when all have gone - is not so: the code has all three drifts.
* `EndsAccounted` - an orderly end is audited and taken out of the recorder, whichever step of the
  start it met.
* `ImplementsBroker` - `SessionBroker!FairSpec`: a revocation that stays ends the channel, whether its user types or
  only watches, and whatever audit writes fail on the way. `GivenUp` is the exception: a `handleDisconnect` that stops
  at its audit event (`CloseFails`) has cleared the timers, so the gateway no longer looks after that channel, and the
  refinement counts it as ended.

The run `ssh` has two sockets of one account and a limit of one, so that either may be refused, or drop before it is
let in, while the other holds the slot. Both sessions are of one socket (`BusySpec`): two are the least in which a
handler can hold a session that is over while another runs, and sessions of two sockets meet nowhere but in the
counter, which the other socket contends for. `early_disconnect` and `audit_failure` are on; `parallel_start` is off,
as under it `StreamsReachable` is false (section 4).

*Fairness* (`FairSpec`): awaits settle and intervals fire (weak fairness of the handlers' steps and of
`PollFires`). A poll's query may meet a database error, which the code calls transient; strong
fairness of `PollAnswered` says that not every poll of a session does. Nothing is assumed of users,
administrators or the far end.

### RdpGateway

The variables are those of `SshGateway` where the code has the same state; the differences are the
point of the module. `start-session` waits for `authReady`: `RequestSession` is its arrival,
`StartSession` the settling of the promise, and both decide by `Admission`, which asks for a user and
a free entry but not for a connected socket. `auth = "over"` is a socket refused for the limit, whose
`client.data.user` is set all the same. `Register` is the await of `registerRdp`, with the timers
armed and the map not yet written. `handleDisconnect` logs first (`LogClosed`), then finalises the row
(`Finalise`), then disposes (`Dispose`); if the log rejects it stops (`CloseFails`) with its timers
cleared and the channel open, which is `GivenUp` as in `SshGateway`.

The run `rdp` has two sockets, one session and a limit of one, so that the session's own socket may
be the refused one; `early_disconnect` and `audit_failure` are on. `register_failure` is off:
under it `StreamsReachable` is false (section 4). `Starting` keeps a socket from sending a second
`start-session` while one is under way, as the client's tunnel does not. The counter is the same code
as in `ssh.gateway.ts`; its exactness is checked in `ssh` only. Fairness is that of `SshGateway`.

* `StreamsReachable` - as above, for channels whose recording is registered.
* `EndsAudited` - a session that was announced and left the map other than by a denial is audited as
  closed, also when the end met an await of the start.
* `ImplementsBroker` - `SessionBroker!FairSpec`.

### OtpLockout

One account; a request is a call of `verifyOtp`. `Gate` reads the row, `Increment` is the upsert and
the test of its result, `SetLock` the second statement of the overflow branch, `Match`/`Mismatch` the
test-and-set of the replay map (no await inside), `Reset` the deletion of the row. Time is counted in
TOTP steps, which are also the unit of the backoff. `Restart` loses the replay map and the requests
under way and may happen at any moment. A cap of 2 with 4 requests lets a burst go past the cap twice;
a replay TTL of 3 steps, the least the assumption allows, with a horizon of 6 covers an eviction while a code
is still in the window of another. `BackoffMax` 2 lets the doubling meet its cap.

### TokenLifecycle

Tokens are named after the request that issues them. A request walks through the awaits of its handler
(`pc`); kinds of requests with the same steps share them. `RevokeEverything` is the `$transaction` of
`revokeAllTokens`, also run by `KillFamily` when `rotate` sees a reuse. `root`, `birth`, `raced`,
`loggedOut` and `late` are history for the properties. `MaxVersion` bounds the revocations at one: each
is the same event, and one suffices to separate before from after. Four requests cover a login, two
uses of its refresh token and one that meets the result. Only one account: nothing couples accounts.

`OneHolder` - a line of refresh tokens has at most one that can be exchanged, or one exchange under
way. `RevocationHolds` exempts what was under way at the moment of a revocation and what descends from
it, as a successor about to be inserted survives (section 4). `LogoutHolds` says what is left after a logout: no socket
is admitted with the JWT, as a socket's JWT is verified after its blacklist lookup, and the guard, which
does it the other way round, admits it only if it expired between the two tests.

### Rbac

`perm` is the table `Permission` as a function of (user or group, machine or machine group), which its
unique constraints justify. A request of `permissions.controller.ts` walks `machine` and `user`
(the two reads of `hasAccess`), `target`, `find`, `write` or `delete`; a PATCH of a machine by its owner
walks `machine`, `user`, `assign`. Membership, grouping and deletion are administrators' single
statements, machine groups being removed in two. `found = "lost"` is a row read and deleted since.
`moved` and `raced` mark, in a request, that the machine or the actor's groups changed under it.
Abstractions: entities exist from the start and their ids are never reused (uuids), roles do not
change, the `include` of one Prisma query is one snapshot. `Entitled` is the list of machines a user is
shown (`findAllAccessible`), the independent reading of the permission table that verdicts are compared with.

One user, one administrator, one group, two machines, a machine group and one request at a time is
the least instance in which a machine is reached by all four routes and another machine's rows are
there to be confused with.

* `OwnWritesKeepOwnAccess` - what an owner grants and revokes leaves the owner's own access alone.
* `VerdictSound` - a positive verdict on a machine in a group is one the list of machines shares.
  A machine in no group is exempt: the code answers by the rows on other machines there (section 4).

That rows never refer to what is deleted (`RefsLive`, part of `TypeOK`) is the work of PostgreSQL's foreign keys, not of
the handlers; the proofs use it and no run claims it.

### Channel

What `RdpGateway` takes for one outcome, `createStream`, is here instruction by instruction, and so is what
flows afterwards. guacd's output is a numbered stream of pieces, `Size` to an instruction; `read` is how many
have reached the process, in chunks of any length. `HandshakeChunk`, `GapChunk` and `PipeChunk` are what a
chunk meets in the three stages: `dataListener` with the parser, nobody, and the gateway's listener. `told` is
what guacd has been sent; `wire` the events on their way to `SocketIoTunnel`, whose state is `tunnel` and whose
parser has received `got`. `lost` records the pieces that no listener saw, `shaken` and `heard` how many had been read
when the handshake ended and when the gateway's listener was attached, `Crashes` an `'error'` that none takes.
Two pieces to an instruction are the least that can be cut; four instructions let one be read by the handshake, one come
with it in a chunk, one meet the gap and one the pipe. Two messages let two checks of access overlap.

* `PipeFaithful` - once the session is piped the browser gets, once and in order, all but `Missed`: the whole
  instructions that came complete in the handshake's last chunk, and what arrived before the gateway listened. Never
  more is lost than that, never less, and only the second kind can garble the rest. guacd hears the whole handshake
  before any input, and no input twice.
* `EndReachesBrowser` - when the connection to guacd has ended, the tunnel gets to know.

*Fairness*: the 15 s timer of the handshake, the 4 h timer of the stream and `handleDisconnect` fire, the awaits
between handshake and pipe settle, what was emitted arrives. Nothing is assumed of guacd, and of the user
nothing either: an end that nobody listened to reaches the browser by `Expires` alone.

### OtpEnrolment

One account again, seen from the other side: `row` holds what `User` says about the factor (enabled, secret, whether
stored in plain text by an earlier release, pending secret), `req` the requests with what each has read before
its await, `last` is `otpLastCounter`. Secrets are numbered as `generateOtp` makes them; a secret is `shown` when its QR
code was answered, and an answer may be lost. `enableOtp`, `disableOtp`, the administrator's removal, both
steps of a login and the step-up are split at their awaits, and the lazy re-encryption of a plain secret
writes the secret that was read. Here the lockout may refuse at any moment, as `OtpLockout` has it. Three requests
let an enabling, a generation and a sign-in overlap; three secrets let an enabling overwrite another; a
horizon of 4 steps outlasts the window of a code (one step each way).

* `HolderHasSecret` - as long as the factor is on, its secret is one the browser was shown.
* `FactorHolds` - a sign-in or step-up that is granted has brought a code unless the factor was off at some time
  while it was under way. OIDC is not among the sign-ins: it never asks (section 4).
* `CodesOnce` - a code that was accepted is not accepted again before a restart, unless an enrolment has put
  the remembered counter back, which the code can do (section 4).

### SignIn

One browser with its cookie jar: `jar` holds the two handshake cookies, `session` the `jwt` cookie, whichever tab wrote
them last. A flow is an OIDC login, an OIDC step-up into the admin mode, or an LDAP login, and walks through
the awaits of its requests: provider read, discovery, redirect, exchange, the find-then-create of the account
(`LookUp`, `PickHandle`, `Create`, where the unique constraints decide). `cache` is `configCache`, keyed by issuer and TLS mode; an update of the
provider writes the row first and clears the cache afterwards (`stale` between the two), and a deletion counts
accounts before it deletes (`found`). The identity provider answers who it likes among `People`, with a fresh
proof only if asked by `prompt=login`. Two flows are two tabs; a third account lets two first sign-ins both
create; two changes by administrators let a provider be changed and changed back.

* `SessionIsProven` - the browser is signed in as the one who proved their identity in the flow that signed it in.
* `AdminModeIsFresh` - the admin mode was proven afresh in a flow of its own, by the person whose account asked.
* `OneAccountEach` - one person has one account, whatever first sign-ins coincide.
* `MetadataOfIssuer` - a request never uses the metadata of another issuer than that configured when it read
  the provider.

### Recordings and RecordingArchive

`RecordingArchive` says what an archive is for: a recording grows while it is open, is sealed with the digest of all it
holds, does not change after that, and only what is sealed is removed. Of a recording somebody else writes it promises
less: the digest, if there is one, is of a part it held, and it may grow after it was sealed. `Recordings` implements it, the
SSH sessions being its own and the RDP sessions, which guacd writes, the others: `life[s]` is how far
`start`, `end` or `finalizeRdp` has come, `file` and `written` what is on disk and what was given to the stream, `active` the
recorder's map, `rows` with `endedAt` and `sha256` the table. guacd creates its file at some time while the session is
there, or never, and writes it whenever it likes (`GuacdCreates`, `GuacdWrites`), since the gateway destroys its socket
only after `finalizeRdp`. The sweep is `SweepStarts` (policy, cutoff and the
active files are read), `SweepLists` (one batch), then `Unlink` and `DeleteRow` one by one; each may be
refused. `table` and `cache` are the two keys of the retention and what `SettingsService` holds of them; a request to set
it is two writes, each to the table and then the cache, one to clear it a single write of both keys; requests overlap. When one
half fails the request is answered with the error and the other half goes on unattended. `crossed` and `promised` are
histories: the keys on which requests met, and the policy that was answered with success. A pin
reads its row and writes the opposite. `Boot` is the one description of a restart, taken by `Crash` and by
`WriteAfterEnd`, the unhandled stream error that also ends the process.

Bounds of `recordings`: one recording from before and one new one, which may be SSH or RDP; a batch of 1 makes the sweep
come back for the rest; a clock of 2 lets a recording expire; one fault may fall on any step; one request clears the
retention or sets it again. `retention_settings` leaves the recordings alone and takes three requests with two policies that differ in
both keys and two faults, enough for a half-failed request, its retry, and a third. *Fairness* (`recordings`): the hourly cron
fires and its promises settle (weak fairness of `SweepStep`); the faults are bounded, which stands for a disk and a
database that do not fail for ever.

* `ImplementsArchive` - the refinement, output during `end()`, guacd writing after the hash, hashes that fail, crashes,
  failing unlinks and sweeps included. The hash of a finished SSH recording is that of its file; of an RDP one the
  archive promises no such thing (`foreign`), as guacd writes on after the hash (section 4).
* `PinsOutlastSweeps` - the only sweep that can delete a pinned recording had begun before the pin was set.
* `SettingsDurable` - where requests do not meet on a key: the cache is what the next start will load once no write of the
  key is under way, and a policy answered with success is in table and cache, value and unit, until the next request.
* `ExpiredGo` - nothing stays for ever expired and unpinned.

### Audit

A call is an audited operation: its mutation (`Commit`), then each of its rows, sealed (`Seal`, after the actor was
read) and inserted under the foreign key of the actor (`Insert`), with the answer to the caller after the last awaited
one. `Events` lists what the controllers, the gateways and the interceptor log of each kind of operation. A row's
metadata is what the seal can tell apart: its ids, a key without a value, the order of the keys; `Jsonb` is what
PostgreSQL gives back of it. Deleting an account sets `userId` of its rows to null, and `Alter` is anybody
with access to the table, who edits a column the seal covers (`action` stands for these), the one it does not
(`authMethod`), or takes the seal away. Rows of two earlier releases are there from the start. Two accounts, two
operations, one fault and two edits (`MaxEdits`) let an actor be deleted between the sealing and the insertion of its
row, and a row be edited twice.

* `LogMatchesChanges` - no row of an operation that did not happen; no answer of success without its row.
* `FilterFindsAll` - an operation answered with success is found by who did it and by each account and object it was
  done to (`About`, which is said of the operation and not of its rows), deleted accounts included.
* `VerdictTells` - of the rows that keep their seal those with a changed covered column are reported, and of those of
  living accounts no others, whatever else was edited.

### Client, Workspace, CastPlayer, GuacPlayer, Console

`Client` is the shell: `user` and `loading` of `AuthContext`, `route`, and the authentication requests under way, whose
answers arrive in any order. `Becomes` is every change of user or route: redirects settle, then what is no longer shown
loses its state (`Unmounted`) and what comes up starts afresh (`Mounted`). The client does not refresh a token and
retry: a 401 or 403 of almost any request signs the interface out (`Unauthorized`). The server is free to answer
anything; a page is used while no authentication request is under way (`Quiet`), as an answer does nothing else to a page than show or unmount it.

* `Workspace` - groups of sessions as the sidebar has them; which panes are mounted follows from the active group
  (`Render`). The grip on a tab ends in a reordering, a merge or an extraction.
* `CastPlayer` - the terminal player: a run writes what lies before the position and sets a timer for the rest; timers may be late. The timers of a
  player that was left fire on refs of its own and are not followed.
* `GuacPlayer` - the desktop player: an interval, the buttons and the export all seek one recording, asynchronously; the
  position shown follows the frames that are reported (`OnSeek`), what the display holds (`picture`) the seeks that are done.
* `Console` - the pages that edit users, groups, machines, machine groups and providers, and the permission dialog:
  forms known by the entity they were filled from, requests answered when another dialog may be open.

`PagesGuarded`: nothing of a page outlives the right to see it. `WellPlaced`, `SessionsKept`, `TerminalReportsKept` and
`LayoutShowsFocus`: the sidebar stays consistent, only the user takes a session away, a terminal's end shows on its tab
even after a merge, a change of layout leaves the focus visible. `ReplayIsFaithful`, `OneDriver`: a replay is its
recording. `SavesGoHome`: what is saved goes to the entity it was read from, machines excepted (section 4).

Bounds: three sessions (two terminals, one desktop) make every drop possible that has a different group on each side;
four group ids let one be drawn that nothing refers to; two requests let an answer meet another dialog. Two of each
kind are needed where one may be taken for another; the machines page runs the code of users and
groups there, and has one machine and one machine group.

## 3. What is proved

Proofs are in the `*Proofs` modules; each invariance proof has a lemma per inductive part, a step per
action and a last step by PTL.

| theorem | argument |
|---|---|
| `AuthProofs!AttemptBoundHolds` | `attempts` is at least the number of requests admitted under the current row, because the test uses the value the increment returned; admission stops at the cap |
| `AuthProofs!NoReplayHolds` | what the process has accepted is at most `lastCounter`, or older than the window once the entry is evicted; needs `ReplayTTL >= 3` |
| `SshGatewayProofs!StreamsReachableHolds` | `ReachableInv`: one start at a time per socket, none while the map has an entry, lookups held across awaits, or by a `handleDisconnect` that stopped, belong to their socket (`ClosingOwn`), a channel exists only from `OpenStream` on; assumes no parallel starts |
| `SshGatewayProofs!ImplementsBrokerSafety` | `ReachableInv` and a step-by-step map: `OpenStream` starts from "cleared", every other change of a stream ends it; `CloseFails` is where a session is given up, no other step changes `GivenUp` |
| `RdpGatewayProofs!StreamsReachableHolds` | the same invariant with two parts more: a session past `authReady` has a user, so no call is waiting while one runs (`Settled`); a session being registered is in no map and in no handler (`Opened`). Assumes that rows of recordings can be inserted |
| `RdpGatewayProofs!ImplementsBrokerSafety` | as for SSH |
| `AuthProofs!OneHolderAlways` | a token that is held, or a successor about to be created, has spent its predecessor |
| `AuthProofs!RevocationHoldsAlways` | what a request under way will sign or insert is of the version at its proof of identity, or it is `raced` |
| `AuthProofs!LogoutHoldsAlways` | a JWT that was logged out is on the blacklist as long as it is valid, and a request past its lookup has seen that or is `late` |
| `AdminProofs!OwnAccessKept` | a request past `CheckTarget` aims outside `Own(actor)` unless `raced` |
| `AdminProofs!VerdictIsSound` | the group read by `ReadMachine` is the machine's still, unless `moved` |
| `SshGatewayProofs!EndsAccountedHolds` | `EndsInv`, on top of `ReachableInv`: what is announced has a channel (`Announced`); a channel off the map was cut, or is logged as closed and out of the recorder (`Accounted`); `handleDisconnect` has left the recorder before it logs (`RecorderLeft`) |
| `RdpGatewayProofs!EndsAuditedHolds` | the same, except for a channel that is not yet in the map, with the order of this gateway: it logs before it finalises (`LoggedFirst`). Assumes that rows of recordings can be inserted |
| `AuthProofs!HolderHasSecretAlways` | `SecretsShown`: the secret of the row, and the one a request has matched a code of, were shown to the browser |
| `AuthProofs!FactorHoldsAlways` | `FactorKept`: while the factor is off every request under way is `lapsed`; one about to be granted is that or has brought a code |
| `AuthProofs!CodesOnceAlways` | `CounterCovers`: codes that were spent are at most `last`, until an enrolment lowers it |
| `RecordingsProofs!ImplementsArchiveHolds` | `ArchiveInv`: the digest an SSH row is about to get is that of a file no action writes any more, that of an RDP row is of a part of the file; what is in the batch has ended, and what is about to be deleted has no file |
| `RecordingsProofs!PinsHold` | `PinInv`: what is in the batch and pinned was pinned since the sweep began |
| `RecordingsProofs!SettingsDurableAlways` | `SettingInv`: until every key is crossed one request at most is to be answered (`OneToAnswer`); of a key that is not crossed at most one write is under way, the two copies differ only between its two steps, and the request to be answered has written the key or has still to (`KeyOK`) |
| `SignInProofs!SessionIsProvenAlways`, `AdminModeIsFreshAlways` | a flow past its proof works on the account of the person who proved it; the sudo cookie names the account its flow began with; ids are never reused |
| `SignInProofs!OneAccountEachAlways` | `Create` happens when no account has the person's e-mail, whatever was found before |
| `SignInProofs!MetadataOfIssuerAlways` | an entry of the cache is the document of its key, also one stored after the provider changed |
| `SshGatewayProofs!SlotsExactHolds` | `SlotsInv`: the balance holds for every account (`Counts`); `handleDisconnect` runs once per socket (`GoneWhenClosing`), and whatever a session or handler refers to is a socket that was let in (`ActiveIn`, `CheckingIn`, `ClosingIn`, `StartedIn`), so each release gives back a slot of its own. A step moves one socket between `Live`, `Left` and `Refused` (`Only`, `OwnerCounts`). No assumption on `Environment` |
| `AdminProofs!LogMatchesChangesHolds`, `FilterFindsAllHolds`, `VerdictTellsHolds` | `AuditInv`: the awaited rows behind an operation's stage are in the table (`CallOK`); a row is of an event of a committed operation and names its actor and objects (`TellsRight`); its digest, if it still has one, is of what it holds, unless a covered column was altered or its actor's account is gone (`SealedRight`); ids are unique (`OneRowEach`). `AnsweredCalls` besides, and `FirstTells`: the first row of an operation, an awaited one, names all the operation is about |
| `ClientProofs!PagesGuardedHolds` | `GuardInv`: the route is always where the guards settle, and what has state is what the guards show |
| `ClientProofs!WellPlacedHolds`, `SessionsKeptHolds`, `LayoutShowsFocusHolds` | `PlacedInv`: groups are non-empty, with distinct ids, disjoint and repetition-free, the focus inside; one lemma per operation of the sidebar (`WellMoved`) says which sessions its result holds, from lemmas on filtering, removing, replacing and reordering a sequence |
| `ClientProofs!TerminalReportsKeptHolds` | `PanesInv`: a mounted pane is of a session of the group shown, and an ended terminal's tab says so |
| `ClientProofs!ReplayIsFaithfulHolds` | `TimesInv`, `ReplayInv`, `ClipInv`: there is a rest of the output that the screen lacks and the timers hold; the output before and from a time, and frame by frame, is the whole output, since times do not decrease |
| `ClientProofs!OneDriverHolds` | `PlayingInv`, `ExportInv`: while an export waits for a seek, that seek goes to its frame, and the display shows that frame once it is done |
| `ClientProofs!SavesGoHomeHolds` | `EditingInv`, `PendingInv`: the open form is of the entity `editing` names, and a request under way carries the form of its own target |
| `RdpGatewayProofs!PipeFaithfulHolds` | `LossInv`: in the gap and in the pipe what is lost is exactly what nobody read so far; a session whose stream is open is in the map, so the pipe drops nothing; pieces are garbled only after a loss in the gap, as what is left when whole instructions go is gapless (`RestFollows`, `MultipleEnds`). `PathInv`: what the browser has, followed by what is on the wire, begins the pieces that were spared (`Readable`); it is nothing before the pipe, the leftover is all of it in the gap, and while the browser is there nothing of it is missing. `SpeechInv`: a message that waits for its check, or is still to come, has not been written; who is mapped has been greeted. By lemmas on filters, on laying sequences end to end, and on beginnings of sequences |
| `SshGatewayProofs`, `RdpGatewayProofs`, `RecordingsProofs`: `TypeCorrect`; `AuthProofs`: `LockoutTypeCorrect`, `EnrolmentTypeCorrect`, `TokenTypeCorrect` | the counters stay in `0..MaxSessions` |

Assumptions are those named in the component modules (`NoSession` is no session, positive limits,
disjoint kinds of entities; for the client, `CastAssumption`: the events of a recording come in the order of their
times, which are the server's clock when the recorder appends them, so as long as that clock is not set back during a
recording, and the player has at least two speeds; for the channel, `ChannelAssumption`: guacd sends whole
instructions of `Size` pieces; `None` names no account) and, where a
theorem says so, what `Environment` leaves out.

`filter` is modelled by `Selection!Kept`, a recursive function on `0 .. Len`. What it keeps, that it splits a sorted
sequence in two and that it goes through a concatenation part by part is proved from its recursion equation by a least
counterexample (`ListLemmas!LeastNumber`, by the well-foundedness of the order on the numbers); in the same way what
`FlattenSeq` makes of a sequence of sequences with one more at its end, or less its first (`FlatAppend`, `FlatFirst`).

Only model-checked: `ExpiredGo`, `EndReachesBrowser` and the fairness part of `ImplementsBroker`, as liveness is
out of the prover's reach. Every invariant and every action property that a run checks is proved.

## 4. Where the code and its documentation disagree

Met while modelling and present in the models, where a property says by its exception what it does not promise.

Gateways and channel:

* a refused socket gives back a slot it never took, after which more sockets than the limit stay connected
  (`terminal/ssh.gateway.ts:174`; the comment at `:170` and `docs/RDP.md:122` limit sessions per user); in the RDP
  gateway, `start-session` of a refused socket goes on and opens a channel (`terminal/rdp.gateway.ts:179`, `:245`);
* a socket that drops while it is being authenticated keeps its slot for good (`terminal/ssh.gateway.ts:182`;
  `early_disconnect`), and so does one whose closing cannot be audited (`:204`);
* a socket that drops while its channel is being opened leaves the channel open, and the four-hour limit, which
  only disconnects the socket, does nothing (`terminal/ssh.gateway.ts:319-326`);
* two `start-session` of one socket at once open two channels, one of them in no map
  (`terminal/ssh.gateway.ts:272`; `parallel_start`);
* a kill by input or resize is not audited and leaves the recording among the active ones
  (`terminal/ssh.gateway.ts:512`; `EndsAccounted` exempts streams that were cut);
* if `registerRdp` rejects, the channel stays open and in no map (`terminal/rdp.gateway.ts:385`;
  `register_failure`); if the audit of a disconnection rejects, it stays open without timers (`:204`, as in `ssh.gateway.ts:204`; `GivenUp`);
* what guacd sends between the handshake and the gateway's listeners is lost, as are the instructions that came
  complete in the handshake's last chunk (`terminal/rdp.service.ts:171-175`: "without ever dropping bytes"); an
  error in that gap has no listener and ends the process (`Crashes`), an end is noticed by a timer only;
* messages of the browser that wait for `hasAccess` may be written in another order (`InputChecked`); an
  input asks for access again after 5 s where the comment says 30 (`terminal/rdp.gateway.ts:481`).

Identity:

* after the cap every later attempt is refused, however long it waits (`auth/otp-lockout.service.ts:73`; the
  message at `:86` announces a wait);
* two enablings of the factor at once, or one over another secret, put the remembered counter back, so a code that was
  consumed is accepted again (`auth/auth.service.ts:226`, against the comment before it; `lowered`); the lazy re-encryption may write
  an old secret over a new one (`:194-198`); enabling and disabling sign new tokens with the version they
  re-read, also for a session revoked meanwhile (`auth/auth.controller.ts:523`, `:541`); OIDC sign-ins never ask for the factor of an account that has it (`:725-742`);
* a revocation does not reach the successor a rotation is about to insert (`auth/refresh-token.service.ts:83`;
  `README.md:242-243` and `users/users.service.ts:420-424` say atomically; `raced`);
* a JWT that expires inside the guard passes its blacklisting (`auth/guards/jwt-auth.guard.ts:41`; the
  exception in `LogoutHolds`);
* two first sign-ins may pick the same free user name; the second fails, and if it is an LDAP login its
  rejection is caught by nobody and ends the process (`CreateRefused`); a provider is counted as unused and then deleted, and
  an account made in between belongs to none (`DeleteProvider`); a response clears handshake cookies that another tab set.

Access control:

* a machine without a group matches permission rows whose machine group is null, which are those of other machines
  (`rbac/rbac.service.ts:29`, against the comment at `:50`);
* an owner who joins the target group between check and write changes the own access
  (`rbac/permissions.controller.ts:74`; `raced`);
* of two concurrent grants of one pair the second fails on the unique constraint, though they are
  meant to be upserts (`rbac/permissions.controller.ts:264`; `Writable`).

Recordings, settings, audit:

* output during `end()` is written to an ended stream, which has no error listener, and ends the process
  (`terminal/recording/session-recorder.service.ts:150`; `WriteAfterEnd`); a crash leaves rows that never end;
* a pin set after the sweep has listed its batch does not save the recording (`recording-cleanup.service.ts:40`;
  the exception in `PinsOutlastSweeps`);
* a retention is two upserts, so a sweep may use a value with the unit of another policy (`settings/settings.service.ts:76`);
  concurrent settings requests may leave the cache other than the table (the exception in `SettingsDurable`);
* the hash of an RDP recording is taken before guacd is told to stop, and is none when the file cannot be read: the row may
  carry a hash its file does not have (`rdp.gateway.ts:219`, against `src/README.md:26`);
* an untouched row is reported as tampered when its actor's account is gone or when it has no entities
  (`audit/audit.service.ts:282`, against the comment at `:96`; the exception in `VerdictTells`); rows are sealed one by one, so a removed
  row is not noticed; a mutation stays when its row cannot be written;
* a row edited in the database is not reported when its `hmac` was set to null or the column is `authMethod`
  (`audit/audit.service.ts:130` and `:626`, against the comment at `prisma/schema.prisma:194`);
* creating a user leaves no row at all (`users/users.controller.ts:44`, against `src/README.md:28`).

Web client:

* a wrong code in the step-up is a 401 and signs the interface out, though the comment at
  `client/src/services/api.ts:45` says otherwise; a late `/auth/me` after a logout signs it back in, and one that
  times out signs it out (`MeAnswered`);
* showing another group unmounts the panes of the first, whose connections drop while the tabs say connected; a desktop
  pane reports to the group it was mounted in, so its end is lost after a merge; a group of more than four
  sessions hides the fifth (the exceptions in `TerminalReportsKept` and `FocusShown`);
* a late probe brings back the form of another machine, and a save answered under another dialog turns the next
  save into a creation (the exceptions in `SavesGoHome`); a late list of permissions shows under another machine's
  heading, where deleting a row withdraws it from the machine it is of;
* the terminal player keeps the old speed until the next play, and play at the end does not start over; in the desktop
  player a seek to the end while playing starts over.

## 5. Not modelled, and what is left

* vault, monitoring, throttling, bootstrap: no state the rest depends on, or a library's (`PROJECT.json` has the reason for each);
* synchronising the groups of an external account, local passwords, creating accounts and machines on the server: single
  statements after validation, and their races are last writer wins;
* the dashboard, the log and settings pages, pins and search of the client: they show what they fetched; dividers, menus and layout of the session page;
* in `Audit`: paging, categories, text search and labels; in `Channel`: the oversized message, which closes the tunnel without ending the session.

Next, most useful first: group synchronisation against the administrators' changes of memberships.

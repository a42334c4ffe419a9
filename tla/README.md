# A TLA+ verification project for the Bitwarden internal SDK

The repository is a Rust workspace of some sixty crates behind the Bitwarden
clients. Most of it transforms data (encrypts, converts, calls a server). The
parts whose correctness depends on the order of things are modelled here:

* `crates/bitwarden-ipc`: messages between desktop app, browser extension, its
  popups and web pages, over an encrypted and possibly unreliable transport;
* `crates/bitwarden-shared-unlock`: a protocol over it that keeps the lock state
  of a user the same on all clients;
* `bitwarden_license/bitwarden-access-connector`: a service that rotates the
  passwords of privileged accounts, with a session at the identity server, jobs
  claimed from the server, and targets that may fail half-way;
* `crates/bitwarden-auth` (token renewal) and
  `crates/bitwarden-server-communication-config` (load balancer cookies): the
  two middlewares that every API request passes.

## 1. Inventory

| Component | State | Operations | Interacts with | What is hard |
|---|---|---|---|---|
| Noise crypto provider (`crypto_provider/noise`) | session per destination in a repository, one `crypto_state_guard`, nonces | `send`, `perform_handshake`, `receive` | transport backend, IPC client | sessions are read, copied and saved across awaits; the loop changes them without the guard; crossing handshakes; timeouts; reloads with a volatile or a durable repository; dropped sends; repeated frames |
| Fragmentation (`fragmentation/`) | incomplete messages by source and id, their deadlines | `Fragments::next`, `Reassembler::process` | provider below, client above | limits shared by sources, two timeouts, lost and interleaved fragments |
| IPC client (`ipc_client.rs`, `ipc_client_ext.rs`) | token slot, weak channel, subscriptions | `start`, `send`, `broadcast`, `subscribe`, `request`, the processing loop | everything of the crate | start and stop from several tasks; an answer that comes before anybody waits; full buffers; a broadcast that fails half-way |
| IPC handlers (`rpc/exec`) | registry behind a read-write lock, one task per received request | `register`, `handle` | IPC client | a handler holds the read guard while its user thinks |
| Shared unlock (`bitwarden-shared-unlock`) | recorded state and date per user, destinations, active peers; persisted: the date of the last lock | `receive_message`, `handle_device_event`, the sync timer, `set_destinations` | IPC client, the client's driver | three tasks per client interleave at awaits, reloads inside a driver call, clocks, lost syncs, who may be given a key |
| Token renewal (`bitwarden-auth/token_management`) | token and expiry behind a mutex | attach, renew, retry after 401, `set_tokens` | API client, identity server, login | concurrent 401s, renewal that fails or is dropped, a login that does not take the mutex |
| Server communication config (`bitwarden-server-communication-config`) | configuration and cookies per host in a repository, `in_flight` map with one `Notify` per host | the middleware, `acquire_cookie`, `get_cookies`, `set_communication_type` | platform, API client, application | one sign-in for many redirected requests, wake-ups, read, wait for the user, save |
| Connector session (`bitwarden-access-connector/src/auth`) | phase, bearer, organization key, one mutex | `new`, `bearer`, `force_refresh`, `renew_with_backoff`, `phase`, `close` | identity server, every API call of the connector | the mutex is held across the identity call; timeouts drop renewals; several tasks meet one 401; shutdown |
| Credential rotation (`bitwarden-access-connector/src/executor`) | the attempt, its retries, the gate | claim, pre-flight, rotate, verify, vault write, terminate, report | job server, vault, target, session | leases, lost and late calls, crashes, edits of the item, several connectors |
| Sync, state, key store, threading | handlers, repositories, keys by id | register, run, look up | all crates above | partial failure of a chain of handlers |
| Everything else | none of its own, or the server's | conversions, requests | | |

`PROJECT.json` lists every component with its status, and under `hazards` what
is hard to test, each at its line and with the property that would catch it.

What makes the modelled components correct:

* Noise: a nonce is never used twice under one key (which fails where a send is
  cut off before it saves, see below, and nowhere else); nothing is delivered
  twice or out of order; no client blocks for good in a handshake.
* Shared unlock: records behave as last-writer-wins registers; nothing is
  invented; devices converge; a key goes only where the user shares it, but for
  syncs that were past their check when the user stopped, and never to a page of
  another vault; a restart does not lock again and does not forget a lock; the
  vault and the persisted date agree with the record.
* Fragmentation: messages are delivered whole, at most once; buffers keep to
  their limits; a timely message that its own source had room for gets through
  whatever others do.
* IPC client: one loop; a fatal error stops it and nothing else does; an answer
  is not missed; a request does not outlive its client; a broadcast accounts for
  every endpoint.
* IPC handlers: a handler that waits delays nobody else for good; registry and
  handlers do not block each other.
* Connector session: an active session has bearer and key, an ended one has
  neither; a refused bearer is not sent again; many callers cause one renewal; a
  closed or revoked session stays so; every call ends.
* Rotation: what is recorded is true of target and vault; what changed the
  target is recorded; a user's edit survives; every attempt ends.
* Request pipeline: one sign-in and one renewal for many requests; no lost
  wake-up; no retry with the refused token; every request ends.

## 2. Plan

Written, in this order: `NoiseSession` and its proofs, first of nonces, then of
order; `LockStates`, `LockRegister`, `SharedUnlock` and its proofs;
`Fragmentation` and its proofs; `SessionPhases`, `ConnectorSession` and its proofs; `CredentialRotation` and its proofs;
`HttpRequests`, `TokenMiddleware` and `CookieMiddleware`, composed by
`RequestPipeline`, and its proofs; `IpcClient` and `RpcHandlers`, composed by
`IpcService`, and its proofs.

What is left, most important first:

1. `CredentialRotation` composed with `ConnectorSession`: the rotation now sees
   a session as live or revoked.
2. The proactive cookie strategy of WASM builds.

## 3. Modules

### NoiseSession

One action per await of `crypto_provider.rs`. `sessions[n][d]` is the session
repository, `guard[n]` the mutex, `snd[n][s]` the local variables of a task in
`send()` (its `copy` is the session it works on), `rcv[n]` those of the receive
loop, `inbox[n]` the frames a client was handed. A handshake is named by its two
ephemeral keys, each of them by who drew it, for whom and as which; a symmetric
key is a handshake and the role that encrypts with it. That is all of the
cryptography: a frame decrypts under its key and nothing else, and a
`HandshakeFinish` only answers the start it was made for.

| Code | Action |
|---|---|
| `send`: lock, first read, expiry, second read and encryption, transport send, save | `SendLock`, `SendGet`, `SendExpire`, `SendEncrypt`, `SendTransmit`, `SendTransmitFails`, `SendDrop`, `SendSave` |
| `perform_handshake` | `HandshakeStart`, `HandshakeStartFails`, `HandshakeFinish`, `HandshakeTimeout` |
| `receive`, by type of frame | `RecvStart`, `RecvRespondSave`, `RecvFrame`, `RecvSave`, `RecvInvalidate`, `RecvInvalidated`, `RecvIgnore` |
| a caller that drops the future of `send()` at any of its awaits | `DropSend` |
| environment | `Age` (300 s pass), `Reload` (the process restarts, with its sessions lost or, where the repository is durable, kept as saved last), `RestartLoop` (the client is stopped and started again: `receive()` is dropped at any of its awaits, and with it the guard if it has it), `Redeliver` (a frame twice) |

A transport send either fails or puts the frame in the receiver's buffer;
latency is how long the receiver leaves it there, and loss is covered by sends
that fail with an error `send()` ignores and by reloads that empty the buffer.
A subscription of a waiting handshake gets a frame when it is sent, which is why
`RecvStart` and `Redeliver` also hand a `HandshakeFinish` to waiting tasks.

The constants `Durable` and `DropsSends` say whether a repository may be durable
(the WASM client takes one that its application manages) and whether callers may
drop a `send()`. The history variable `cut` has the encryptions of sends that
were cut off between encrypting and saving while their session was kept.

### SharedUnlock, LockStates, LockRegister

`LockStates` has the dated lock state and the rule of `message.rs` which of two
wins. `SharedUnlock` has one receive loop (`rx`), any number of device events
(`dev`) and a timer for each client, interleaved at awaits. `syncs` are the syncs
that these tasks are in the middle of: the user and the targets that are left,
and the message that is about to go out. Between the check of a target and its
send, `set_destinations`, device events and received states may come.

| Code | Action |
|---|---|
| `handle_device_event`: record, persist | `DeviceEvent`, `DevicePersist` |
| `receive_message`, `apply_remote_state` | `Receive` or `Ignore`, `ApplyPersist`, `ApplyCompare` (the relay begins), `ApplyDrive` or `ApplyDriveFails`, `ApplyRecord`, `Reply` (the introductory answer begins) |
| the timer, `start`, pruning of `ActivePeerTracker` | `TimerSync` (a tick begins) |
| `sync_all_users`, `sync_user`, `sync_all_users_to`, `relay_user_state`: the next user and its targets; `may_sync_user_to` and the state that is read for a target; `send_message` | `SyncUser`, `SyncCheck`, `SyncSend` |
| `set_destinations` | `SetDestinations` |
| environment | `Reload`, `Lose`, `Tick` (the clock moves, also back) |

`LockRegister` is the abstract specification: the record of a device changes
only because its own user made a newer state, because it took over a state that
somebody made and that supersedes it, or because the process was reloaded.
`SharedUnlock` implements it with the mapping `reg <- states`.

### Fragmentation

`Correct` sources split messages as `split.rs` does; `Faulty` sources hand over
any fragment. `partials` is the map of the reassembler. `Accept` is
`Reassembler::accept` in one step, because it holds its mutex throughout: header
check, removal of what expired, admission by source and by pool, the check of
index, length and topic, and completion. A payload is a sequence of bytes that
name their message and place, so that a mixture of two messages differs from
both. `sends` are the messages being split, which `SendFragment`,
`LoseFragment` and `SendFails` advance one fragment at a time.

### IpcClient, RpcHandlers, IpcService

A call of `start()` names the token and the channel it creates. `token` is the
token slot, `incoming` the weak sender, `loops` the spawned futures. A loop ends
by its token or by a fatal error, then runs `stop_inner`, then drops the sender.
A subscription buffers at most `Capacity` messages and reports a lag before
anything else. `Serial` says whether callers of `start()` wait for it before
they call it again. `queue` is the fair queue of the registry's read-write lock.

| Code | Action |
|---|---|
| `start()`, separated by its two locks and the await of `subscribe()` | `StartCheck`, `StartReplace`, `StartSpawn`, `CancelToken` |
| the processing loop | `LoopReceiveAnswer`, `LoopReceiveOther`, `LoopReceiveRequest`, `LoopCancelled`, `LoopFatal`, `LoopStop`, `LoopDrop` |
| `request()` | `Subscribe`, `Transmit`, `SendReturns`, `SendFails`, `FatalSend`, `Receive`, `CancelRequest` |
| `broadcast()`: resolution, then one send after the other | `Resolve`, `BroadcastSend` |
| `handle_rpc_request`, `RpcHandlerRegistry::handle`, the handler, the answer | `SpawnHandler`, `ReadRequest`, `Lookup`, `HandlerReturns`, `Reply` (with `SendAnswer`, whose fatal error stops the client) |
| `register_erased` | `Register`, `RegisterInsert` |

`IpcService` composes the two: a received request becomes a task of its own that
does not depend on the loop, and its answer goes out through the client.

### SessionPhases, ConnectorSession

`SessionPhases` says what callers rely on: which phase follows which, and that
there are secrets in an active session and none in a closed or revoked one.
`ConnectorSession` has the mutex (`holder`), the state behind it and the calls
of several tasks, and implements `SessionPhases` with
`secrets <- bearer # 0 /\ keys`.

| Code | Action |
|---|---|
| an API request, the eligibility probe, the gate's wait, `close` | `Begin`, by kind; `Respond` is the answer to a request, whose first 401 starts a forced refresh |
| `renew_with_backoff` under the mutex: terminal, reusable, renew | `LockLost`, `LockClose`, `LockReuse`, `LockRenew` |
| the answer of the identity server | `AuthOk`, `AuthRejected`, `AuthFails` |
| backoff, request timeout, shutdown during startup | `Wake`, `TimesOut`, `CancelStartup` |
| time | `BearerAges`, `DeadlinePasses` |

A future that is dropped releases the mutex and leaves the phase as it was.

### CredentialRotation

`con[c]` is where a connector is, `job`, `vault`, `target` and `reported` are
the outside world, `late` the calls that timed out here and may still take
effect there. The password an attempt generates is its number.

| Code | Action |
|---|---|
| poll and claim, exit, start of an attempt | `Claim`, `Exit`, `StartAttempt` |
| pre-flight, resolution of the driver | `PreFlight`, `Resolve` |
| the gate before each call to the target | `GatePasses`, `GateAborts` |
| rotate, verify, terminate, with `retry_loop` | `RotateReturns`, `VerifyReturns`, `TerminateReturns` |
| the vault write: fetch, PUT, the check after a 409 | `FetchForWrite`, `WriteCipher`, `Recheck` |
| the reports | `ReportSuccess`, `ReportFailure` |
| environment | `LeaseExpires`, `Release`, `ProcessLate`, `Edit`, `Revoke`, `Shutdown`, `GoesOffline`, `Heartbeat`, `Crash` |

`Kind` chooses the errors a driver may return: a script whose effect is unknown
is not run again, an Entra call may be.

### HttpRequests, TokenMiddleware, CookieMiddleware, RequestPipeline

`RequestPipeline` is the chain that `ClientBuilder::build` makes: the cookie
layer outside, the token layer inside. A request is plain, anonymous (no token)
or streaming (cannot be cloned, so is never sent again).

| Code | Action |
|---|---|
| token layer: `handle`, `resolve_initial` and `resolve_retry`, `renew_token` | `Handle`, `ResolveStored`, `ResolveRenew`, `ReadFails` and `Reread` (the stored token cannot be read and counts as none), `RenewOk`, `RenewFails`, `Unauthorized`, `HandleReturns` |
| cookie layer: injection, redirect, `in_flight` | `Inject`, `Redirected`, `Passed`, `CheckBootstrap`, `Dedupe`, `NotifyWaiters`, `Resend`, `ReturnRedirect` |
| `acquire_cookie`, by whoever calls it | `AcquireReads`, `AcquireAnswers`, `AcquireSaves`, `AcquireFails` |
| the application | `GetCookies`, `SetReads` and `SetSaves`, `SetDirect`, `Login` |
| environment | `Expires`, `Drop` (a caller gives up, and both futures are dropped) |

## 4. Runs

| Run | Bounds | Shows |
|---|---|---|
| `noise_safety` | 2 clients with 1 task and 2 ephemeral keys each, 2 sends of one of them and 1 of the other (`OneSendsMore`), and one of a reload (volatile or durable), a dropped `send()`, a restarted loop or a repeated frame | `NonceUniqueUnlessCut`, `NoReplay`, `InOrderDelivery`, and `SessionInv`, the inductive invariant behind them. Two keys each are the least with which handshakes cross and a session is replaced. A second task per client would add names only: a task that waits for the guard has no state, and the receive loop is the competitor; the theorems hold for any number. |
| `noise_liveness` | 1 task and 1 send each, 1 reload (volatile or durable), dropped `send()` or restarted loop, 1 aged session | `SendCompletes`, `InboxDrains` |
| `unlock_pair` | browser and a page of the user's vault, 1 user, 2 events, and either 2 clock values, 1 reload, or 1 call of `set_destinations` that ends the sharing (`OneDisturbance`); the clock moves forward (`Forward`) | `Provenance`, `LastWriterWins`, `NoRelockAfterRestart`, `LockSurvivesReload`, and `SyncsCleared` with a destination that changes at any await. Two events are the least with which one client's state supersedes another's. Events of two clients that know nothing of each other may come in either order, so that a clock that moves back would add nothing: a client that knows of a state dates its own after it. A page of another vault than the account's takes part in no sync; that it gets none is proved (`SyncsEntitled`), for any origins and accounts. |
| `unlock_convergence` | desktop and browser, 2 events in one millisecond, 1 fault | `Convergence` |
| `fragments` | a popup with 2 messages, passed as they are or in 2 fragments; 2 pages that share the web pool, with a message that trickles in, others at and above the limits and the popup's ids; 4 instants, timeouts of 3 and 2 | `WholeMessages`, `BoundedLifetime`, `WithinLimits`, `TimelyIsDelivered`, and `ReassemblyInv`, the inductive invariant behind them. Two sources fit in the other pool and one takes part, so `PoolRoom` holds (`RoomAssumption`); in the web pool two pages compete for the room of one. |
| `client` | 2 serial calls of `start()`, 2 requests made, 2 served, 1 registration, 1 other message, a broadcast to at most 2 endpoints, buffers of 1; of all these things 3 in any combination, and 4 where the client only makes requests or only serves and broadcasts (`MaxLoad`) | `TypeOK`, `SingleLoop`, `AnswerNotMissed`, `BroadcastAccountsForAll`, `FatalStops`, `RequestEnds`, `SlowHandlersDelayNobody`, `AllServed`. With a buffer of 1 the answer to one request makes the other lag; a handler, a registration and a request behind it are the three that the lock's queue needs. |
| `session` | 2 tasks, 2 tries (3 in the code), 3 bearers | `TypeOK`, `SecretsFollowPhase`, `RetryUsesAnotherBearer`, `RenewedForCause`, `ImplementsPhases`, `CallsEnd`. Three bearers allow a renewal of a renewed bearer. |
| `rotation` | 2 connectors, 2 claims, 2 tries, leases that expire at any time, and one of a call lost or late, a crash, an edit, a shutdown, a revocation or an outage | `SuccessIsTrue`, `UnchangedIsTrue`, `EditsSurvive`, `AttemptsEnd`. Two claims are the least with which an old attempt meets a new one; the theorems have no bound. |
| `pipeline` | 2 requests, one of them of any kind, 2 tokens, one call of the application at a time, acquirers are not dropped | `OneSignIn`, `WaiterIsNotified`, `RenewalHasCause`, `RetryIsNew`, `EveryRequestEnds` |

`CHECK_DEADLOCK FALSE` is set where the system may come to rest: all sends,
requests and calls may be over, the connectors may have exited. Shared unlock
and fragmentation never stop: a timer ticks or fragments keep coming.

Type correctness of `NoiseSession`, `SharedUnlock`, `CredentialRotation` and
`RequestPipeline` is proved and not checked by a run as well.

Symmetry (of the clients) is used in the Noise runs without liveness.

### Fairness

* Noise: weak fairness of a task that has the guard and of the receive loop. An
  executor polls a task that is ready, and the timer of the handshake is such a
  task. Nothing is assumed of tasks that wait for the guard or of the transport.
* Shared unlock: weak fairness of all steps of the tasks together (an executor
  does not rest while a task is ready), which include the delivery of a sync that
  is not lost; losses are limited by `MaxFaults`, and convergence is claimed for
  the time after them. Strong fairness of each timer, because a bound of the model
  holds a tick back while another sync is under way; in the code a timer just
  fires.
* IPC client: weak fairness of `start()`, of a loop that can stop, of a request
  that can go on, of the task of a received request and of a registration; the
  send of an answer ends (`NoiseSession`). No caller, peer, transport or handler
  is assumed to act: `AllServed` has handlers that return as its hypothesis.
* Connector session: weak fairness of the identity server's answers (its client
  has a timeout), of timers and of responses; strong fairness of taking the
  mutex, which in tokio is first in, first out.
* Rotation: weak fairness of a connector's next step, of the expiry of leases
  and of the server's release of expired claims.
* Request pipeline: weak fairness of the next step of a request, which includes
  that servers and the sign-in answer or fail. Callers and the application need
  not do anything.

### Where code and documentation disagree

Each of these runs ends with a counterexample, and each finding in
`PROJECT.json` quotes the line that says otherwise.

| Run | What happens |
|---|---|
| `noise_no_panic` | `CryptoInvalidated` is handled between the two reads of the session in `send()`; the `expect()` after the handshake fails. |
| `unlock_vault_follows` | A device event comes between comparison and driver call; the vault ends in the older, remote state and the record in the newer one. |
| `rotation_recorded` | The lease expires after `rotate()` and before `verify()`; the gate ends the attempt, and the new password is recorded neither in the vault nor in a report. |

Five more properties are stated in their modules and contradicted by the code.
They have no run of their own; adding the property to the named configuration
shows the counterexample.

* `NonceUnique` (`NoiseSession`, in `MCNoise.cfg`): `send()` is dropped, or a
  process with a durable repository is reloaded, between the encryption and the
  save of the session; the next `send()` encrypts another message with the same
  key and nonce. `transport_state.rs:42-45` says that it must be unique.
* `OnlyEntitledSyncs` (`SharedUnlock`, in `MCSharedUnlockPair.cfg`):
  `set_destinations` takes a client out of the set between the check of that
  client and the send; it is synced the user once more. `peer.rs:104-105` says
  that such a client is never synced that user.
* `PersistedIsLastLock` (`SharedUnlock`, in
  `MCSharedUnlockVaultFollowsRecord.cfg` with 3 events): a device event and a
  remote lock persist their dates in the other order than they are recorded, and
  the older date stays, against `drivers.rs:33-34`.
* `UnchangedIsTrue` (`CredentialRotation`, in `MCRotation.cfg` with
  `Kind = "entra"`): a call to Entra of unknown effect did change the target, its
  retry is throttled, only the last error is kept, and the attempt is recorded as
  `target_unchanged`. The connector's `README.md:707` says that then nothing
  changed, and `integrations/mod.rs:24-26` asks for Unknown rather than a guess.
* `CookiesPreserved` (`CookieMiddleware`, in `MCRequestPipeline.cfg`): a sign-in
  stores its cookies between the read and the save of `set_communication_type`,
  which overwrites them. `client.rs:118-119` says that they are preserved.

The following is false in the code as well, but no line of the repository
promises it:

* `SingleLoop` (`IpcClient`) without `Serial`: two overlapping calls of
  `start()` spawn two loops, and the first one cannot be stopped any more.
* `StartedStaysUp` (`IpcClient`): after a fatal send and a new `start()`, the old
  loop ends, and its `stop_inner` cancels the new token.
* `WaiterIsNotified` (`CookieMiddleware`) with `DropsAcquirers`: the entry of a
  request that was dropped while its user signed in stays in `in_flight`, and
  the next ones wait for a notification that nobody sends.

Other steps of the models are worth knowing and contradict nothing: two crossing
handshakes may leave each side with the session of another one, and frames fail
to decrypt until the session is 300 s old; a session that `CryptoInvalidated`
removes while `send()` awaits the transport is saved again by `send()`, and stays
until the peer invalidates it once more; a rotate of an expired attempt may take
effect after the next attempt succeeded (`overrun`); a renewal that was under way
when a user logged in overwrites the tokens of the login; a request that went out
without a token renews whatever is stored when it is refused; a stored token that
cannot be read is renewed although nothing is wrong with it.

## 5. Proofs

Eight modules prove their theorems for all values of the constants: any number of
clients, tasks, users, sources, connectors and requests, any bounds, limits and
timeouts, any hierarchy of leaders. Every safety property of a passing run is proved.
The theorems rest on the named assumptions of the modules: `NoneAssumption`,
`SendersAssumption`, `BoundsAssumption`, `ConfigAssumption`,
`NoneIsNoLockState`, `SourcesAssumption`, `SizesAssumption`, `TimesAssumption`,
`ClientAssumption`, `HandlersAssumption`,
`SessionAssumption`, `RotationAssumption`, `RequestsAssumption`,
`TokenAssumption` and `AppAssumption`, all of which say that the constants are
of the right kind and that `None` and its like are nothing else;
`TimesAssumption` also has that the reassembly timeout is not 0. Five theorems
have a hypothesis on constants, named below.

**`NonceUniqueUnlessCut` and `NoReplay`** are not inductive. They need the first
half of `SessionInv`, which `noise_safety` checks as an invariant:

* `GuardInv`: whoever is past its lock holds the guard, so there is one;
* `TaskInv`: what the local variables hold at each await;
* `OwnedInv`: a sending key is only held by the client whose ephemeral key it
  has, for the peer it was drawn for. Two clients, or two destinations of one
  client, therefore never share a sending key;
* `FreshInv`: a handshake in progress will save a session whose keys nobody has
  used. This is what saves the receive loop, which saves such sessions without
  the guard;
* `NonceInv`: a copy of a session is never behind what was delivered with it,
  and behind what was encrypted with it by one nonce at most, that of a `send()`
  that has not saved yet or was cut off before it did (`cut`);
* `CutInv`: sends are cut off with their session kept only where the repository
  may be durable or callers may drop a `send()`.

A session that was removed and that `send()` brings back by its save is harmless
for nonces by `NonceInv`: what comes back is the newest copy. `TypeCorrect`,
`NoncesReusedOnlyWhenCut` and `FramesNeverReplayed` follow, and from `CutInv` also
`NoncesNeverReused`: under the hypothesis `~Durable /\ ~DropsSends` no nonce is
used twice at all. Without it TLC finds a counterexample to `NonceUnique`. The proof has
one lemma per action; those that only forget things, a reload and a restarted
loop for two, share the lemma `KeyShrinks`.

**`InOrderDelivery`** is about more than one key: after a rehandshake or a reset
nonces start again at 0, and what orders the messages is who could still decrypt
what. `NoiseOrderProofs` adds the second half of `SessionInv`:

* `CallInv`: the calls of `send()` encrypt one after the other, because each
  keeps the guard until it returns;
* `PeerInv`: the peer's part of a session, of a reply and of a handshake frame
  was drawn by the peer, for this node. A key therefore tells who encrypted with
  it and for whom, and two sessions of a node with different peers decrypt
  messages of different senders;
* `UsedInv`: what is under way, decrypted or delivered was encrypted by a
  `send()`, and under one key a larger nonce is a later call;
* `OrderedInv`: whatever a session of a node can still decrypt comes after all
  that the node has delivered from that peer. This holds of the stored session,
  of the copies that `send()` and `receive()` will save, and of any session that
  a handshake the node has started may still agree on. The last part holds
  because such a key is younger than the wait, and while a `send()` waits its
  guard keeps the node from delivering anything.

Most steps keep it because every session after the step was there before, with
the same key and no smaller receiving nonce, or decrypts nothing delivered
(`Inherits`, `InheritsOrder`). Two do not: `SendEncrypt`, whose message is newer
than anything delivered (`OrderEncrypt`), and `RecvSave`, which delivers
(`OrderRecvSave`). There the guard is needed: no copy of an older session is left
with a `send()` that could save it after the delivery. `SessionInvariance` and
`DeliveryInOrder` are the theorems.

**`Fragmentation`**: `ReassemblyInv`, checked by `fragments`, has

* `TasksInv`: what is being sent is a message of its own, and unfinished;
* `PartialsInv`: what is buffered of a correct source is the beginning of a
  message it sent, and no further than what its sender has sent of it. This is
  where `SubSeq` and the arithmetic of fragments enter: the lemmas on
  `FragmentOf` say that fragment `i` is the part from `i * FragmentLen` on;
* `DeliveredInv`: a message that is still being sent has not been delivered, so
  that its delivery is the first (`MessagesWhole`);
* `LifetimeInv`: a message expires at its deadline or before (`LifetimeBounded`);
* `TimelyInv`: of a message in time, all that was sent is buffered until it is
  late. A message is in time if its first fragment found room within the limit of
  its own source, nothing of it was lost and no fragment came too late; one that
  its source's own limit turns away is not delivered and not claimed to be. What
  is proved is that other sources do not matter. It needs that admission by the pool cannot fail where admission by the
  source does not, which is the hypothesis `PoolRoom` of `TimelyDelivered`: the
  pool of the non-web sources has room for each of them at its own limit, and
  correct sources are not web pages. The code's pool has room for four.

`LimitsKept` (`WithinLimits`) is an invariant beside it. The sums over sets that
`Usage` takes are folds, about which the prover knows nothing; what is used of
them (a sum grows with its set, is 0 on the empty set, grows by what is added, and
is bounded by the number of its parts times their bound) is proved from the
definition of the fold. Induction over finite sets is not available as a rule, so
each of these facts is shown by a smallest counterexample (`MinimalSet`, from the
well-foundedness of the natural numbers).

**`Provenance`** is inductive together with `TypeOK`. It says that everything
recorded, persisted, being applied or under way is a state somebody entered.
`NoInventedState` is this invariant. **`RecordsAreRegisters`** shows
`Spec => LastWriterWins`, step by step: a device event is `Make`, a reload is
`Forget`, and every other step that changes a record is `Adopt`, where
`Provenance` gives that the adopted state was made, and the comparison in
`record_remote_state` that it supersedes. The restored record needs
that only locks are persisted and that every date is above 0.
**`SyncsEntitled`** (`SyncsCleared`), **`LockKept`** (`LockSurvivesReload`) and
**`NoLockLoop`** (`NoRelockAfterRestart`) share the invariant `Served`, about what
tasks rely on across their awaits. A sync that is about to be sent was checked,
and either its recipient is still entitled to it or `set_destinations` was called
since (`SyncsServed`); a device lock that is being persisted is recorded
(`DevServed`); a remote state that is being applied while nothing is recorded is
the persisted lock, if there is one, because the persisted date was read back
before the comparison (`RxKept`); and a lock is only driven for a user whose state
is recorded (`DriveRecorded`), because an empty record compares as locked.

**`IpcService`**: `Inv` has the types and three parts. `LoopInv`: one call at
most is inside `start()`, every loop that runs meanwhile is cancelled, and a
loop that runs and is not cancelled has its token and its channel in the slots;
this gives `OneLoop`, under the hypothesis `Serial`. `AnswerInv`: who was asked
has sent, and what was answered is in the buffer until it is read or pushed out
(`AnswersKept`). `BroadcastInv`: while a broadcast goes on, no result is fatal
and each is that of its endpoint (`BroadcastsAccount`).

**`ConnectorSession`**: `IInv` adds to the properties that a bearer a call wants
replaced is suspect, and that while a renewal is under way or has failed there is
a cause for it (`CauseInv`). The second is what a caller needs who takes over
from a renewal that was dropped. `SessionImplements` is the refinement, step by
step.

**`CredentialRotation`**: `Inv` says what a connector may conclude from where it
is (`ConOK`), what a call means that has not been processed yet (`LateOK`), and
that what the present owner of the job did is what vault and target show
(`ServerOK`). `SuccessCorrect` and `EditsKept` follow. `UnchangedCorrect`, under
the hypothesis `Kind = "script"`, needs `EffectInv` in addition: an attempt has
one connector, and before its rotate, or once it is said to be unchanged, nothing
of it has reached or can still reach the target.

**`RequestPipeline`**: the invariant ties the `in_flight` entry to the request
that made it: a request that acquires owns an entry, and an entry has an owner,
provided that no acquirer is dropped (hypothesis `~DropsAcquirers` of
`NoLostWakeup`; `OneSignInAtATime` does without). `RenewalsHaveCause` and
`RetriesAreNew` are about single steps, given the types; a renewal after a failed
read is left out of the first, as its comment says.

## 6. What is only model-checked, and what is left out

Only checked by TLC: all liveness (`SendCompletes`, `InboxDrains`,
`Convergence`, `FatalStops`, `RequestEnds`, `SlowHandlersDelayNobody`,
`AllServed`, `CallsEnd`, `AttemptsEnd`, `EveryRequestEnds`), which is out of the
prover's reach.

Left out of the modules:

* Noise: the cryptography; widths of nonces (a `u64` would have to
  overflow within 300 s); two loops on one client.
* Shared unlock: `suppress_vault_timeout` and `on_peer_state`, by which the
  driver is only told; key material (one user has one key); the change in
  the UI and the call of `handle_device_event` are one step, and so are the
  awaits of `may_sync_user_to` and of the state that is read after it, and those
  of `receive_message` up to the comparison. The order of users and targets in a
  sync is any. A tick begins only when no sync is under way anywhere, a bound on
  the number of syncs; what comes during a tick is not bound. The driver, the
  accounts and the leader are external. Dates do not saturate.
* Fragmentation: the byte layout of headers; oversized payloads and reserved
  topics, refused before anything is sent; repeated fragments, which the nonces
  of the provider below already drop. The run has one non-web source, the
  theorems any number; `TimelyIsDelivered` is claimed for messages within
  their own source's limits, and for as many sources as their pool has room for (four in the code; a fifth could find it full). Ids are random and
  taken as unique for a source; different sources may use the same.
* IPC client and handlers: what is inside a send (it is its outcome, see the
  other modules), payloads (a request can be read or not), handlers that panic,
  and the topic filter of subscriptions other than those of requests. A loop
  that is cancelled and has not noticed may take an answer that belongs to the
  channel of the next one; the request then waits as for a lost answer. All
  received requests are of one type.
* Connector session: the cryptography of the payload; the width of the renewal
  margin (a bearer is fresh or not).
* Rotation: the polling interval and its backoff (a claim may happen at any
  time), the wording of errors, how scripts are run; one credential and one job.
  Job server, vault and target are external.
* Request pipeline: one host; the proactive strategy of WASM builds; the handler
  of the Secrets Manager, which keeps its token in memory and renews the same
  way; what the platform's sign-in page does.

Why the map covers a small share of the repository: of some 280,000 lines most
are generated API bindings, cryptography over bytes, and conversions of vault
items, imports and exports, each a function of its input without state that
steps of several actors could leave inconsistent. They are tested, and a model
of them would be a transcription. The parts of the repository that keep state
across awaits, tasks or processes are the ones above; sync and key store keep
theirs behind one lock for the whole of an operation.

The reasons for the components without a module are in `PROJECT.json`.

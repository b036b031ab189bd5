# A TLA+ development of Vifu

Vifu runs AI agents on devices and reaches them through a server. An
application embeds a **runtime** that invokes providers; a **gateway** process
or SDK connects a machine to the **server** over a WebSocket; the server routes
HTTP calls to the gateways. This directory models the parts of that program
where threads, tasks and messages meet, checks them with TLC and proves the most
important properties with TLAPS. Paths below are relative to the repository.

## 1. Inventory

`RT` is `crates/vifu-runtime/src`, `GW` `crates/vifu-gateway/src`, `SV`
`crates/vifu-server/src`.

| Part | State | Operations | Hard behaviour | Correct when |
|---|---|---|---|---|
| Invocation registry and worker (`RT/application.rs` 1039-1228, 1756-1868, 2289-2400) | entries (status, event queue, sequence), `active_count`, `terminal_order`, worker channel, tokens | start, poll, drain, take, cancel, drop; the worker's receive, begin, end, exit; provider deltas | cancel is three steps against a running task; bounded queues; retention evicts; drop joins | counters exact, results final, streams ordered, loss visible, everything accepted ends |
| Invocation path (`RT/application.rs` 1230-1503) | session locks, snapshot cache, durable store, the select loop of each call | invoke, load, save, cancel, idle and grace deadlines, restore/export | futures dropped at any await, failing saves, restarts, a wake-up that nobody hears | updates of one session are serial, the cache and the reports agree with the store |
| Runtime bridge (`RT/bridge.rs`) | `active_invocations` | invoke, cancel, drain_events | drain, poll and take are three critical sections | frames ordered, terminal frame delivered, handles forgotten |
| Releases (`RT/application.rs` 2107-2217; `SV/api.rs` 641-728, 1233-1562, 2291-2372, 2588-2667) | the server's releases, active version and reports; the gateway's store; the manifest in memory | publish, activate, make live, configure, import; install, activate, restore, bootstrap | readers that write later, imports against operators, crashes between two writes | a version has one content, what is active exists, a restart brings back what ran |
| SQLite store, trace outbox (`RT/sqlite_store.rs`) | sessions, releases, outbox rows | save, enqueue, list, acknowledge | bounds, crash between export and acknowledgement | saved rows are immutable, a trace is exported at least once or dropped by the bound |
| Relay hub (`SV/relay.rs`) | `connections`, `pending`, per call a oneshot and a watch channel, command queues | register, unregister, invoke, complete, record activity, disconnect, notices | answer, cancel, deadline, drop and reconnect race | each call returns its own answer once, entries do not leak, gateways hear of cancels |
| Socket task (`SV/websocket.rs` 160-340) | one per connection | authenticate, open session, register, forward, heartbeat, close | early returns with `?`, replacement by a reconnect | hub and session row agree with the socket |
| Session rows (`SV/db`) | `agent_gateway_sessions`, one connected row per gateway | open, resume, touch, close | late close after a resume, failure between open and register | the serving connection's row is the connected one |
| Enrolment and token rotation (`SV/websocket.rs` 560-760, `SV/gateway_identity.rs`) | enrolments, pairing requests, authorizations, Device Tokens | enrol, pair, approve, rotate, revoke | the new token travels only in Welcome, statements of two attempts interleave, revoke races both | one identity, one owner, a revoked gateway stays out, a current token is accepted |
| Gateway client (`GW/relay.rs`, `session*.rs`) | calls, permits, outgoing queue, session id | connect, invoke, reject, cancel, answer, end | a connection that ends while calls run and answers wait for the socket | tasks end, nothing is left behind by an orderly end |
| Telemetry backlog (`GW/relay.rs` 1818-1857, 3022-3120) | pending batches, drop counters | enqueue, flush, retry, give up | overflow while a batch is in flight | a batch is delivered, pending or counted as dropped |
| Runtime synchronisation (`GW/relay.rs` 3138-3395) | one pass at a time, its snapshot of the configuration | fetch, import, save, install, apply, store, report | each step may fail after the ones before | what is reported was applied, the gateway ends with the active release |
| HTTP API, databases, auth, monitor, console, releases of code (`SV`) | database rows | request handlers | mostly one statement per request | - |
| CLI, launcher, TUI, benchmark (`crates/vifu`); llama and whisper providers; mobile, wasm, Swift, Python, npm clients | processes, views, wrappers | - | - | - |

How they interact: a host calls the runtime directly or sends frames to the
bridge; both end in the registry, whose worker runs the invocation path; that
path calls a provider and the store. The server's API calls the relay hub, which
sends commands over the socket task; the gateway answers over the same socket
and runs its invocations, possibly in an embedded runtime. Monitors and
telemetry observe.

`PROJECT.json` lists all parts with their status, and the hazards of the code at
their lines.

## 2. The modules

**InvocationRegistry** (`application.rs`, `InvocationRegistry`, `RuntimeWorker`,
`VifuRuntime::start_invoke/poll/take/drain/cancel`). One action per critical
section of the registry's mutex. `status`, `events`, `nextSeq` are the entries;
`activeCount`, `terminalOrder` the counters next to them; `queue` is the bounded
channel to the worker, `task` where each spawned task stands, `canceller` where a
call of `cancel_invocation` stands between its three steps. A task ends in order,
with the panic of its provider, whose `JoinError` nobody reads (`TaskPanic`), or is
lost with a worker thread that cannot build its runtime (`WorkerBuildFails`). Coalescing of deltas
(`push_event`, `merge_invocation_data`) is kept: an event carries the list of
provider deltas it stands for, so a loss is visible. `delivered` and `emitted`
are history.

**InvocationLifecycle** is the abstract specification of invocations as an
application sees them through their handles: `stage` is what a poll says, `heard`
what has been drained. It knows nothing of queues, threads, locks and limits.
InvocationRegistry implements it (`ImplementsLifecycle == Life!Spec`), with `stage`
read off the entries and the counter of handles.

**RuntimeBridge** extends the registry and drives it as a host does:
`handle_frame` for invoke and cancel, and `drain_events` as a little program of
its own per pumping thread (drain, poll, take, next, return), because the code
takes the registry's mutex anew for each.

**ProviderCall** (`RuntimeCore::invoke`, `invoke_provider`, `load_snapshot`,
`CancellationToken`, `export_snapshot`, `restore_snapshot`). `pc` follows a call
through the session lock, the resolution of provider and snapshot, the biased
`select!` loop one poll at a time, the last check, `save`, the cache and the
trace. A snapshot's state is the sequence of calls that wrote it. `Abandon` is a
dropped future, `Restart` the end of the process: both are outside the code and
marked external. What is resolved about a provider, and the contents of requests
and traces, are abstracted to success, failure and status.

**SessionLog** is the abstract specification of a session store: `Commit` adds
one call to the newest snapshot. ProviderCall implements it
(`CommitsAreSerial == Log!Spec`).

**RelayHub** (`relay.rs`, and the socket task of `websocket.rs`). One action per
critical section of the hub's mutex and per channel operation outside it. `call`
follows `invoke_with_provider_events`: entered, sent, each poll of the biased
select, `abort`, the guard's drop. `hand` is an entry that `complete` has removed
and not yet dropped, `parked` the spawned tasks that wait for room for a Cancel,
`socket` the connection's task up to its unregister. Its data are request,
connection and gateway names and the outcome of a call.

**GatewayAccess** (`websocket.rs`, `authorize_gateway_machine` and what it calls;
the reconnect loop of `GW/relay.rs`). A task reads the authorization row once and
works on that snapshot; each statement or transaction after it is an action, so
another attempt of the machine, an operator (issue, approve, revoke, which takes
two steps) and the clock come in between. Tokens are named by the generation
they were issued with. The Gateway keeps what a Welcome it received told it;
attempts break off at any point. `approved` is set by an operator's decision on a
pairing request (`Paired`) and also, with nobody deciding, by the App ID, bootstrap
token or enrolment that the process was started with and presents on every reconnect.

**GatewaySession** (`run_socket` from the opened row to its close). `row` is the
table with its unique connected row, `hub` the connection the hub has, `told` the
notices in queues (which `try_send` may lose), `task` a socket's position. Late
closes, resumed sessions and failed attempts overlap.

**GatewayClient** (`run_connection`, `InvocationDelivery`, the telemetry backlog).
`call` follows an invocation through its permit, provider, answer, the outbound
queue and the upload of its batch; `pending`, `flusher` and `settled` are where
batches are. A connection ends in order (`EndOrdered`, then the grace period) or
with an error that leaves tasks running (`EndEarly`). The server is whatever it
may send or fail to acknowledge.

**ReleaseSync** (releases of the server, `sync_runtime_state`, the runtime's
releases). A manifest is a set of features, pairs of an agent and the provider it is
bound to: what making a profile live adds, what `preserve_embedded_python_agents`
binds anew (`Rebound`) and the test for missing providers look at. An operator's
request reads in one step and writes in another; the import handler has four, and
those of attempts that the Gateway has given up may still be under way beside a new
one (`boot` has a slot for each). `sync` follows a pass of the Gateway, or the start
of a bootstrapping host, through its local writes and requests; `Lost` fails any of
these steps (a refused SQLite write, a request without an answer), `Crash` ends the
process. A release is saved once by its version and once by its content, as the two
UNIQUE constraints of the file say. Hosts differ in how they start: with a
bootstrapped release, with a manifest of their own, or without an embedded runtime.
`Slug` and `LocalId` are the project ids of server and host, different or equal.

How they fit together: RelayHub takes the connections GatewaySession opens, which
GatewayAccess has let in; each of the three keeps of the other two what its
properties need (a connection that ends, a notice that may be lost). GatewayClient
is the other end of RelayHub's command queue; InvocationRegistry and ProviderCall
are what an embedded runtime does with a call it accepts, and ReleaseSync what
configures that runtime.

The `MC*` modules give the constants their values.

## 3. What the runs show

| Run | Bounds | What it shows |
|---|---|---|
| `access` | 1 machine, 2 sockets, 3 attempts, 2 accounts, 1 enrolment, 1 pairing request, 2 tokens after the first | `OneIdentity`, `OwnerAgreed`, `CurrentTokenAccepted`, `RevocationSticks` |
| `access_lockout` | as above, a process started with an enrolment token | finding: an enrolled gateway is refused although its Device Token is current |
| `session` | 3 sockets, 3 session ids, fairness | `SessionKept`, `ServedIsListed` |
| `gateway_client` | 3 calls, 1 call permit, 1 rejection slot, 1 place in the queue and in the backlog, 1 upload, any number of connections, fairness | `BatchesAccounted`, `FlushRuns`, `NoOrphans`, `TasksEnd`, `BacklogDrains` |
| `invocation_stream` | 2 invocations, 1 slot, 3 deltas of 2 forms (one that is merged, one that is not), 3 events per queue, 2 units per event | `StreamOrdered`, `TerminalEventKept`, `GapsRevealLoss`, the refinement `ImplementsLifecycle` |
| `bridge` | 2 invocations, 1 slot, 1 place in the channel, 1 retained result, 1 pump, fairness | the registry's `ActiveCountExact`, `RetentionExact`, `CancelledIsSignalled`, `DropWaitsForAll`; the bridge's `EntriesRemembered`; `AcceptedTerminates`, `HandlesForgotten` |
| `bridge_loss` | 1 invocation | finding: `drain_events` can lose the terminal frame |
| `provider_call` | 2 calls of one session, any number of activity reports, fairness | `SessionExclusive`, `BaseIsCurrent`, `CacheIsCurrent`, `ResultMatchesStore`, the refinement `CommitsAreSerial`, `CancelWins`, `CallsEnd` |
| `restore_overwrites` | 2 calls of one session | finding: `restore_snapshot` is not serialized with invocations |
| `relay` | 1 call, 2 connections of a gateway (one with the activity feature), queue of 1, any number of activity reports, 1 notice, fairness | `PendingMatchesCalls`, `CancelFollowsInvoke`, `NoCrossTalk`, `NewestIsCurrent`, `AnswerReachesCaller`, `CallsReturn`, `GivenUpIsTold` |
| `release_sync` | 3 kinds of host, 2 operator requests, 2 faults (lost requests, refused writes, crashes), different project ids, fairness | `VersionsAgree`, `ReportedWasApplied`, `ReportedSurvives`, `Converges` |
| `release_one_id` | a bootstrapping host, 3 operator requests, no faults, one project id, fairness | finding: a later release is refused for good |

Each module has a type invariant (`TypeOK`, `BridgeTypeOK`), which section 5
proves, as it does `OwnerStays` of GatewayAccess; the runs spend their time on the properties above. For every property there is a mutation of the code's
definition, kept next to it in the module and commented "Mutation", under which TLC
finds the property violated.

**Why the bounds are enough.** The counters of the registry are disturbed by two
invocations and an eviction; the theorems of section 5 carry the result to any
number. The stream run shares three deltas between two invocations: enough to
coalesce, stop coalescing and overflow one queue while the second invocation is
refused, queued or streams. The session lock is a queue, and what a third call
adds is covered by the theorems. One command per connection fills the hub's
queue with every interleaving of invoke, cancel and notice; a second connection
is what replacement and late unregister need; for the safety properties, more
calls and longer queues are covered by the theorems, as more accounts,
enrolments and overlapping attempts are. A machine races itself with two
overlapping attempts; the third is the one that meets what both left behind.
Three sockets are a serving connection, the one before it that closes late and a
failed one after it. Three calls in the client are one that runs, one that is
rejected or waits and one whose batch overflows the backlog. Two operator
requests, beside the imports, give two that race or a publication and its activation;
two faults break off a pass and the one that repeats it, and leave three attempts at
an import that may overlap.
`MaxDeltas`, `MaxNotices`, `MaxHandle`, `MaxAttempts`,
`MaxGeneration`, `MaxPairings`, `MaxGateways`, `MaxSessions`, `MaxRequests`, `MaxOps`
and `MaxFaults` bound only how often the environment acts (or how many ids it
uses); the other constants are the code's own limits, set small.

Deadlock is checked in the runtime's modules: the registry's `Stopped` says when
the system may rest. The other runs switch it off: their systems stop when the
environment's requests, connections or ids are used up.

## 4. Fairness

- Registry and bridge: the worker thread receives, begins tasks and exits when
  it can; a call of `cancel_invocation` returns. Nothing is assumed of providers:
  that a task ends is no fairness condition. `AcceptedTerminates` and
  `HandlesForgotten` say "unless the call of its provider never returns", which the
  idle deadline does not exclude (it limits inactivity, not the time of a call;
  `CallsEnd` says when a call ends), and "or its task is gone": the entry of a
  provider that panicked stays `running`, and keeps its slot, until it is cancelled.
  The host keeps pumping: without that nothing is ever forgotten. Nobody has to
  start, cancel or drop.
- ProviderCall: weak fairness of each call's own step, that is an executor that
  polls woken tasks and timers that fire. Providers may report activity without a
  bound. `CallsEnd` is conditional: a waiting call ends unless a provider of its
  session reports for ever, and one that is cancelled inside its provider ends even
  then. A host that drops a future ends it.
- RelayHub: tasks are scheduled, idle deadlines come, socket tasks run. A spawned
  Cancel gets strong fairness, because tokio's bounded channel gives its permits
  to waiting senders in order, while `try_send` only takes free ones. That a
  gateway ever answers is not assumed, nor that it stops reporting activity:
  `CallsReturn` says that a call returns unless its gateway reports for ever.
- GatewaySession: heartbeats of a connected Gateway touch its row; a socket task
  that has been told or whose socket is closed leaves its loop and closes its row.
- GatewayClient: tasks run, requests and the grace period have timeouts, the
  connection loop sends what is queued. Providers and the server owe nothing;
  `BacklogDrains` is conditional on uploads that stop failing.
- ReleaseSync: a pass runs every 30 seconds and its steps are taken, the server
  finishes the requests it has begun, a host that crashed or failed to start is
  started again. `Converges` only speaks of the time after the bounded operators and
  faults, and of different project ids.
- GatewayAccess has no liveness property: an attempt may always be given up.

## 5. What is proved

Every safety property that a passing run checks is a theorem, for all values of
the constants. Each `...Proofs` module states its inductive invariant,
proves that each action keeps each part of it, and then the theorems. The invariants
were first checked with TLC on the runs' instances.

`InvocationRegistryProofs` assumes `CapacityAssumption` and `FormsAssumption`.
`RegistryTypes`, `ActiveCountIsExact`, `RetentionIsExact`, `CancellationSignalled`,
`DropJoinsAll` (which excepts the entries of tasks that are gone) and `ResultsAreFinal`
follow from `IInv`: `TypeOK`, the two exactness
properties, `TaskTracked` and `SignalTracked`. `TaskTracked` follows a handle from the
channel to its task: without it neither "a fresh handle has no entry" (needed for
the counter) nor "joining finds every active entry" (needed for drop) is inductive.
`SignalTracked` remembers that a canceller between its steps has signalled. The
counter is a cardinality; its lemmas (`OneLessActive`, `UpdateExact`, `InsertExact`,
`RemoveExact`) come from the library's finite-set facts. Two more invariants stand
on `IInv`. `StreamTracked` (`StreamsAreOrdered`, `TerminalEventsAreKept`) speaks of
the delivered events and the queued ones apart, since a drain moves the border
between them, and ties both to the status: an active entry has no terminal event and
a pending one no event at all, so the next event pushed is in its place.
`DeltasTracked` (`GapsAlwaysRevealLoss`) says that as long as no number is missing,
what was delivered and what is queued are the provider's deltas 1, 2, ... in order;
`push_event` either appends units to the last event or a new event with a new number,
and an event that is dropped takes its number with it. `InvocationsKeepTheirLifecycle`
is the refinement of InvocationLifecycle: it needs all of these, and `Begun`, that the
entry of a task which has begun is not pending, so that a result other than a
cancellation is always that of a running invocation. `ResultsAreFinal` is the part of
it that concerns one step.

`RuntimeBridgeProofs`: every step of the bridge is a step of the registry or leaves
it alone (`BridgeImplementsRegistry`), so `BridgeKeepsRegistry` has the registry's
safety properties behind a bridge as a corollary. `EntriesAreRemembered` needs
`CompletedGone`: the handles a pump is about to forget were taken, which removed
their entries, and since handles are never reused no entry of theirs comes back
before `active_invocations` is locked again.

`ProviderCallProofs` proves for any calls, sessions and assignment of one to the
other (from `CallAssumption`): `CallTypes`, `LockIsExclusive`, `BaseStaysCurrent`,
`CacheStaysCurrent`, `ReportsAreTrue`, and `SerialCommits`, the refinement of
SessionLog. The invariant adds `ProgressKnown` (where a call stands tells whether
it has saved, needed for restarts and dropped futures after the save) and
`HolderOwns` (a lock is held only for its own session). Mutual exclusion makes the
snapshot a call works from the stored one; so a save is one `Commit`, and all
other steps stutter. `CancellationWins` is a property of pairs of states: once a
call's token is set before its save, `Doomed` holds and no step ends it. These
theorems are about `Spec`, without `restore_snapshot`; the findings say what it
changes.

`RelayHubProofs` proves for any gateways, connections, requests and queue length
(from `RelayAssumption`): `HubTypes`, `AnswersStayOnTheirConnection`,
`EntriesMatchCalls`, `CancelIsOrdered`, `NewestStaysCurrent`, `AnswersReachCallers`. Its invariant `Inv`
has one part per call. `AnswerTravels` follows an answer from the entry through
`complete`'s hand and the oneshot channel into the result: an answer may be in only
one of these places, which is what makes "from the connection the Invoke went to"
inductive. `EntryMatches` says where the entry is for each place of the call,
`SignalMatches` what the guard has been told. `CommandOK` needs more than the order
of one queue: a Cancel in a queue, in a spawned task or at the gateway means that
the call is over and its Invoke was sent over the same connection before, so no
Invoke can still come behind it. `AnswerOK` adds that a call refused before its
Invoke was queued is `Known` to no gateway, so nobody can have answered it, and that
"unavailable" comes to a call under way only over a negotiated connection.

`GatewayAccessProofs` proves for any accounts, enrolments, sockets, attempts and
requests (from `AccessAssumption`): `AccessTypes`, `OneIdentityStored`,
`CurrentTokensAccepted`, `OwnersAgreed`, `OwnersStay`, `RevocationsStick`. The
argument is one relation and what survives it. `RowStep` says what any step may do
to the authorization row: its id stays, its token generation never falls, and it
rises whenever a revoked or expired row comes to life. `TaskOK` says what a task
knows of the row from the copy it read; since that only uses facts `RowStep` keeps,
each step of another task or operator leaves it intact. This is the reason a
decision on an old copy is safe: if the row was revoked in the copy and is active
now, its token is newer than the one presented. `Access` adds the Gateway's stored
token and id, `PairingsKnown` that requests are never deleted, and `TasksAgreed`
that the account a task acts for has agreed already (enrolments, pairing requests
and App IDs that were used up stay used up), which `OwnerAgreed` alone does not
say before the owner is written. `RevocationsStick` lists what brings a revoked Gateway
back: an attempt that read the row while it was active, one that used up an approved
pairing request which no other attempt shares (`UsesUp`), and one whose process
presents its own token again (`Relaunched`), which is no new decision of anybody.

`GatewaySessionProofs` proves for any sockets and session ids (from
`SessionAssumption`) `SessionTypes`, which contains the unique index of connected
rows, and `SessionsKept`. A Gateway keeps its session because `SessionsKnown`: the
session it remembers has a row, rows are never removed, and the socket task that
serves its connection has opened that very session. A row that vanished, or a
Welcome of an older connection, would break it.

`GatewayClientProofs` proves for any calls, permits and limits (from
`ClientAssumption`): `ClientTypes`, `BatchesAreAccounted`, `BacklogHasFlusher`,
`NoTaskOrphaned`. The count of a batch's places is not what an induction can work
with; `Shared` restates it as sets: the queue without repetitions, the flusher's
batch and the settled ones have nothing in common and together are the batches of
the calls that have ended. `BacklogStep` reduces the many actions to the five things
they can do to these sets.

`ReleaseSyncProofs` proves for any features, hosts, ids and numbers of requests and
faults (from `ReleaseAssumption`): `ReleaseTypes`, `SavedVersionsAgree`,
`ReportsAreTrue`, `ReportedReleasesSurvive`, `InstallNeverConflicts`,
`SaveNeverConflicts`. Both sides work on what they read some steps ago, and
`CarriesReleases` says why that is harmless for what a version means: releases are
only added, so a version and a manifest that belonged together still do, in every
import that is under way. `ReportsApplied` follows a version from `set_active_release`
to the report; `LocalKept` the local version from `save_release` to the report, with
the fact that the numbers in the file have a greatest one, which makes the number
that `local_embedded_release` chooses a free one. `RunsEmbedded` ends a pass with the
runtime that it serves. What a restart brings back is whole because `stored` is
written after `apply_manifest` has accepted the very release. Equal project ids are
within these theorems; what does not hold of them is written as a condition
(`LocalId # Slug`) into `VersionsAgree`, `ReportedSurvives` and `SaveNeverConflicts`.

Only model-checked: liveness (`AcceptedTerminates`, `HandlesForgotten`,
`CallsEnd`, `CallsReturn`, `GivenUpIsTold`, `ServedIsListed`, `TasksEnd`,
`BacklogDrains`, `Converges`), because the prover has no rules for fairness and
`ENABLED`. The theorems of section 5 are about safety whatever the scheduling; the
runs that expect a violation are counterexamples and need no proof.

## 6. Disagreements found

1. `access_lockout` - `websocket.rs:593`: the enrolment token of the process is
   presented on every reconnect and looked at before the Device Token; once it has
   expired the Gateway is refused. `docs/topology-and-pairing.md:155` says a
   previously enrolled Gateway reconnects with its stored Device Token.
2. `bridge_loss` - `bridge.rs:152-187`: an invocation that ends after the drain
   and before the poll of one `drain_events` is taken with its terminal event
   still queued. `docs/runtime-embedding.md:302` promises one terminal event.
3. `restore_overwrites` - `application.rs:2457`: `restore_snapshot` takes no session
   lock, so a running invocation saves over what was restored.
   `docs/runtime-embedding.md:133` says revisions cannot overwrite one another.
4. `release_one_id` - `GW/relay.rs:3308`: the embedded runtime and the Gateway share
   one file, and `select_embedded_deployment` looks first for a deployment whose
   project id is the host's. Then the release that `local_embedded_release` completes
   takes the next version in the server's own numbers, the server's release of that
   version is refused in every later pass, and the Gateway stays where it is.
   `docs/runtime-embedding.md:267` says later activations follow the deployment.

Properties that hold only in a weaker form than one might expect, because the
code promises no more: `PendingMatchesCalls` (a dropped `abort` leaves its entry,
`relay.rs:86`), `StreamOrdered` (an invocation cancelled before it begins has no
`started`, `application.rs:2374`, nor has one whose queue overflowed), `AnswerReachesCaller` (with the
activity feature, a call that has polled its answer as pending and then finds the
watch channel closed, since `complete` has sent the answer and dropped the entry in
between, returns `AgentGatewayUnavailable` for an answer the hub accepted;
`relay.rs:475`, against the test at `relay.rs:851`, which runs on one thread),
`ServedIsListed` (another row may be the connected one), `NoOrphans` (an error leaves tasks behind),
`DropWaitsForAll`, `AcceptedTerminates` (a panic leaves its entry `running`,
`application.rs:1828`), `RevocationSticks` (a revoked machine whose process was started
with an App ID, a bootstrap token or an enrolment returns by presenting it again,
`websocket.rs:593`), `ReportedSurvives` (a failed write between `apply_manifest` and
`set_active_release` leaves memory and store apart until the next pass, and is not
reported; `application.rs:2195`), `CallsEnd` and `CallsReturn` (the deadlines limit
inactivity, not time).

## 7. Not modelled

Wording, formats and frame codecs; contents of requests and traces; signatures and
hashes; poisoned mutexes (a panic while one is held); the browser build of the
runtime, which has no worker; HTTP handlers that are one database statement;
processes, terminal views and language bindings, which keep no protocol state.
These make up most of the repository's lines.

Of the modelled parts: the trace outbox and its upload at the end of a
synchronisation pass (one bounded table, single statements, an acknowledgement by
id); several deployments of one Gateway; creating, promoting and deleting
deployments; runtime agent reports; the length of backoffs.

Steps that the models have as they are and no property forbids, because nothing in
the code or its documents promises more:

- an import activates its release without a condition, and making a profile live
  builds on the release that was active when the request began: an operator's
  activation in between is overwritten (`api.rs:2658`, `:1267`);
- cancelling frees the slot of an invocation whose task still runs, and an
  invocation cancelled after its last check still saves (`application.rs:1129`,
  `:1447`); a restore that fails half-way leaves a mixture in the store (`:2457`);
- a full command queue loses the notice of a replacement or revocation
  (`SV/relay.rs:250`); an enrolment revoked between its use and the creation of the
  row revokes nothing (`api.rs:3063`); a lost Welcome costs one more rotation
  (`websocket.rs:199`);
- a batch refused for good is dropped, also when the flusher's token has expired
  meanwhile (`GW/relay.rs:3030`).

Outside the models' assumptions: a host may activate a release itself during a pass;
one deployment that cannot be applied keeps those after it from being synchronised
(`GW/relay.rs:3192`). The events of a dropped future and the
order of monitor events belong to the live monitor, which is not modelled.

## 8. Plan

1. An abstract specification of the relay hub, as SessionLog and InvocationLifecycle
   are for the runtime: a call returns the answer of the connection it went to or an
   error, once; and of the telemetry backlog: each batch is uploaded, dropped with a
   count, or still queued.
2. The safety part of liveness arguments: that a call which has not returned has a
   step of its own (RelayHub), and that a queued batch has a flusher in a state that
   can move (`FlushRuns` is the first such fact).
3. The trace outbox within ReleaseSync, and a composition of GatewayClient with
   RelayHub over a channel that breaks.

The runs are few enough to be repeated on every change; a new question takes the
place of one that another run can answer as well, as the bridge's run does for the
registry.

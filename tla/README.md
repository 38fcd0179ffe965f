# Verification of apme-api

TLA+ models of the Apostille Me API (`src/src/*.rs`), model-checked with TLC;
their safety properties are also proved with TLAPS, for every value of the constants. Paths below are relative to the
repository; `cases.rs`, `main.rs`, `auth.rs` and `transport.rs` are in its `src/`.

## 1. Inventory of the system

| Component | State | Operations | Talks to |
|---|---|---|---|
| Case service (`cases.rs`) | Postgres: cases, events, idempotency records, tenant audit, memberships | `tenant_context`, `list_cases`, `get_case`, `record_access`, `create_case`, `transition_case`, `rotate_encrypted_object`, `apply_retention`, `migrate`, two audit verifiers | SQL functions of the `apme-interfaces` crate |
| HTTP handlers (`main.rs`) | none of their own; a suspended future per request | one per route, `authorized_tenant*`, `publish_mutation` | case service, authentication, event feed |
| Authentication (`auth.rs`) | none | `authenticate_with_scopes`, `validate_active_session` | Shared Auth: local JWKS guard, then introspection |
| Event feed (`main.rs`) | one `broadcast::channel(256)` for all tenants, one receiver per socket | `publish_mutation`, `websocket`, `socket_loop`, `subscription_allows` | handlers (senders), WebSocket clients |
| mTLS TCP server (`transport.rs`, `tcp`) | semaphore of permits, a task per connection | accept loop, handshake, `serve_connection`, `execute` | `authorize_token`, `list_cases` |
| Durable status worker (`transport.rs`, `nats`) | none in the process; request and response streams at the broker | `serve`, `handle`, `decode_signal`, topology validation | NATS JetStream |
| Startup and shutdown (`main.rs`) | `watch` channel | `main`, `start_optional_transports`, graceful shutdown | all of the above |
| Configuration (`main.rs`, `auth.rs`, `cases.rs`, `transport.rs`) | the environment, the CORS allow-list | `from_env` of each part, `parse_allowed_origins`, `bounded_env`, topology checks | startup |
| Health, readiness, metrics (`main.rs`) | — | `index`, `health`, `metrics` | case count |
| Container entrypoint (`scripts/sops-entrypoint.sh`) | the environment it hands on | decrypt, export, exec | sops, the API process |
| Encrypted environment files (`.just/`, `justfile`) | encrypted, decrypted and linked `.env` files | recipes, `dotenv.py` | sops |

How they interact. A request passes authentication (two network calls), a
membership query, one SQL function and up to two reads, with an `await` at each;
anything may happen in between. A fresh mutation is then published to the
broadcast channel, from which every open socket takes, filters and forwards it.
The TCP server reaches the same authorization and the same list query per frame.
The status worker shares nothing with the others but the process.

What is hard about it:

* **retries**: the client does not know whether its mutation was committed when the
  answer is lost; the retry may race the first attempt, come from another user, or
  come after the case was moved on or tombstoned;
* **state read before an await and used after it**: the role is read before the
  transaction, the case after it;
* **half-done work**: a handler dropped or failing between transaction, read,
  publication and response; a row that cannot be converted once the transaction is
  over; an access entry that is written but unacknowledged;
* **a bounded channel** shared by readers of different speed;
* **at-least-once delivery** with crashes, deliveries and acknowledgements lost in
  transit, and a duplicate window that passes;
* **answers that are old when they arrive**: the session service's report is compared
  after it has travelled, with a clock that went on;
* **a topology provisioned by others**, on which the same worker would lose or repeat
  answers, and deliveries that are dropped while they wait in a worker's buffer;
* **a configuration in pieces**, any of which may be missing, blank or out of bounds;
* **permits** that must come back on every way a connection can end, and timeouts
  that must exist wherever a client is waited for.

`PROJECT.json` lists each hazard with its line and the properties aimed at it.

## 2. Modules

| Module | Models | Used by |
|---|---|---|
| `CaseLedger` | what the case API promises about mutations: a ledger whose slots are filled at most once and announced with their acknowledgement | refinement target of `CaseApi` |
| `CaseApi` | case service and case handlers over one shared database | `MCCaseApi`, `FeedOfCases` |
| `EventFeed` | broadcast channel, handshake, `socket_loop` | `MCEventFeed`, `FeedOfCases` |
| `FeedOfCases` | `CaseApi` and `EventFeed` composed | `MCFeedOfCases` |
| `Auth` | `authenticate_with_scopes` | `MCAuth` |
| `StatusWorker` | the NATS worker in several processes, its topology checks, and the broker | `MCStatusWorker` |
| `TcpServer` | accept loop, permits and connection tasks | `MCTcpServer` |
| `Settings` | what the process makes of its environment, as operators | `Lifecycle` |
| `Lifecycle` | startup order, optional transports, signals, drain and end of a process | `MCLifecycle` |
| `Entrypoint` | `sops-entrypoint.sh` | `MCEntrypoint` |
| `CaseApiProofs`, `CaseEffectsProofs` | theorems about `CaseApi`: who may do what; what a mutation leaves behind, and the refinement of `CaseLedger` | `FeedOfCasesProofs` |
| `EventFeedProofs`, `FeedOfCasesProofs`, `AuthProofs`, `StatusWorkerProofs`, `TcpServerProofs`, `LifecycleProofs` | theorems about the module in their name | — |

The `MC*` modules only give constants their values. Definitions introduced by
"Mutant of …" are deliberately wrong variants of the definition that follows them;
nothing refers to them in a specification, and each shows that some property can
fail.

### CaseApi

Every request id is a process. `pc[r]` is the await at which its handler is
suspended; an action is everything the handler does from one await to the next.

| Action | Code |
|---|---|
| `Authenticate`, `AuthenticateRefused` | `auth.rs` `authenticate_with_scopes`, with the session as introspection reports it at that moment |
| `TenantContext`, `TenantContextRefused` | the tenant header, `tenant_context`, then idempotency header, role, key and command checks in the code's order (`Admission`) |
| `ExecuteApplied`, `ExecuteAppliedUnseen`, `ExecuteReplayed`, `ExecuteConflict`, `ExecuteRefused`, `ExecuteForbidden` | the one SQL call of each mutation and `map_sql_error`; "unseen" is a commit whose answer is lost |
| `ReadCase`, `ReadCaseMissing`, `ReadCaseIllegible` | `get_case`, for GET and inside `mutation_result`; "illegible" is the `Validation` error of `case_from_row` |
| `FinishMutation` | the event read of `mutation_result`, publication unless replayed, the response |
| `RecordAccess`, `RecordAccessUnseen` | `record_access` and the response of GET |
| `ListCases`, `ListCasesIllegible` | `list_cases`, which one illegible row fails as a whole |
| `Unavailable` | `Storage` at any query, `Degraded` in authentication |
| `Abort` | the client disconnects or the process stops: the future is dropped at its await |
| `ChangeRole`, `RevokeSession`, `Tick`, `ApplyRetention`, `ForeignWrite` | the surroundings |

The SQL functions are not in the repository. They are modelled from how `cases.rs`
calls them, from the error names of `map_sql_error` and from what
`tests/postgres_cases.rs` observes: one transaction that writes row, event and
idempotency record together; a recorded key answers with its event when the hash
is the same and with a conflict otherwise. Whether they re-check the role is not
visible, so `ExecuteForbidden` may happen when the role is gone, and need not. The
legal hold is not data of a row: `ApplyRetention` may leave out any expired case. A
rotation needs a key version above the row's ("encryption key version must
increase", `cases.rs:32`).

`case_from_row` refuses a row whose status or retention class it has no name for, or
whose document reference is incomplete. The service never writes such a row; whoever
else writes the table may (a migration, an import, a newer release). `ForeignWrite`
does, for the pairs in the constant `ForeignWrites`, and the row's `flaw` says what is
wrong with it; a rotation replaces the whole document reference and so mends that flaw.

Data is abstracted to what decides: a command is `expected_version`, `to_status`,
the document's key version and `retain_until`; the canonical hash is the tuple of
what the code serializes. In the code a transition and a rotation serialize commands
with different fields; the model writes the operation into the hash for that. `held`
and `granted` are history: the roles the caller had, and the scopes at arrival.

### EventFeed

`sent` is everything ever sent, the channel keeps its last `Cap` values, and a
receiver is an index (`cursor`). `Receive`, `ReceiveLagged`, `ReceiveClosed` are the
three results of `recv`; `sending` and `ponging` are the awaits on the client during
which the socket receives nothing. The handshake creates the receiver (`Subscribe`)
in the same step as the membership answer, before the upgrade completes.

`Wanted` is the set of subscriptions clients may ask for.

### FeedOfCases

The state of `CaseApi` and of `EventFeed` side by side. The contents of the channel
(`SentEvents`) and the memberships the handshake reads (`TenantsOf`) are computed from
`CaseApi`'s state, so a step of a handler that publishes is one step of both; any other
step belongs to one component and leaves the other alone. The channel closes
(`Drained`) when no handler is left. The history variable `before` keeps which
requests had been answered when a request arrived. `CausesFirst` is about those among
them that were told their own mutation was applied; a replayed answer names an event
that its first attempt may still be about to publish, and is not covered.

### Auth

A request waits at local verification (`guard`), at the session service (`asking`) and
for the service's answer to arrive (`answered`). `Introspect` is the moment the service
looks at the session, `Validate` the moment the handler compares the answer with the
verified identity, the required scopes and the clock. Between the two the session may
change (`SessionChanges`) and time passes (`Tick`). The guard's outcomes and the reports
are external, reduced to the fields the code reads; issuer and audience are "ours" or
not. `CaseApi`, `EventFeed` and `TcpServer` take the whole of it as one step, at the
moment of the service's answer: `AcceptedWasLive` is what entitles them to.

### StatusWorker

Several processes, one worker each, share the durable consumer. `topology` is how the
broker was provisioned; `Connect` starts a worker only if the three validators accept
it, so a wrong topology means that no worker runs. The broker is external and follows
its topology: the ack policy, the duplicate window of the response stream, the
consumer's filter, `max_deliver` and `max_ack_pending` have an effect in the model, the
other fields (storage, retention, direct reads, subjects, the name, the request
stream's window) are only validated. Deliveries go into the buffer of a worker's
subscription first (`Deliver`), may outlive `ack_wait` there, and are dropped with the
worker when shutdown, an error or a crash ends it. They are plain messages: one that is
sent while the connection breaks is gone although the worker goes on (`DeliveryLost`),
and counts against `max_deliver` like any other. The histories `dropped` and `missed`
keep the two apart. Any error in `handle` ends the
worker, because `serve` propagates it and only a new process starts another.

### TcpServer

`permits` and one `stage` per connection. A connection's task holds its permit from
`Accept` to `Close`, whichever of six ways it ends. The read of a frame and the send
of a response always end (timeout); the handshake ends only if the client makes it.
`entitled` is lost (`Revoke`) and regained (`Grant`) at any moment; the history
`entitledAt` is whether it held at some moment since the last frame was read.

### Lifecycle

`phase` is how far `main` has got; `env` is the environment of this start, from the
constant `Environments`. `Setting` asks the operators of `Settings` what each step finds
there, in the order of `main`; a step that touches the network may fail besides
(`StartFails`). Values are abstracted to what the code asks of them: blank, usable, a
number, and for the origin list a sequence of tokens (a scheme, a comma, a space, a
wildcard, a path, a host, a control character). `origins` is the allow-list.
A transport's task runs from `StartTcp`/`StartNats` on, while `main` continues;
`End` drops the runtime with everything in flight. `Interrupt` is SIGINT after
`ctrl_c` is awaited, `InterruptEarly` before. SIGTERM has no handler: `Terminate` ends
the process, or does nothing if it is PID 1, and `Kill` follows. What axum waits for
(requests in flight, not upgraded sockets) is external and modelled as its
`with_graceful_shutdown` does it: without a timeout, so that the drain lasts as long as
the slowest client takes to send its body or read its answer. `Prompt` is the set of
HTTP requests whose clients do their part.

### Entrypoint

`Decrypt` chooses the plaintext; `ExportLine` is one round of the `read` loop with the
shell's field splitting (`Value`), the name filter and "already set wins". The ways to
start without decrypting or to refuse are `ExecUnchanged` and `Refuse`.

## 3. Runs

`tlc -workers 2 -config <cfg> <module>`

| Run | Cfg | Shows |
|---|---|---|
| `case_retries` | `MCCaseApi_retry` | three requests of one tenant, eight commands: the same key with the same command by two users, with another command and for another case, a transition and a rotation racing for version 2, a falling key version, expiry and tombstoning. Responses name the right event and a case no older than it; one event per key and versions without gap; published once and never on replay; a definite refusal means no effect, unless the case's row has become illegible; an identical retry is told the first outcome, with the two exceptions of a creation past its `retain_until` and an illegible row (`RetryOutcome`); refinement of `CaseLedger`. Another writer may spoil the retention class or the document reference of a case |
| `case_access` | `MCCaseApi_access` | two tenants, two users, a promotion, a new membership and a revocation at any moment: isolation, authorized commits, audited GETs |
| `case_liveness` | `MCCaseApi_live` | two requests of any of 12 kinds and malformations always end, also when a status becomes illegible |
| `feed` | `MCEventFeed` | two sockets, one that reads and follows a case of its tenant, one that may stall and follows the whole of another tenant; three events of either tenant, capacity two, a membership that may end: order, isolation, nothing missed while within capacity, an overrun costs only what was overwritten, the reading client catches up while it pings and whatever the other does |
| `feed_of_cases` | `MCFeedOfCases` | a creation and a transition that may overlap, a subscriber that reads and one that stalls, capacity one: a confirmed mutation is delivered before what was asked for after it, an answered mutation is heard, and a stalled socket delays no handler |
| `auth` | `MCAuth` | two requests, bearers of each outcome, a session that changes twice among ten reports (each wrong in one field), three seconds: accepted means live at one moment of the request and within the lifetime at the comparison; refused means out of order at some moment |
| `status` | `MCStatusWorker` | two workers, three starts, two good topologies and eighteen wrong ones, a valid and a malformed signal, two deliveries each, one expiry of the window, any delivery or ack lost in transit: removed means answered, one response per window, deliveries are lost only in transit or with a worker that ends, and a signal is answered unless all of them are |
| `tcp` | `MCTcpServer` | three clients, two permits, two frames each, one client that loses and regains its session: permits, request bound, authorization per frame, and past the handshake every connection ends |
| `lifecycle` | `MCLifecycle` | six jobs of all four kinds; 1792 combinations of configurations (missing, blank, wrong, at and beyond each bound) and all 4681 origin lists of up to four tokens with 1024 of five; PID 1 or not, every signal and every I/O failure at any moment: nothing is served unready, the allow-list is exactly the one written, an end of the process's own cuts no HTTP request, a drain ends while sockets, TCP connections and the worker stay busy, once no request of a stalled client is left, the failure of a transport costs no request |
| `stop_without_drain` | `MCLifecycle_stop` | **violated**: `docker stop` cuts requests without any drain |
| `tcp_handshake_unbounded` | `MCTcpServer_handshake` | **violated**: an accepted connection need not end |
| `entrypoint_loses_padding` | `MCEntrypoint` | **violated**: a value that ends with its only `=` is exported without it |

Why the bounds are enough. Three requests give a first attempt, a retry and a
competitor in every overlap; two keys and two cases give every way a key can be
reused. One step of the clock separates "before" from "after" `retain_until`.
Capacity two with three events lets a receiver stay within it, reach it and be
overrun; two sockets let one stall while the other reads. Two
deliveries are the least `validate_consumer` accepts, so redelivery and exhaustion
both happen; three starts let a worker be replaced, and replaced again. A session that
changes twice can be wrong and right again within one request. Five tokens are what a
list of two origins takes, and four hold every kind of wrong entry beside a right
one. Two permits for three clients give contention and a dropped
connection; two frames are the least for "the next frame" to exist. Capacity one in
`feed_of_cases` makes every backlog an overrun, so a channel that waited for its
slowest reader would show. Deadlock
checking is off in all runs because every model may come to rest: request, socket
and connection ids are used once.

Symmetry is used in runs without liveness only, over ids that no definition tells
apart.

### Fairness

* `CaseApi`: weak fairness of each handler's own steps: tokio polls a woken task, and the
  queries and the introspection call return. The latter is an assumption about Postgres,
  Shared Auth and the network: the pool bounds only how long a connection is waited for
  (`acquire_timeout`, `cases.rs:58`), not how long a query takes. A failed call is the
  separate, unfair step `Unavailable`. Neither a fault nor a disconnect is fair, so no request ends thanks to one.
* `EventFeed`: strong fairness of `recv`, because `tokio::select!` polls its branches
  in random order and a client that keeps pinging cannot starve the other branch
  for ever. A send ends only for clients assumed to be reading.
* `FeedOfCases`: the fairness of its two components.
* `StatusWorker`: weak fairness of a running worker, of the broker's sending of what is
  ready, and of `ack_wait`. No fairness for starts, for the web tier, or for the arrival
  of what is sent in either direction.
* `Auth` and `Entrypoint`: none; their properties are safety properties.
* `Lifecycle`: weak fairness of `main`'s own steps and of the requests in `Prompt` (that
  their handlers end is `case_liveness`). No `TimeoutLayer` is installed and
  `with_graceful_shutdown` has no limit (`main.rs:128-135`): a client that stalls its body
  (the `Json` extractor, `main.rs:347`) or its reading is outside `Prompt` and owes nothing,
  like signals, sockets, TCP connections and the broker.
* `TcpServer`: weak fairness of the accept loop and of a task past the handshake, as
  both of its waits on the client are bounded by the idle timeout; that the two
  service calls of `execute` answer or fail is assumed, as for `CaseApi`. A client owes
  nothing.

### Findings

`tcp_handshake_unbounded`: `transport.rs:142` awaits the TLS handshake without a
timeout while the task already holds its permit. `README.md:84-85` of the repository
calls connections "concurrency/idle/request-count bounded"; in the counterexample a
client connects, is accepted, and nothing ever happens again on that connection, so
its permit does not come back. Everything after the handshake is bounded, which is
what `EstablishedConnectionsEnd` in `tcp` shows.

`stop_without_drain`: the drain starts on SIGINT only (`main.rs:130`).
`.just/env.just:349-350` says the container form leaves the application as PID 1 "so
SIGTERM reaches it directly and it can drain on `docker stop`"; a PID 1 without a
handler ignores SIGTERM. In the counterexample the SIGTERM comes while `main` is still
starting and has no effect: the start goes on, a request is taken, and SIGKILL cuts it
with no drain in between. A request that was in flight when the SIGTERM came fares the
same.

`entrypoint_loses_padding`: `scripts/sops-entrypoint.sh:46` reads `IFS='=' read -r key
value`. Field splitting takes a single `=` at the end of the last field for its
terminator: `KEY=abc=` exports `abc`, while `KEY=abc==` and `KEY=a=b=` stay whole (dash, the
`/bin/sh` of the image, and bash agree). Lines 43-44 of the script say that "Splitting
on the first `=` only keeps URLs, base64 and JWTs intact"; base64 with one padding
character is not.

Behaviour worth knowing that contradicts no promise, and is in the models: a
committed mutation may be answered 404 (the case was tombstoned before it was read
back), 503, or 422 (another writer left the row illegible), and its event is then never
published; one illegible row fails the whole list of its tenant; a retry of a creation is
refused as invalid once `retain_until` has passed; a client that was told "replayed" may
see the event of its next mutation on the feed before the replayed one, which the first
attempt has yet to publish; an open WebSocket survives the
loss of membership; one failed signal ends the status worker of its process, a
shutdown uses up a delivery of every signal in its buffer, and with `max_deliver` 2 two
lost deliveries leave a signal unanswered while workers run; a stalled HTTP client holds
a drain for as long as it likes; `https://*` is an accepted
origin, as an authority like any other; a request is accepted on a session that was
revoked while the service's answer travelled.

## 4. Proofs

`tlapm <module>Proofs.tla`. A theorem holds for all values of the constants that satisfy
the assumptions below: any number of tenants, users, cases, keys, requests, sockets,
signals, workers and jobs, any capacity, any length of an origin list, no bound on the
clock. The proved formulas are the ones the runs check.

| Module | Theorem | Statement |
|---|---|---|
| `CaseApiProofs` | `TypeCorrect` | `Spec => []TypeOK` |
| | `AtMostOnce` | `Spec => []AtMostOnceEffect` |
| | `OnlyAuthorizedCommits` | `Spec => []AuthorizedCommit` |
| | `TenantsAreIsolated` | `Spec => []TenantIsolation` |
| `CaseEffectsProofs` | `RefusedMeansNothing` | `Spec => RefusalMeansNoEffect` (an action property) |
| | `RepliesMatch` | `Spec => []ReplyMatchesRequest` |
| | `PublishedOnce` | `Spec => []PublishedOncePerCommit` |
| | `RetriesAreHarmless` | `Spec => RetryOutcome` (an action property) |
| | `LedgerRefined` | `Spec => ImplementsLedger` (refinement of `CaseLedger`) |
| | `ReadsAreAudited` | `Spec => []AccessAudited` |
| `EventFeedProofs` | `FeedTyped` | `Spec => []TypeOK` |
| | `InOrder` | `Spec => []DeliveredInOrder` |
| | `FeedsAreIsolated` | `Spec => []FeedIsolation` |
| | `NothingMissed` | `Spec => []NothingMissedWithinCap` |
| | `LagIsBounded` | `Spec => LagSkipsOnlyOverwritten` (an action property) |
| `FeedOfCasesProofs` | `CausesComeFirst` | `ComposedSpec => []CausesFirst` |
| `AuthProofs` | `AuthTyped` | `Spec => []TypeOK` |
| | `OnlyLiveAccepted` | `Spec => []AcceptedWasLive` |
| | `NoRefusalWithoutCause` | `Spec => []RefusedForCause` |
| | `NoLateAcceptance` | `Spec => AcceptedWithinLifetime` (an action property) |
| `StatusWorkerProofs` | `WorkerTyped` | `Spec => []TypeOK` |
| | `NothingRemovedUnanswered` | `Spec => []RemovedOnlyIfAnswered` |
| | `OneResponse` | `Spec => []OneResponsePerWindow` |
| | `NothingLostSilently` | `Spec => []LostOnlyToFailures` |
| `TcpServerProofs` | `TcpTyped` | `Spec => []TypeOK` |
| | `NoPermitLost` | `Spec => []PermitsConserved` |
| | `AnswersKeepStep` | `Spec => []LockStep` |
| | `NoStaleAuthorization` | `Spec => []EveryFrameReauthorized` |
| `LifecycleProofs` | `LifecycleTyped` | `Spec => []TypeOK` |
| | `NobodyServedEarly` | `Spec => []ServedOnlyWhenReady` |
| | `NoRequestCutByExit` | `Spec => []ExitCutsNoRequest` |
| | `ServedUnderTheWrittenList` | `Spec => []AllowListExact` |

### Assumptions

TLC evaluates every one of them in a run of the module that states it.

* `InputAssumption`, `StartAssumption` (`CaseApi`): type the constants; at least one tenant.
* `FeedAssumption` (`EventFeed`): types; `Cap > 0`, which `broadcast::channel` insists on; "every
  case" is not a case.
* `SocketAssumption` (`FeedOfCases`): what `FeedAssumption` asks for, in terms of the
  composition, and finitely many requests, so that their number bounds the channel.
* `AuthAssumption` (`Auth`): types; "absent" is no value of a field.
* `WorkerAssumption` (`StatusWorker`): types; "invalid" is no operation. It says nothing about
  the topologies: what the theorems need of them comes from the modelled validators.
* `ServerAssumption` (`TcpServer`): both limits between 1 and 4096, the range `bounded_env` lets
  through; finitely many connections, so that permits can be counted.
* `JobAssumption`, `RawAssumption` (`Lifecycle`): every job has a kind, the prompt ones are HTTP
  requests, and an origin list, if
  there is one, is a finite text over the tokens.

### Inductive invariants and arguments

* **Typing of `CaseApi`** is not inductive alone: `ReadCase` uses `log[evt[r]]` and
  `ExecuteReplayed` uses `log[idem[t][k]]`. `Typing` adds that every recorded index
  points into the log (`IndexOK`) and which operation each stage belongs to
  (`StageOK`).
* **AtMostOnce** rests on `Recording` (the record of an event's tenant and key is that
  event, so two events cannot share them) and `Numbering` (the versions of a case's
  events are `1 .. version`). Only `Commit` writes any of it (`OnlyCommitsWrite`), it
  requires an empty record, and it appends the next version (`CommitAppends`).
* **OnlyAuthorizedCommits** and **TenantsAreIsolated** share `AccessInv`. `Watched`: while
  a request is active the caller's current role is in `held` and the current scopes
  are among those granted. `Scoped` carries the scope past authentication,
  `HandlersCleared` the role past `tenant_context`; `BodiesCleared` and `EventsCleared`
  keep that for what was read and written. The role is used after an await in which
  it may change, and this is why the theorem says "at some moment of the request"
  and not "at the commit".
* **What a mutation leaves behind** (`EffectsInv`). `Provenance`: an event carries the slot,
  the hash and the version of the request that wrote it. `Owned`: that request is past its
  transaction, where only a handful of answers are left (`Failed`); of those only a row
  that is illegible in the step of the answer is a definite refusal, which is
  `RefusalMeansNoEffect` read from the other side. `SlotOK` and `HashTellsApart`: a record found with an equal hash is that of the same
  request, so `Referred`, the event a handler holds, is its own or that of the request it
  repeats. `TenantsFixed` and `ReadBack`: the case it read afterwards is that event's, and not
  older. Publication and the answer of a fresh mutation are one step, so an event on the
  channel is one whose writer has returned (`PublishedStep`), and none can be there twice.
  `LedgerRefined` maps every action to `Ask`, `Record`, `Acknowledge` or a stutter of
  `CaseLedger`; the invariant gives the guards of the abstract actions. `RetriesAreHarmless`
  goes through the ways a handler can end (`Endings`) and excludes, with the record of the
  first attempt, those that talk about the command; `RetryTarget` says that the case an
  identical request reads back is that of the recorded event, so an illegible row is the
  one the exception names. `ReadsAreAudited` counts: each step adds
  at most one reader to an entry and then also an entry, and readers are finitely many
  because of that, whatever the set of requests.
* **The feed** (`FeedInv`), socket by socket. `Fresh`: nothing is counted before the
  subscription. `Positioned`: the receiver is past the events of its past, and its backlog is
  part of `behind`, so a receiver that lags has been further behind than `Cap`. `Ordered`: what
  was delivered is increasing, allowed, and behind the receiver and the event in flight.
  `Complete` is what `NothingMissedWithinCap` says.
* **Causes first** (`CauseInv`). Every step of the composition is a step or a stutter of
  `CaseApi` (`ApiStep`), and a step of `EventFeed` or nothing to it (`FeedOrQuiet`), so both
  invariants hold as they are; a membership that changes is none of the feed's own steps here
  and is dealt with separately. New are: `Known`, what was answered when a request arrived has
  succeeded for good; `Precedes`, an event on the channel has before it the events of all
  mutations confirmed to their own callers when its request arrived, because those had been
  published when they were answered (a replayed answer promises no such thing, and is not
  covered); and
  `GapFree`, a client within the capacity holds, with every event, all the allowed ones before
  it, also after its socket closed.
* **Auth** (`AuthInv`). `Watched`: the present report is in the history of every waiting
  request, so what the service reports was true at a moment of the request; `Answered`: the
  answer that travels is one of them; `Elapsed`: the comparison happens no earlier than the
  arrival. `ValidateExact` says that `validate_active_session` accepts exactly the reports that
  agree and are within their lifetime: both directions, so `OnlyLiveAccepted` and
  `NoRefusalWithoutCause` follow from it.
* **Status worker** (`WorkerInv`). `Running` and `Served`: a worker, or a signal that was ever
  delivered, means that the validators accepted the topology. `Confirmed`: a worker about to
  ack, and an ack on its way, has a stored response behind it. `Windows`: the responses of an
  operation are at most the times its id was forgotten, plus one while it is remembered.
  `Traced`: every delivery of an unanswered signal is with a worker, among the dropped or
  among the missed; `DeliveryLost` adds to the last what it adds to the count.
* **TCP** (`TcpInv`). `PermitMoves` counts the holders of permits at every step. `NoLeftover`:
  no response is left over when the next frame is read, and `Marked`: who is entitled while
  a frame waits for authorization was so when it was read or has become so since.
* **Lifecycle** (`LifeInv`). `Settled`: what `main` has passed, it found in order. `Spawned` and
  `Taken` carry that to transports and jobs, and to later phases in which `main` itself has
  moved on. `Whole`: no HTTP request is cut while nobody kills the process.
  `ServedUnderTheWrittenList` needs what `Split` and `Trim` do to a text of any length:
  `ItemGivesPiece` and `PieceGivesItem` relate the pieces between commas to the entries
  `ListedIn` finds by looking for a text bounded by commas and spaces, two definitions that
  have nothing in common.

What the attempts to prove found, and what was changed for it: `Agrees` in `Auth` let two
absent session ids agree, which `validate_active_session` does not (`auth.rs` asks for a
session id on both sides); the property said less than it meant. Several case
distinctions had overlapping `CASE` arms, of which the semantics of TLA+ picks any; they are
`IF` chains in the order of the code now. Neither changed what TLC had found.

### Model-checked only

Out of the prover's reach and left to TLC: the liveness properties `EveryRequestEnds`,
`ReadersCatchUp`, `MutationsAreHeard`, `AnsweredUnlessAllLost`, `EstablishedConnectionsEnd`,
`DrainEnds` and `RequestsOutliveAvenues` (fairness and `ENABLED`). The three runs that end in a
violation have nothing to prove; `Entrypoint` is checked by one of them only.

## 5. Not modelled

* **Health, metrics, the audit verifiers**: constants and single reads; no state.
* **Logging, lint, CI and image files**: output and build steps.
* **Encrypted environment files** (`just` recipes, `dotenv.py`): developer tooling whose
  effects are those of git, sops and docker; none of it runs in the service. Of the
  path into the container only the entrypoint is modelled.
* **TLS and PEM material, the contents of credentials files**: a file is usable or not.
* **SQL functions, NATS, Shared Auth, tokio, axum, rustls**: external, modelled as the
  code uses them.

## 6. Plan

The code that decides something is modelled, and every safety property a run checks is
proved. What is left:

1. The parts of the liveness arguments that are safety: that a handler's next step is always
   one of its own stages, and the measures that a drain, a connection or a worker decreases,
   as action properties.
2. The type and safety invariants of the feed inside `FeedOfCases` as theorems of their own,
   for readers who only look at the composition.
3. Lemmas about `Entrypoint`'s field splitting: which values survive it.

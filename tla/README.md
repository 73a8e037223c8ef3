# A TLA+ model of act-web-server

`act-web-server` is the public web process of Anticaptrad: it authenticates a
caller with Shared Auth and answers reads over one of four transports. These
modules model the parts of it that share state, wait, time out and fail, check
them with TLC on small instances and prove the main results with TLAPS for
every number of requests.

## The system

| Component | State | Operations | Modelled in |
| --- | --- | --- | --- |
| Persistent mTLS client, `data_plane.rs` 78-162 and 256-275 | a tokio `Mutex<Option<Framed>>`, the operation counter, one future per request | lock, take, connect, send, receive, put back, check the reply | `MtlsClient`, with time `MtlsDeadline`, under the permits `MtlsGateway` |
| JetStream submission, `data_plane.rs` 277-311 and 381-413 | the operation counter of each process, the clock | read the clock, draw the counter, publish, await the acknowledgement | `JetStreamSubmit` |
| Gateway admission, routes, direct read: `data_plane.rs` 164-245, `routes.rs`, `db.rs` | a semaphore of 64, a pool of 10 | authenticate, take a permit, run the mode, give back | `Gateway` |
| Shared Auth verifier, `auth.rs`, and the gateway's own look at the header, `data_plane.rs` 415-438 | none but the request's | parse, introspect, check the claims, forward | `SharedAuth` |
| Bounded HTTP client, `data_plane.rs` 313-359 | the body collected so far | GET with a timeout, chunks under a limit | `BoundedBody` |
| Startup, configuration, readiness: `main.rs`, `config.rs`, `routes.rs` 50-61, `telemetry.rs` 41-84, `db.rs` 20-50 | the environment, the `Option`s of `TransportGateway`, four booleans | validate, connect or disable, serve, shut down | `Startup` |
| The life of the process, `main.rs` 78-191 | all of the above | start, accept, drain, exit | `WebServer` |
| Flag resolution, `flags.rs` | a `OnceLock` of resolved values | write the contract, parse, layer, coerce, `--help`, `--version` | `Flags` |
| Operator page, `ui.rs` 99-135 | the DOM | submit a token | `OperatorPage` |
| Encrypted environments, `.just/env.just` | `env/enc`, `env/dec` and the temporary files beside it | decrypt, encrypt, edit, new, clean | `EnvFiles` |
| Container entrypoint, `scripts/sops-entrypoint.sh` | the environment of the shell | decrypt, export line by line, exec | `Entrypoint` |
| SSR pages, policies of `web_api_plane.rs`, migration crate, lint rules, CI | none the program's control depends on | | not modelled |

How they interact: the environment is what `EnvFiles` keeps and `Entrypoint`
exports; `process_control` lays flags over it (`Flags`) before `main` reads it.
`main` runs `Startup` once and hands its findings to the
gateway and to `GET /ready`. Every request to a protected route goes through
`require_auth` and then the gateway, whose `read` takes a permit and awaits one
transport. All requests of the mTLS mode share one connection behind one mutex;
all JetStream submissions of a process share one counter. axum may drop the
future of a handler at any await, when its client goes away. Outside are the
API, NATS, PostgreSQL and Shared Auth.

What is hard: a cancellation or timeout between the two halves of an exchange
on a connection that others will use; the lock held across four awaits; an
answer nobody asked for; acknowledgements that do not say what was acknowledged;
ids made of a clock and a counter that starts over; permits that must survive
every error path; a database that stops answering while it holds what others
wait for; facts found at start and reported later; two parsers of one header; a
body whose end may be a cut; shell recipes that stop anywhere. `PROJECT.json` lists these
hazards at their lines.

## The modules

`MtlsClient` has one action per await of `PersistentMtlsClient::request` and per
way it can end. `pc[r]` is the await at which request `r` is suspended:
`waiting` for `lock().await`, `tcp` and `tls` in `connect`, `sending`,
`receiving`. `ahead` is the FIFO queue of the tokio mutex, `pooled` the `Option`
inside it, `hand[r]` the connection that `guard.take()` or `connect` gave. A
connection is named after the request that opened it, which opens one at most.
`Return` is the end of `tcp_read`, where the guard and the locals are dropped;
only `ReceiveReply` puts the connection back, and it does so before `Interpret`
compares operation ids, as the code does. `Cancel` is the dropped future. The
API is external: it reads frames in order and answers each at most once with the
data of the bearer in it, with the frame's id, or refuses it without an id; it
may close a connection, never answer, or send `MaxStrays` frames that repeat an
old answer. What the API does is taken from what the client is prepared for.

`CorrelatedCall` is what a transport with operation ids promises, without locks,
connections, frames or messages: a call takes effect at most once, also after its
caller gave up, and is answered at most once, with its caller's data, after it took
effect; a process that dies fails what it serves. `MtlsClient` implements it, where the
effect is the execution by the API, and so does `JetStreamSubmit` with one process, where
it is the copy in the stream and the data is the operation that the id handed out stands
for. Both do so under a mapping `CallOf`; `MtlsClient` has no restart, since nothing of a
connection outlives its process.

`JetStreamSubmit` has one action per await of `jetstream_submit` and its
failures. An operation id is a pair of a millisecond and a counter value, read and drawn
in two actions (`ReadClock`, then `Submit`), between which other handlers, the clock and
restarts may come: nothing in the code makes the two one.
`Restart` sets a process' counter back and drops its handlers. `SetBack` sets the clock
back, but not to before the start of a process that runs. That the clock has passed the
ids of the life before when a process starts again is `ClockOverRestart`, an assumption
about the environment that stands beside `Restart` and not in it: nothing in the code
sees to that, and the hazard at line 440 is what is left. The broker is
external: it keeps the first message of a deduplication id and acknowledges
every copy; messages and acknowledgements are lost, messages arrive twice.

`Gateway` has one action per decision in front of the transports and per await
of a direct read. The permits are counted, not named. `returning` counts
connections a dropped transaction has put on their way back to the pool, which
the database must confirm before they are free. The mTLS, HTTP and JetStream modes
are one await, `calling`, that ends with some outcome; `MtlsClient` and
`JetStreamSubmit` show of two of them that it does, and `reqwest`'s `timeout` ends
the third. Its initial states are the ones `Startup` permits (`AcceptedIsQueryable`).

`Startup` has one action per step of `main`. A variable of the environment is
absent, bad (its own validation rejects it) or ok; `ACT_API_URL` may also be the
loopback host of IPv6. `hostUsable` stands for what
`main` needs of the host (URLs that build a client, key files, a free port); a
host that is not usable may make each such step abort. `Outage` lets the
database and the broker change at any time. A database may also be `stalled`: it
is there and answers nothing. `DirectReadStore::connect` is therefore two actions,
`ConnectDatabase`, which the pool's timeouts end, and `ProveRole`, the query of the role,
which has no limit and takes no step while a database that granted the connection is
stalled.

`MtlsDeadline` is `MtlsClient` with a clock: `age` is the time since the
operation's deadline was set, `timer` the time at the present await, `inFront` how
many stood in the queue or at the lock. A tick passes only when no timer is due and
the mutex is not about to be granted. Each action of `MtlsClient` is followed by `Retimed`,
which starts the timer of whoever came to a new await.

`MtlsGateway` puts `MtlsDeadline` under the permits of `Gateway` (instance `G`), whose
"calling" it fills in: `Enters` is `G!Admit` and `Enqueue` in one step, as `read` has no
await between them; `Ends` is the return of `tcp_read` and with it of `read`, which gives
the permit back; `Drops` is the dropped future, of the call and the handler at once.
`Elsewhere` is every step of a request that is in no mTLS call. `SentWithinPermits` is
what the two modules say together and neither by itself: 64 permits bound how long a
request waits for the one connection, whatever the number of requests.
`UnderPermit` and `FrontWithinPermits` are the two halves of the reason. `PermitsComeBack`
discharges what `Gateway` assumes of its calls, that they end.

`SharedAuth` follows one protected request: the middleware's parser, the
introspection, the claims, the handler's and the gateway's second parser, and what
is sent. A header value is a scheme, its spaces and a rest, in every form the two
parsers tell apart, and a header may have two values. The client crate is external:
it checks the scopes, and an introspection that fails does so with any of the eleven
variants of its `ClientError` (`ClientErrors`); which of them are the token's fault is
what `map_client_error` matches (`TokensFault`).

`BoundedBody` is one call of `bounded_http_get` with one action per chunk of any
size. A response declares its length, is chunked, or ends when the connection
closes; it may break off anywhere, and only the last form hides that.

`WebServer` composes `Startup` (instance `S`) and `Gateway` (instance `G`): `gateway`,
which `Startup` computes, is what `Gateway`'s constants `configured` and
`verifierConfigured` are in this life. It adds the shutdown: `Signal` stops the
accepting, `Exit` needs that no request is in flight. The database goes down and
comes back while requests are at their awaits. `GatewayAssumption` says that
what starts to serve is an initial state of `Gateway`; `StartupSpec` that, without its
requests and with draining as a part of serving, this is still a `Startup`;
`ServedIsGateway` that, once it serves, it is a `Gateway`. `FailsClosed` relates the two
ends, the environment the process was given and what its requests are answered;
`ExitIsGraceful` says what a shutdown leaves.

`Flags` is `process_control` and `resolve_from`: the embedded contract, what the
parser reports, the four layers as functions on names, the typed pass, and whether
`main` goes on. The parser is external and reports anything its types allow.

`OperatorPage` is the submit listener of the page, of which any number may be suspended
at `fetch` or `json()`. The status of an answer is one of those the page has words for, or
429, which stands for whatever the stack around the router (`main.rs` 153,
`config/ores-middleware-stack.json`: rate, deadline, transport policy) refuses with.

`EnvFiles` has the ciphertext, the plaintext and the temporary files of one
environment, and one action per test or command of a recipe. A recipe that tests for a
ciphertext and opens one by `>` does so in two (`EncryptStarts` or `NewStarts`, then
`Open`), and git may bring a ciphertext between them (`CiphertextArrives`), which `Open`
empties. Under `set -e` and without a trap, a failed command and an interrupt are the
same: `Fail`, between any two. sops, the user and git are outside. One recipe runs at a
time. A file holds for each variable the version of its value. Three ghosts say what a
recipe owes: `mine`, the versions the user wrote to the plaintext; `filed`, those an
env-encrypt that succeeded took from it; `brought`, that the present ciphertext came
after the test. The properties compare them with what the files hold.

`Entrypoint` is the script of the container from its tests to `exec`. A value is empty,
ends in the padding of base64, or is a text. The script's own variables (`Own`: `key`,
`value`, `secrets`, `SOPS_SECRETS_FILE`) are in the same namespace as the container's and
the file's, as in the shell: `LeftOf` is what the script leaves of what a container set.

`ProtectedCall` composes `SharedAuth` and `BoundedBody`: a request that is sent on
over HTTP makes one call of `bounded_http_get`, and what the call returns is its
answer. `DocumentsAreVouchedFor` relates the two ends.

The `MC*` modules add symmetry, environments and other values for TLC. `MCProtectedCall`
(request and page), `MCEnvFiles` (recipes and container) and `MCStartup` (`process_control`
and the rest of `main`) put two modules that share no state in one run: a behaviour follows
one of them, and each property speaks of one. `MCMtlsGateway` bounds who comes and what
the API answers, below. `*Proofs` modules hold the
theorems. Operators under a comment that begins with "Fault:" are not part of
the specifications: each is what a definition would be with a plausible mistake
in the code, and PROJECT.json names the property that catches it.

## The runs

| Run | Bounds | Shows |
| --- | --- | --- |
| `mtls` | 3 requests, 2 stray frames | `OwnProjection`, `PooledLag`, `SingleConnection`, and the refinement of `CorrelatedCall` |
| `mtls_gateway` | timers of 1 tick, 2 permits, mTLS mode only; 2 requests (`Few`) with an API that may do anything, 1 stray frame included, or 3 requests with an API that answers with a result, as late as it likes, or never (`ApiAnswers`, `MCAnswers`) | how late after its deadline an operation is sent, and why; nobody waits for the connection longer than the other permit may hold it; every request returns; a silent API leaves permits |
| `jetstream` | 2 submissions, 1 process, 3 ticks or restarts, the clock set back | distinct ids, accepted operations stored once, every submission returns; the refinement of `CorrelatedCall` |
| `jetstream_replicas` | 2 submissions, 2 processes | violation: an accepted operation that is not stored |
| `gateway` | 3 requests, 2 permits, 1 connection | permits conserved, also with a stalled database; reads return if it answers |
| `gateway_deadline` | 2 requests | violation: a direct read that never returns |
| `startup` | 3 variables, 5 texts; the environments of `main` with at most one value it would refuse | precedence of the layers; the server runs only on a clean command line; the probe agrees with the gateway; accepted means queryable; only a stalled database keeps a valid configuration from being served |
| `startup_ready` | all environments | violation: a lost database is reported for ever |
| `startup_stall` | all environments | violation: a database that stalls at the role query keeps the server from ever starting |
| `web_server` | 2 requests, 2 permits, 1 connection, 6 deployments, 2 of them without a verifier | the process is a `Startup`, and fails closed; a shutdown cuts off nobody and waits at most for BEGIN and COMMIT |
| `protected_call` | every header, claim and route; limit 4, bodies up to 6; 3 submissions | what is sent is what Shared Auth vouched for, what is answered is a whole document, the call ends; a submission that nothing overlaps shows its own verdict, and some verdict is shown when none is pending |
| `environments` | 3 variables, 2 of them named like the script's own; 3 changes, 2 lines | no whole ciphertext a recipe could see is damaged and no edit is lost; the container wins; all secrets or no start |

Why the bounds are enough to see the interesting cases. In `MtlsClient` three requests are
one that leaves something on the connection, one that inherits it, and one that waits
meanwhile; two stray frames let a second one arrive behind the first. In `JetStreamSubmit`
two submissions can fall before, between and after restarts, which is where an id could come
again. In `Gateway` requests outnumber permits and permits outnumber connections, as 64
outnumber 10 in the code (`LimitsAssumption`). In `BoundedBody` a body may fall short of the
limit, meet it or pass it by one chunk or several. In `EnvFiles` three changes are one that
git brings, one that the user makes to what was decrypted and one more of either before,
between or after the recipes that carry them; in `Entrypoint` two lines may repeat a name,
one of the script's own included. The checks of `main` are a conjunction, so a second value
it would refuse changes nothing (`MaxBad`). In `MtlsGateway` with two requests one waits for
another that uses up all four of its timers while the API does its worst; three requests for
two permits are one that has the mutex, one that waits for it, and one that is refused or
comes when one of them has ended, while the other may still be waiting. In `WebServer` a
request is in flight at the signal and another arrives before it or not at all. The proofs
do without bounds. `Finished` actions let the system stop only when every request has ended,
and in `Startup`, `WebServer` and `EnvFiles` the world outside never stops, so TLC's
deadlock check is never switched off.

## Fairness

`CallFairness` of `MtlsGateway` (for each request in an mTLS call, its next await or its
return) and `FairSpec` of `MtlsClient` and of `JetStreamSubmit` assume weak fairness of
each request's own steps: tokio polls a task whose I/O or lock is ready and fires an elapsed
timer. Nothing is assumed of the API, the broker or the network. `PermitsComeBack` is
about an API that is silent and no more, as that run has the mTLS mode only; that a stalled
database leaves permits is `StalledDatabaseLeavesPermits` of `gateway`. `WebFairSpec`
of `Gateway` assumes weak fairness of the timers and of the calls to the other
transports; that PostgreSQL answers, which the code needs for BEGIN and COMMIT, is a
premise of `ReadsReturnIfTheDatabaseAnswers`.

`FairSpec` of `Startup` assumes that `main` runs on, that an attempt to connect to the
database ends, which sqlx sees to with the five seconds of the pool, and that
`async_nats::connect` ends, which is assumed of the library. That the role query ends it
does not assume: `ProveRole` is enabled only while the database answers or is gone, and
`StartWaitsForTheDatabaseOnly` says that nothing else can keep `main` from serving a valid
configuration.

`FairSpec` of `WebServer` has that for `main`, the same of each request's own steps
(`Serve`) and of `Exit`; it takes it from `shared-auth-client`, which is external,
that an introspection ends, as `Gateway` does. Nothing makes a signal come or the
database answer; that it is up for good from some time on, and then answers, is the
premise of `ArrivedIsAnswered` (`DatabaseComesBack`). `CallSpec` of
`ProtectedCall` needs only the timer of the request, which `reqwest` runs until the end
of the body, and that a handler whose call has ended answers.

## What is proved

For any number of requests, with the assumptions named in the modules. Every invariant
and every action property that a passing run checks is a theorem; the runs alone show
liveness.

- `MtlsClientProofs`: `TypeCorrect`; `Inductive` (`Spec => []IndInv`); from it
  `OwnProjectionHolds`, `PooledLagHolds`, `SingleConnectionHolds`, and `Refinement`.
  `OwnProjection` is not inductive. It needs that a reply on the wire carries the id of the
  request whose data it holds (`ReplyInv`), that ids are not repeated (`IdInv`), and that
  the API executes a frame once because it was sent once (`FrameInv`, `ExecInv`).
  `PooledLag` needs a count of frames on each live connection: as many as strays, and one
  more while its holder awaits a reply (`LagInv`). `SingleConnection` needs that the lock
  has one holder and the `Option` is empty meanwhile (`LockInv`, `HandInv`), and that a
  connection is not used before it is opened or after it is dropped (`WireInv`).
- The same module, about `MtlsDeadline`: `TimedIsMtlsClient`, so that all of the above holds
  with time; `TimedInductive` (`TimedInv`); `SentWithinBoundHolds` for any timeout; and
  `EveryFrameLeavesInTime`: with finitely many requests, none is older at a timed await than
  all of them holding the mutex in turn. The bound alone is not inductive: it needs to say
  of every request in the queue how much of its wait is used up (`WaitsInTurn`), which
  counts those still in front of it (`StillInFront`). That count goes down by one when the
  mutex changes hands only because the queue is a total order of the waiters (`LineInv`),
  which nothing in the bound says; and no await outlives its timer (`TimerInv`).
- The same module, about `MtlsGateway`: `GatewayIsTimed` and `MtlsGatewayIsGateway`, the two
  projections, so that all of the above and all of `GatewayProofs` hold of it
  (`MtlsGatewayConservesPermits`). `CallsUnderPermits` combines them: a request in an mTLS
  call has a permit (`UnderPermit`), so there are at most as many as permits, and one that
  enters finds at least one fewer in front of it (`FrontWithinPermits`), by the conservation
  of permits. With `TimedInv` that gives `SentWithinPermitsHolds`, for any number of
  requests, permits and ticks; `OwnAnswerHolds` carries `OwnProjection` to what the handler
  answers.
- `JetStreamProofs`, for one process: `Inductive`, `OperationIdsDistinctHolds`,
  `AcceptedIsStoredHolds`, `StoredOnceHolds`. The invariant says that an id is older than
  the start of its process or behind its counter (`DrawnInv`): a new id cannot have been
  drawn before, also when the clock has been set back. Distinct ids then make an
  acknowledgement mean that the message is stored (`StreamInv`). `Refinement` maps every
  step, restarts included, to `CorrelatedCall`; that the id an accepted caller holds stands
  for its own operation and no other (`OwnIdInv`) is where it needs distinct ids.
- `GatewayProofs`: `Inductive`, `PermitConservationHolds`,
  `DatabaseNeverHoldsAllPermitsHolds`, by counting the sets of reads with a permit and with
  a connection, for any limits with fewer connections than permits.
- `StartupProofs`: `Inductive`, `ReadyMatchesGatewayHolds`, `AcceptedIsQueryableHolds`, from
  what the environment's validation leaves of its combinations (`PartsInv`).
- `WebServerProofs`: `StartupSpecHolds`, the refinement of `Startup` by the process with its
  requests, with one lemma that maps each step; and `GatewayAssumptionHolds`, which cites
  the invariant of `StartupProofs` through that refinement. So what `Gateway` assumes of its
  initial state is proved of the state in which the server begins to serve. From there each
  step is one of `Gateway` or leaves it alone (`ServedIsGatewayHolds`), and the invariant of
  `GatewayProofs` holds from the start of the process to its end: `ProcessConservesPermits`
  and `ProcessKeepsPermitsFromDatabase`, whatever outages and signals there are.
  `FailsClosedHolds` goes the whole way from the environment to an answer: a request past
  `require_auth`, or at the database, proves the part of the gateway it went through
  (`ServedInv`), the part proves the variables it was made of (`SourcesInv`), and these were
  validated (`PartsInv`). `ExitIsGracefulHolds` combines the drain with the permits.
- `ProtectedCallProofs`, for any limit, bodies of any length and any number of submissions:
  `Inductive` of `BoundedBody` by itself, with `BodyBoundedHolds`, `OkIsWholeDocumentHolds`
  and `GoodDocumentIsNotRefusedHolds`; then of the composed request that it is a
  `BoundedBody` and a `SharedAuth` (`CallIsBoundedBody`, `RequestIsSharedAuth`), and
  `SentOnItsWordHolds` and `DocumentsAreVouchedForHolds`; of the page `SoloVerdictHolds` and
  `EveryVerdictIsShownHolds`, which the lemma `PageIsOperatorPage` carries to the run's
  module; and `AllTypesCorrect`. `AuthInv` says what each await of a request knows: after
  the introspection, which token was asked about and what was said of it. `CallInv` ties the
  call to the request: one begins only for a request that was sent on over HTTP, and an
  answer of 200 has one behind it that ended well. `SoloInv` says that without overlap at
  most one handler is suspended, and the page shows the last verdict when none is.
- `FlagsProofs`: `Inductive`, `PrecedenceHolds`, `OthersUntouchedHolds` and
  `RunsOnlyWhatWasAskedHolds`, for any names, defaults, texts and canonical forms. The
  invariant keeps what the layers give (`Resolved(Raw)`) and that none is malformed. The
  same module has both halves of a start (`StartIsFlags`, `StartIsStartup`), so that the
  theorems of `StartupProofs` are also those of `MCStartup`.
- `EnvironmentProofs`: of the recipes `TypeCorrect`, `WholeCiphertextStaysHolds`,
  `PlaintextIsReplacedWholeHolds` and `EditsSurviveHolds`. `WholeCiphertextStays` needs that
  where `>` is about to open a ciphertext there is none, or one that came after the test
  (`OpenInv`); `PlaintextIsReplacedWhole` that what `mv` finds is whole (`MoveInv`). For
  `EditsSurvive`, `EditsInv` adds that no file holds a value newer than the newest version
  (so a later value is a newer one), that nothing is filed while a ciphertext is still to be
  made, and that what `rm` removes holds no edit any more. Of the entrypoint
  `ContainerWinsHolds` and `AllOrNothingHolds`, for any number of lines: the lines read so
  far have set exactly the variables the container leaves open, each as the first line of
  its name has it (`EntryInv`). `RecipesAreEnvFiles` and `ContainerIsEntrypoint` are lemmas
  that carry this to the run's module.

`TypeCorrect` is also proved of `Gateway`, `JetStreamSubmit` and `Startup`. The runs ask
for what is proved where the small instance shows something of its own. The type and
inductive invariants, `StoredOnce` (a part of the refinement), `UnderPermit`,
`FrontWithinPermits`, `OwnAnswer`, `OthersUntouched`, `PlaintextIsReplacedWhole`,
`GatewayAssumption`, `ServedIsGateway`, `ExitIsGraceful` and `AllTypesOK` are proved and in
no run.

Assumed of constants: that what stands for "nothing" is none of the values
(`NoneAssumption`, `AbsentAssumption`, `HiddenAssumption`), and that the direct mode is none
of the others (`ModesAssumption`, `FourModesAssumption`); that there are fewer connections
than permits, 10 and 64 in the code (`LimitsAssumption`, `PermitsAssumption`); that requests
are finitely many where they are counted (`RequestsAssumption`, `FiniteRequestsAssumption`);
that limits and timers are numbers; and of `Flags`, how its names, texts and defaults are
related. Assumed of the world: the clock is not set back to before the start of a process
that runs, and over a restart it has passed the ids of the life before (`ClockOverRestart`
of `JetStreamSubmit`); the API answers a frame with that frame's id and bearer's data
(`MtlsClient`).

Only model-checked: liveness, since temporal reasoning under fairness is out of the
prover's reach: `EveryRequestReturns`, `PermitsComeBack`, `EverySubmissionReturns`,
`StalledDatabaseLeavesPermits`,
`ReadsReturnIfTheDatabaseAnswers`, `StartWaitsForTheDatabaseOnly`, `ArrivedIsAnswered`,
`ShutdownWaitsForTheDatabaseOnly` and `SentIsAnswered`.

## What disagrees with the documentation

1. README.md:30-31 promises a two-second deadline for the direct read. `db.rs`
   puts only the query under it; BEGIN (line 63) and COMMIT (line 91) have none
   (`gateway_deadline`). The wait for a connection has the pool's five seconds.
2. README.md:41 speaks of a stable operation and deduplication id. It is
   stable within a process; two replicas can draw the same one, and one caller is
   then told `accepted` for an operation the broker dropped (`jetstream_replicas`).
3. README.md:98 says that `GET /ready` includes whether the database is
   available. It includes whether it was when the process started (`startup_ready`).
4. README.md:49-51 says that an unavailable database does not take the process down. `db.rs`
   line 35 awaits the role query without a limit before `main` binds its listener: a database
   that stalls at that moment keeps every route down (`startup_stall`).

Seen while modelling, in actions of the modules but without a run that asks for what
the documentation says:

5. README.md:32-33 allows HTTP on loopback and `config.rs` names `::1`, but compares it with
   a host that has brackets: `http://[::1]` is refused (`ApiUrlValid` of `Startup`).
6. README.md:55 says that configuration comes only from the environment. The
   command line is laid over it and wins (`Precedence`).
7. README.md:122 asks for compatibility with a read-only root. Every start
   writes a temporary file first (`WriteContract` of `Flags`).
8. `env.just`:101 and env/README.md:50 say that env-encrypt folds edits back and
   touches only what changed. It copies the whole plaintext over a ciphertext
   that may be newer (`EditByCopy` of `EnvFiles`).
9. `env.just`:84: env-encrypt encrypts a plaintext. After a first attempt that
   failed it cannot, until the empty ciphertext is removed: `Open` made it, and the next
   `EncryptStarts` takes it for one.
10. `env.just`:315 says that env-clean wipes the plaintext from `env/dec`. The
    temporary file of an interrupted env-decrypt stays (`CleanStarts`).
11. `sops-entrypoint.sh`:43-44 says that base64 stays intact. A single "=" at the end is
    dropped by the shell's `read` (`Field` of `Entrypoint`).
12. `sops-entrypoint.sh`:44-45 says that what the container sets wins. Of the names `key`,
    `value`, `secrets` and `SOPS_SECRETS_FILE` the script empties or unsets it (`LeftOf` of
    `Entrypoint`).

Seen while reading, and not modelled:

13. README.md:120 asks for a persistence signal. The page reads it from
    `database_connected` (`ui.rs` 91), which `GET /ready` does not have, and shows "not
    configured" whenever it is answered.
14. env/README.md:119-120 says that all paths share one parser. The entrypoint has its own,
    which keeps quotes.

## Abstractions

Payloads, certificates, headers and JSON are left out; a bearer is the request it belongs
to. The SQL text and the 100-row bound are part of "the query fails". Ids are compared only
for equality in `MtlsClient`, so drawing one and joining the lock's queue are one step
there. A frame is sent whole or not at all: part of a frame can only be left on a connection
that is dropped. But for `MtlsDeadline` and `MtlsGateway` time is not modelled: a timer is
an alternative that is always enabled, and `MtlsDeadline` shows what that leaves out.
`SharedAuth` and `Gateway` look at the same handlers from two sides, who a request is and
what it holds; `Gateway` takes the first as a choice. In `WebServer` a life is not followed
by another. The order of `env-clean`'s zeros and `rm` is kept, not what a file system
writes. Of a recipe that handles several environments one is followed; they share no file.
An access mode and role of the database are a fact of the external database in `Startup`.

## Not modelled

The optional SSR pages are static. `telemetry.rs` matters to `Startup` for whether it can
fail; what it writes is output. `web_api_plane.rs` states constants an external crate
validates, and the server does not call it. The migration crate runs its DDL once. Of
`env.just`, the managed symlink `.env`, key generation and rekeying and the recipes that
only read or report, with `.just/dotenv.py`, are left out, as are the container and
Kubernetes recipes that keep nothing on disk. The middleware stack installed around the
router is external: it may end a handler, which is `Cancel`, and refuse a request before it
reaches one, which only the page sees. Of the page, `loadStatus` (`ui.rs` 75-97) is left
out: it runs once and sets three texts from two answers.

## Plan

All modules of the first plan are written: `CorrelatedCall`, `MtlsClient`,
`JetStreamSubmit`, `Gateway`, `Startup`, then `MtlsDeadline`, `BoundedBody`, `OperatorPage`,
`Flags`, `SharedAuth`, `WebServer`, `EnvFiles`, `Entrypoint`, `ProtectedCall` and
`MtlsGateway`, with proofs of all their safety properties. Left, in this order:

1. One life of `WebServer` after another, with what a client sees of the gap.
2. `JetStreamSubmit` as the JetStream mode of `Gateway`, as `MtlsGateway` does for mTLS.
3. `env-use` and the managed symlink of `EnvFiles`.

# A specification of the container hub

The container hub (`src/`) is a central server with a web UI and an API, and one
agent per cluster. The clusters (Kubernetes, Nomad, Docker Swarm) cannot be
reached from outside, so each agent opens a WebSocket *to* the server, and every
call of the server to a cluster's orchestrator travels back through it. This
directory holds TLA+ models of the parts where that goes wrong in ways a test
hardly reaches, TLC configurations that check them on small instances, and
theorems about them that TLAPS checks for every value of the constants.

- [The system](#the-system)
- [Modules](#modules)
- [How the models correspond to the code](#how-the-models-correspond-to-the-code)
- [What is checked](#what-is-checked)
- [Fairness](#fairness)
- [What is proved](#what-is-proved)
- [Disagreements with the documentation](#disagreements-with-the-documentation)
- [Not modelled](#not-modelled)
- [Plan](#plan)

## The system

| Part | State | Operations | Interacts with |
|---|---|---|---|
| Hub, one connection (`tunnel/hub.go`, `AgentConn`) | `pending`: request id to channel; the WebSocket | `RoundTrip`, `RoundTripStream` and its pump goroutine, `readLoop`, `sendCancel` | callers through channels and pipes; the agent through messages |
| Hub, registry (`tunnel/hub.go`, `Hub`) | `tunnels`: cluster id to `AgentConn` | `HandleConnect`, `get`, `IsOnline` | the API through `onJoin`, `onLeave`, and `Transport` |
| Agent (`tunnel/agent.go`) | `streams`: request id to cancel function; the backoff | `Run`, `connect`, `handleRequest`, `handleStreamRequest`, `cancelStream` | the hub; the orchestrator over HTTP |
| API, clusters and environments (`api/handlers.go`, `cmd/server/main.go`) | `clusters`, `envs` under one lock | `ClusterJoined/Left`, `RegisterEnvironment`, `RemoveDiscoveredEnvironment`, `GetClusters`, `add`/`removeEnvironment`, the loading in `main` | the hub's callbacks, discovery, administrators |
| Discovery (`discovery/discovery.go`) | `discovered`: the ids of its last pass | a pass every 60 s: list, register, sweep | the API's maps; the tunnel |
| API, containers and WebSockets (`api/handlers.go`) | none of its own | listing with one goroutine per environment, actions, `wsLogs`, `wsShell` | providers, tunnel streams |
| Providers (`provider/*.go`) | none | translate calls to each orchestrator's API | the tunnel as an `http.RoundTripper` |
| Auth, config, audit | files read once; a log under a lock | tokens, patterns, entries | every handler |
| Server process (`cmd/server/main.go`) | | start, signal, shutdown | all of the above |
| UI (`ui/app.js`) | views in the browser | | the API |

What makes it hard:

- *Concurrency.* Each request is a goroutine on both sides, each stream two more,
  each connection has a read loop on both sides. They share maps under locks that
  are released before the data read under them is used: `readLoop` looks a channel
  up under `ac.mu` and sends to it afterwards; `tunnelTransport` gets an
  `AgentConn` and uses it when it may be gone; `HandleConnect` changes
  `h.tunnels` under the lock and calls `onJoin`/`onLeave` outside it.
- *Failure.* Connections break with messages in flight, are replaced by newer
  ones, either process restarts, orchestrators fail and are slow.
- *Bounded buffers.* A channel holds 1 or 128 responses, and a full one stops
  `readLoop`, hence every other call of that cluster.
- *Non-atomic passes.* A discovery pass works on a copy while everything changes.
  A handler reads `s.envs`, `s.clusters` and `h.tunnels` one after the other, each
  under a lock of its own, and makes up to three calls.
- *Late execution.* A call that failed may be executed later, after its request was
  answered, its viewer left, or the server restarted.
- *Two ends.* A WebSocket session ends from either side: the stream or the viewer.

What makes it correct, by part:

- connection: every call returns; its channel is used safely; nothing stays in
  `pending`; a stream is delivered whole and in order; a request is executed at
  most once; a viewer who leaves stops the agent's stream;
- registry: `h.tunnels` has live connections, the newest of each cluster; a late
  handler harms no newer connection; a cluster comes back after any failures;
- environments: discovery forgets nothing it registered, touches nothing else, and
  ends up with what is there;
- containers: calls go only where the user may go, and name the namespace of the
  environment that was checked; success means that the orchestrator accepted; a
  command is given to the audit log before it runs; every request is answered, and a
  listing accounts for all its environments;
- sessions: a shell runs its commands one by one, after its opening was given to the
  audit log; when the viewer leaves or the
  stream ends, handler, watcher and stream end;
- process: a signal ends it.

`PROJECT.json` lists every component, the hazards at their lines with the
properties that cover them, and for each definition the source lines it models.

## Modules

| Module | What it is |
|---|---|
| `RemoteCall` | abstract: at-most-once calls, what the tunnel promises its callers |
| `Tunnel` | one connection from registration to removal: callers, pumps, both read loops, the agent's goroutines |
| `TunnelProofs` | type invariant and four safety invariants of `Tunnel`, proved |
| `TunnelCancel` | `CancelFindsStream` of `Tunnel`, proved |
| `TunnelRefinement` | `Tunnel` implements `RemoteCall`, proved |
| `TunnelOrder` | `InOrder` and `EofMeansComplete` of `Tunnel`, proved |
| `Directory` | abstract: who may enter a connection in the registry, close it, and take it out |
| `Hub`, `MCHub` | the registry: many connections, `HandleConnect`, `onJoin`/`onLeave`, the agents' `Run`; its small instances |
| `HubProofs` | type invariant, three invariants and an action property of `Hub`, and that it implements `Directory`, proved |
| `Inventory` | abstract: who may change which environments, and what the discovery has to remember |
| `Environments`, `MCEnvironments` | `s.envs` and `s.clusters` under discovery, configuration and administrators; its small instances |
| `EnvironmentsProofs` | type invariant, two invariants and an action property of `Environments`, and that it implements `Inventory`, proved |
| `Access` | pure: users from claims and groups, patterns, who may see what |
| `Containers`, `MCContainers` | requests about containers: the handlers, the providers' calls, over `RemoteCall` and `Access`; its small instance |
| `ContainersProofs` | type invariant, six invariants and an action property of `Containers`, proved |
| `Sessions` | log viewers, shells and plain requests, with the signal and the end of the process, over `RemoteCall` |
| `SessionsProofs` | type invariant and two invariants of `Sessions`, proved |

`Containers` and `Sessions` use the tunnel through `RemoteCall`, which `Tunnel` is
proved to implement, so what they show rests on that module and not on an
assumption about the tunnel. `Directory` and `Inventory` are what the two registries
promise everybody else: the actions that may change an entry and what must be so
when they do, with no goroutines, passes or connections' lives in them. `Hub` and
`Environments` map to them by their own variables (`open` and `tunnels`; the ids in
`envs` that the discovery wrote, the ids in its sets, and all other entries).

Each of the detailed modules has a section of *faulty variants*: actions with
a mistake this code could have made (a timer that keeps its entry, an entry
deleted without asking whose it is, a pass that ends at the first failure).
Putting one in the place of the action it is named after makes TLC find a named
property violated, so the property does constrain the code; `PROJECT.json` pairs
them under "mutants".

## How the models correspond to the code

**Tunnel.** One instance is one `AgentConn`, from the moment it is in `h.tunnels`.
`call[r]` is where the goroutine in `tunnelTransport.RoundTrip` is: `Get` reads
`h.tunnels`, `Register` fills `ac.pending` (nothing checks in between whether the
connection is still there), `SendRequest`/`SendRequestFails` write, then a buffered
call waits in a `select` with a timer (`RoundTripReturns`, `ReturnsClosed`,
`Timeout`) and a streaming one in a plain receive (`StreamFirst`,
`ReturnsClosed`). `chan[r]` with `Capacity(r)` and `closed` is the Go channel; a
send to a full one is disabled until there is room. `loop` is the program counter
of `readLoop`, with the lookup (`LoopRead`, under the lock), the send (`LoopSend`)
and the close (`LoopClose`) as separate steps, and the drain (`LoopFails`). `pump[r]`
is the goroutine that copies a stream's channel into its pipe; `Read` is a
`pw.Write` that the reader took, `CloseReader` the reader's `Close` at any time,
for instance `wsLogs` returning. On the agent, `AgentReads` is the loop in
`connect`, and `handler[r]` the goroutine it starts. Messages keep their id, which
of the five shapes of `TunnelResponse` they have (a reply, an error, a head, a
chunk, the end) and for a chunk its number.

The WebSocket is two FIFO queues. `Sever` is what happens when either side closes
or the network dies: each side still receives some prefix of what was in flight.
A writer notices late: writes keep succeeding and vanish, or fail.

Left out: message contents, headers, malformed JSON (both ends are this program),
`newID` (ids are distinct), the retry of idempotent requests that `net/http`
itself makes on a reused connection to the orchestrator.

**Hub.** `at[k]` is the program counter of one `HandleConnect`; `Register` and
`Unregister` are its two lock sections, `Join` and `Leave` its callbacks
(`ClusterJoined`, `ClusterLeft`), `ReadEnds` the end of `readLoop`. `open[k]` is
the hub's end, `link[k]` TCP. `state[a]` is where the agent is in `Run`; `Dial`
includes HandleConnect up to `Upgrade`, and agents in `Rejected` are those it
refuses. That `readLoop` ends once its connection does is exactly what `Tunnel`
shows it does *unless it is wedged* (`OfflineUnlessWedged`); `Hub` assumes it.
`Weather` switches `calm`, which gates everything that fails.

**Environments.** A string is the sequence of its parts between hyphens, so `\o`
joins with a hyphen as `"auto-" + cluster.ID + "-" + name` does, and the ambiguity of
that is in the model. `pass`, `todo`, `listing`, `found`, `stale` are the
locals of `discover`; each `registrar` and `remover` call is a step, as each takes
`s.mu` on its own. Kubernetes and Nomad are listed by the same control flow and
are one type. `AddEnvironment` and `AddStored` are the two lock sections of
`addEnvironment`; requests it answers with 400 or 403 change nothing and are not
steps. `by` records who wrote an entry and is not in the code. `quiet`
gates everything but discovery.

**Access.** A string is a sequence of characters, of which only the star matters.
`matchPattern` has one disjunct per return of the function. `Glob` is the
reference: what a pattern says if every star stands for some text, given by where in
the name the text of each star ends.

**Containers.** A request is about a set of environments, and each pair of them is a
*task*: a goroutine of `listContainers`, or a handler of `inspectOrAction`,
`containerLogs`, `execContainer`, `stopContainer`, `restartContainer`,
`deleteContainer`, which are alike but for delete's first check. `at[t]` is where it
is: before `hub.IsOnline` (listings only), before `providerFor`, before a call, in a
call, done. `env[t]` and `type[t]` are the copies it keeps, as `*Environment` and
`provider.Config` are in the code. `Refuse`/`Accept`/`List` are one lock section of
`s.envs` and the access check; `ProviderFor` is one of `s.clusters`. Requests with a
malformed body (400) change nothing and are not steps.

The providers are three tables, `Docker`, `Kube` and `Nomad`: for each operation the
calls it makes, and for each call which outcomes let it go on or end well. So
Docker's exec is `Decoded`, `Unchecked`, `Optional`: creating the exec must give an
id, the status of starting it is not looked at, and inspecting it may fail in any
way. Nomad's logs are `Tried` on stdout and read from stderr only if that is
refused. `Continue` interprets the tables.

`target[c]` is where a call was sent: to the cluster whose tunnel the transport is,
in the terms of the orchestrator that the type stands for, with the namespace its
provider puts into the path or the query. `KubeNs` is `KubeProvider.ns` (`""` becomes
`"default"`) and `NomadNs` is `nsParam` (`""` and `"default"` become no parameter);
Docker, and Nomad's restart, have none. `CallsStayInGrant` compares that with the
environment the user was checked for (`Concerns`), read the way each orchestrator
reads it. So an environment without a namespace whose cluster comes back as another
type is in it. Which container the id then selects is up to the orchestrator and not
modelled; see [Not modelled](#not-modelled).

`audit` has the requests whose command was given to `audit.Log`.

The orchestrator executes a call when `RemoteCall` lets it, which may be after the
caller gave up, and accepts or refuses it. `Restart` loses the requests and keeps
what is in flight.

**Sessions.** `at[v]` is the program counter of `wsLogs` or `wsShell`, `watcher[v]`
the goroutine that reads from a log viewer, `ws[v]` the WebSocket, `stream[v]` the
reader of a tunnel stream. `Return` is the deferred calls. A write may succeed for
a while after the viewer has left. Opening a stream may take for ever, as `Tunnel`
shows, and a line may never come. A command is one call here; for Docker it is the
start of an exec (the call before only prepares it, the one after only reads). The
audit log is given the opening of a shell and none of its commands, so that is what
`audit` has.
`main` and `stopper` are main and the goroutine that calls `Shutdown`, which
waits for plain requests and does not know hijacked connections.

## What is checked

| Run | Instance | Shows | States |
|---|---|---|---|
| `tunnel_safety` | one buffered call and one stream of up to 2 chunks, channel 1, wire 2 | channels are used safely, no leak, no lost wakeup, order and completeness of streams, refinement of `RemoteCall` | 387 000 |
| `tunnel_liveness` | the same, wire 1, fair | buffered calls return, a dead connection goes offline unless wedged, a closed reader stops the agent's stream | 327 000 |
| `hub` | two agents with one cluster id, three connections, fair | registry invariants, an open connection is kept, refinement of `Directory`, a cluster comes online when failures stop | 370 000 |
| `environments` | clusters `a` and `a-b`, namespace `b`, one configured environment, two that may be posted, fair | discovery's bookkeeping, other environments untouched, refinement of `Inventory`, convergence | 577 000 |
| `containers` | one request for anything, two ids and three environments that may be stored there (one with a namespace, one without, one with `default`), a cluster that is a Docker or a Kubernetes and a Nomad, an administrator and a user, fair | access and namespaces, patterns, audit, success, one call after the other and none twice, listings, answers | 380 000 |
| `sessions` | two sessions of any kind, shells of two commands, fair | order of commands, one at a time and in a shell that was logged, the end of sessions and of the process | 211 000 |
| `stream_calls_return`, `agent_gone`, `marked_online`, `backoff_resets`, `namespaces_found`, `graceful_shutdown` | small | what the documentation says and the code does not do | |

Why the bounds are enough. In `Tunnel` requests interact only through `readLoop`,
the connection and the writes' order; one buffered call and one stream give every
pair of roles, including a stream that stops a buffered call. `StreamCap` 1 instead
of 128 makes a full channel reachable with 2 chunks, and nothing in the code
depends on the number; `BufferedNeverBlocksLoop` is about the capacity that does
matter, 1 for a buffered call. In `Hub` the third connection allows an old one
that ends while a newer one replaces a third; clusters share nothing but
the lock, so one cluster is enough. In `Environments` the ids are chosen to meet:
`auto-a-b` is both the namespace `b` of `a` and the swarm `a-b`, and main makes up
`a-b` for the configured environment of that namespace. In `Containers` requests
share nothing but the maps, which change at any time anyway, and calls of their own;
one request with two tasks has every interleaving that matters, and a cluster may
change its type between them: one is a Docker or a Kubernetes and has the environment
without a namespace, the other is a Nomad and has the two others, which are all the
cases of `KubeNs` and `NomadNs`. One of the ids may be given to environments of either
cluster, of which the user may see one, so that a handler that looked twice would
send a call to the wrong one. The clusters' three types let every table run. The
patterns have their star at the end, at the start, in the middle and at both ends, and
the names are those that each of them does or just does not describe, some with a star
of their own. In `Sessions` sessions share only the process: two
give a plain request that Shutdown waits for beside a session it does not know,
and two commands are enough for one that runs after the next. Deadlock is checked in
`hub` and `environments`; an instance of `Tunnel` ends when its connection is over
and its calls have returned, and `Sessions` ends when the process has, so there it is
not.

## Fairness

- Every goroutine that can take a step takes one (the Go scheduler), timers fire,
  the agent's `httpClient` has a 30 s timeout (`WF(Do)` for buffered calls only:
  the client for streams has none).
- A connection that is gone is noticed by the side that reads from it (`LoopFails`,
  `AgentLoses`): by TCP keepalive, which Go's listener and dialer enable.
- A reader that has been given a stream reads on or closes (`Read`,
  `PumpWriteFails`).
- An orchestrator reads and fails a body soon after its request's context is
  cancelled (`BodyCancelled`); that a body otherwise ends is *not* assumed.
- In `Environments` only `Discovers` and `AddStored` are fair; a listing
  fails or is answered.
- In `Containers` every task and every reply goes on; a call returns because it is a
  buffered one with a timer (`BufferedCallsReturn`).
- In `Sessions` handlers, watchers and main go on, and a command returns for the same
  reason. That a stream opens, a line comes, a viewer leaves or types is *not*
  assumed, and `LeaveEndsSession` excepts a handler that waits for a stream.
- Nothing is assumed of what can fail. `ComesOnline` and `Converges` are of the form
  `<>[]calm => ...`: they promise nothing while failures go on.

## What is proved

For every value of the constants (any requests, capacities, agents, clusters,
connections, configuration), from the named assumptions in the modules:

- `TunnelProofs`: `TypeOK`, `ChannelSafety`, `NoPendingLeak`, `WaiterHasWakeup`,
  `BufferedNeverBlocksLoop`. None of the last four is inductive. The invariant
  `HubInv` adds why they hold: a request that has not been registered has nothing
  anywhere (`Fresh`); the response in readLoop's hand belongs to an unclosed
  channel, and if it ends its request its entry is gone already (`HandOver`); the last
  message of a request in a channel means its entry is gone (`LastGone`), so a buffered
  channel holds at most the one message that ended it (`BufferedChan`).
- `TunnelCancel`: `CancelFindsStream`. A goroutine past its registration has had its
  stream in `a.streams` (`Opened`), every message that is no error says the same of its
  stream wherever it is (`Witnessed`), and a stream that leaves `a.streams` is cancelled.
- `TunnelRefinement`: `Spec => AtMostOnce`, that is, `Tunnel` implements
  `RemoteCall` under the refinement mapping `callSeen`. It needs that a request is in
  flight at most once and only before its goroutine starts (`SentOnce`), that a
  goroutine's place tells whether it executed (`Did`), and that a response that is
  no error is evidence of it wherever it is (`Evidence`).
- `TunnelOrder`: `InOrder`, `EofMeansComplete`. A chunk's number follows from its place
  on the line from the body to the reader, which is a statement about every place at
  once (`StreamInv`): in the stream's channel the numbers go up by one from what the
  reader has (`Line`), where only the head comes before them; in `toHub`, among the
  messages of all other requests, they go up by one from what readLoop has handed on,
  and up to what the agent sends next as long as the link lasts (`Flight`). On a link
  that broke, messages are lost from the end of the line only, so what still arrives
  has no gap, and a side that has ended has broken it (`DeadLink`). For the end of file: a
  stream's last message has nothing behind it (`LastAlone`), the stream stays in
  `pending` until readLoop has read it (`Entered`), and a channel is closed behind it or
  by a readLoop that failed (`Ends`).
- `HubProofs`: `TypeOK`, `NoDeadTunnel`, `NewestServes`, `FlagOffWhenGone`,
  `OpenIsKept`; the addition is that a connection whose `readLoop` has returned is
  closed (`Closed`). `Spec => KeepsDirectory`, that is, `Hub` implements `Directory`,
  needs that a connection that has no entry yet is still open (`Dials`), which is what
  makes `Register` an `Enter`; that `Unregister` takes out only a closed connection's
  entry, and is otherwise a stutter, follows from `Closed` and the test at `hub.go:106`.
- `EnvironmentsProofs`: `TypeOK`, `Remembered`, `ManualKept`, `AddedIsKnown`. Where an
  environment of the discovery's own is remembered depends on where the pass is
  (`Tracked`), every id in the discovery's hands has its prefix (`AutoOnly`), and
  what `addEnvironment` is about to store belongs to a known cluster (`KnownInv`).
  `Spec => KeepsInventory`, that is, `Environments` implements `Inventory`: a set of ids
  is replaced twice in a pass, when it starts and when it ends, and `Tracked` says that
  no entry of the discovery's own is forgotten at either (`ForgetStep`).
- `ContainersProofs`: `TypeOK`, `CallsStayInGrant`, `AuditedBeforeRun`,
  `OkMeansAccepted`, `ListingComplete`. The tables are shown `Sound` first, by cases:
  each operation has one to three calls, a reading one needs its last to be accepted,
  a changing one has no way to end before its last, which is the one that changes.
  The invariant adds what a task has by where it is (`TaskInv`: a user who may use its
  copy of the environment, which has the id asked for, an audit entry, the orchestrator's word for what it did) and
  what a call has once it was sent or executed (`CallInv`). Access is an arbitrary
  predicate in these.
  `OkIsFinal` needs that a task that went well has every changing call behind it
  answered (`Settled`), which an answer keeps so. `CallsInTurn` needs the calls of a
  task by where it is: those before its step were made and are over, those after it
  were not made (`TurnInv`). `AccessFromGroups` is about `matchPattern` as such, for names
  and patterns of any length over any characters: of a pattern with stars it goes by one
  (`Acting`) and asks that the name fits before and after it (`Fits`), which the other
  stars allow by standing for themselves (`FitsGlob`); with one star there is nothing
  else that `Glob` could mean (`GlobFits`).
- `SessionsProofs`: `TypeOK`, `ShellInOrder`, `ShellOpenLogged`. The addition
  is that the calls of all commands but the last one taken have returned, also that one
  unless the shell is `running`, and that a call was made only by a shell in the log.

Every safety invariant, action property and refinement that a passing run checks is proved.
Only model-checked is liveness, which needs fairness and ENABLED and is out of the
prover's reach: `BufferedCallsReturn`, `OfflineUnlessWedged`, `CancelStopsStream`,
`ComesOnline`, `Converges`, `RequestsAnswered`, `LeaveEndsSession`, `EndReachesViewer`
and `StopsOnSignal`.

## Disagreements with the documentation

Each has a run that finds it; the details are under "findings" in `PROJECT.json`.

1. A streaming call can wait for ever (`hub.go:236`): registered after the drain,
   with a write that still succeeds.
2. A viewer who leaves a busy stream can wedge `readLoop` (`hub.go:168`); the
   cluster then stays "online" and answers nothing. Replacing the connection does
   not end it either.
3. A reconnecting agent's cluster can stay marked offline in `s.clusters`
   (`hub.go:117`). The listings recompute the field; `GetClusters` does not.
4. The backoff is never reset (`agent.go:62`).
5. Two namespaces may share one id (`discovery.go:136`).
6. The shutdown is not graceful (`main.go:138`): main returns when `Shutdown` has
   begun, and cuts what is in flight.

Three more were seen and have no run:

- "Environment names support wildcard patterns (* matches any characters)"
  (`config.yaml.example:42`), but a pattern with two stars, such as `*b*`, matches
  only names that contain a star, and `a*a` matches `a`, where prefix and suffix
  overlap. `AccessFromGroups` leaves the second case out, and asks of a pattern with
  several stars only that it grants nothing it does not describe.
- "Audit logging for security-sensitive operations (login, exec, etc.)"
  (`config.yaml.example:58`), but of a shell only the opening is logged and none of the
  commands that it runs through the same `ExecContainer` (`handlers.go:804`, `829`).
  `ShellOpenLogged` is about the opening.
- "Docker Swarm has no namespace support so its namespace is always empty"
  (`models.go:31`), but main stores what the configuration says
  (`RegisterEnvironment`, `handlers.go:107`); `DockerProvider` never reads it.

## Not modelled

- The providers' translation of formats: no state, and nothing else depends on it.
  The content and size of bodies; container ids, hence the routing of actions by the
  suffix of an id (`handlers.go:439`). Ids, and the namespace for Kubernetes, go into a
  call's path as they are (`kube.go:138`, `nomad.go:121`, `180`), so an id may select
  something else than a container of the environment's namespace: `target` is the
  place that the provider names, not what an orchestrator makes of the whole path.
- The password check, and the signature, format and expiry of tokens: cryptography
  and parsing of one request. `Containers` starts from the claims of a valid token.
- The audit log's file: an entry counts when it was given to `Log`, which drops it if
  the log is disabled or cannot be written (`audit.go:85`, `102`).
  That main closes the file while handlers still run (`main.go:68`) is left out.
- Configuration parsing, logging, CORS, the UI: no state that is shared.
- Time: handlers give their requests 10 to 30 seconds, `tunnelTransport` looks at none
  of it and waits its own 30 (`hub.go:322`); a timer may fire at any moment here, which
  covers every order of timeouts and answers but not their lengths.
- The data race of `addEnvironment` on an environment it has already published
  (`handlers.go:335`) has no visible outcome, since the listing overwrites the fields
  concerned.

## Plan

Done, in this order: `RemoteCall`, `Tunnel`, its proofs and refinement; `Hub`,
`Environments`, `Access` and `Containers`, `Sessions`, each with its proofs; the order
and completeness of streams; the refinements of `Directory` and `Inventory`. To come:

1. The safety half of the liveness properties: what has to be so for a goroutine to
   be able to go on (a fair action is enabled where its goroutine waits), stated as
   invariants on which the liveness arguments rest, and proved.
2. What the callers need of `Directory`: that a call in `Tunnel` starts only on a
   connection that had an entry, in terms of both modules.

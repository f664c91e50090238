# Modelship: TLA+ models, model checking and proofs

Modelship serves models behind OpenAI-compatible gateways on a Ray cluster. This
directory models the parts of it that are concurrent and stateful, checks them
with TLC on small instances, and proves the most important invariants with
TLAPS. Source paths below are relative to the repository root; each definition's
exact lines are in `PROJECT.json` under `map`.

## 1. The system

| Component | Code | State | Operations | What is hard |
|---|---|---|---|---|
| Deploy coordinator | `modelship/deploy/deploy_coordinator.py` | per-gateway queue, running request, routing seq and models, version lock, recovery task; node leases; death counts and fatal errors | submit, wait, cancel, the worker's calls (is_cancelled, switch, commit, rolling_back, reset_routing, diffs), the drain task, recovery, lease checks | every await is an interleaving point: cancels, calls of dead workers, the grace timer and a restart meet a request in any state |
| Deploy worker | `deploy/worker.py`, `deploy/strategy.py` | the diff it applies, the step it is in | deletes, rescales, bring-up with retries, switch, commit, retire, roll back | dies at any step; Serve and the store fail one call of several |
| Diff and ledger | `deploy/diff.py`, `deploy/ledger.py` | the committed version in the state store | merge, build_diff, commit_version | what each step order keeps up, idempotence |
| Gateway coordinator | `deploy/gateway_coordinator.py`, `deploy/routing.py` | published table, seq, generation, replica reports | compute pass, get_routing, wait_for_change, wait_switched | Serve and the versions are read at different moments; restarts |
| Gateway replicas | `openai/api.py` | route table, generation, seq | watch loop, first-request sync | partial application, late polls |
| Deploy leases | `deploy_coordinator.py`, `deploy/deploy_leases.py` | one lease per node, in memory and in the store | acquire, load, check, release | store writes racing grants and restarts |
| Download leases | `utils/download_leases.py`, `utils/downloads.py` | one lease per source | acquire, renew, release, reap, clean | expiry against late holders |
| Stored and background responses | `openai/state/responses.py`, `openai/utils/responses.py` | turn log, run status, event buffer, heartbeats | persist, continue, run, cancel, tail, reconcile | terminal status races, staleness |
| MCP loop and stream translation | `openai/mcp/`, `openai/protocol/responses/streaming.py` | per response: output so far, sequence and output counters, held-back calls, the connections; per conversation: approvals and listings in its history | discover or reuse tools, resume approvals, run turns, execute calls, retry on a dropped session | one stream stitched from several turns and the loop's own items; approvals that span requests; calls that may have run |
| State store | `state/base.py`, `state/memory.py`, `state/redis.py` | keys, logs, expiries | get, set, delete, append, append_and_set, read_range, expire | Redis calls are several commands; expiry and failures in between |
| Model replicas | `infer/model_deployment.py`, `infer/base_infer.py`, `infer/infer_config.py`, the loaders | constructor, backend process, watcher; the requests' tasks, threads and lock; watch set and pump | load, launch, warm up, shut down, die; run a request, stream it, cancel it | a backend that dies in any phase; cancels in any await; threads that cannot be cancelled |
| Gateway HTTP API and loaders' answers | `openai/api.py`, `infer/vllm/engine_ops.py`, `infer/llama_server/llama_server_infer.py` | per request: first item, stream, outcome; per choice: parser state, tokens, what was sent | the POST endpoints, streams, errors, usage | parsers that defer; clients that leave; failures in mid-stream |
| Preflight | `preflight/` | none of its own; what the node's models hold | probe, size, merge with the user's values | probes that fail or see something else; rounding; loads that follow each other |
| CLI, driver, sources, metrics | see `PROJECT.json` | | | not modelled |

How they interact. A user's `submit` puts a request in the deploy coordinator's
queue for its gateway; the gateway's drain task creates one worker actor per
request. The worker calls back into the coordinator (`is_cancelled`, `switch`,
`commit`, `rolling_back`, `reset_routing`), talks to Serve itself, and waits at
the gateway coordinator until the replicas have switched. The gateway coordinator
polls Serve and the deploy coordinator's `routing_versions` and hands tables to
the replicas' long polls. The committed versions and the node leases live in the
state store, and so do the turns of `/v1/responses`. Model replicas, before they
load, wait for the node's lease at the deploy coordinator and for the source's
lease at the download-lease actor; they size the model to what the node has left, start
the backend, and report failures and deaths to the deploy coordinator, where the worker
finds them. A gateway replica calls a model replica for each request and tells a
client's disconnect to a registry actor that the model replicas poll.

What makes each part correct: a request is all or nothing and its outcome says
which (deploy); nothing that is committed or routed to is deleted (deploy,
routing); replicas converge to the current table, and a confirmation can be relied
on (routing); one loader per node, one downloader per source, and nobody waits
for ever (leases); a conversation's history is exactly what was said, and a
settled response stays settled (responses); a stitched stream is numbered, complete
and agrees with the stored output, and a tool runs when, and as often as, it may (MCP);
both stores take each call's effect at one instant (state store); no request or thread
outlives its owner, no backend process is left untold, and failures are told apart (replicas); a stream says
what the whole answer would have said, and its recorded outcome is what the client saw
(gateway, loaders); a model that was sized fits (preflight).

## 2. The modules

| Module | Models | Uses |
|---|---|---|
| `DeployDiff` | `ledger.merge`, `diff.build_diff` and their data, as operators | |
| `DeployPlan` | the plan's steps one after the other, without interleavings; what they add up to | `DeployDiff` |
| `Deploy` | coordinator, worker, store, Serve and the replicas' view of one gateway's requests | `DeployDiff` |
| `DeployProofs` | theorems about `Deploy` | `Deploy`, TLAPS |
| `Switchover` | abstract: what a confirmed switch promises | |
| `GatewayRouting` | gateway coordinator, replicas, and the worker's switch and deletes | refines `Switchover` |
| `DeployLeases` | node leases | |
| `DownloadLeases` | source leases, downloads and clean-up | |
| `TurnStore` | abstract: the life of a response's record | |
| `ResponseLog` | the turn log, continuation, forks, settling, deletes, expiry | refines `TurnStore` |
| `BackgroundResponse` | one background run, its heartbeats, event buffer, tails, cancel and delete | takes `TurnStore`'s promise as one step |
| `ResponseStream` | the translator of a loader's chunks, as operators | |
| `McpResponse` | a conversation whose requests name an MCP server: tool loop, stitcher, connection, history | `ResponseStream` |
| `Inference` | the requests of a model replica: guards, streams, threads, the exclusive lock, disconnects | |
| `BringUp` | one app's bring-up and rescale: worker, Serve, constructors, backends, deaths, fatal errors | |
| `Replica` | a replica with its backend and its requests | composes `Inference` and `BringUp` |
| `AtomicStore` | abstract: what `state/base.py` promises | |
| `StateStores` | the memory actor and the Redis client, command by command | refines `AtomicStore` |
| `Preflight` | probes, estimators and merge, over the loads and unloads of a node | |
| `ChatStream` | how a replica answers: vLLM's parsers and reconciliation, llama-server's relay, the other loaders | |
| `HttpGateway` | the gateway's side: endpoints, first item, stream, errors, recorded outcome | `ChatStream` |
| `SideBySide` | three parts without common state, each over all its inputs | `DeployPlan`, `Preflight`, `HttpGateway` |
| `GatewayProofs` | theorems about `GatewayRouting` and about `McpResponse` | `GatewayRouting`, `McpResponse`, TLAPS |
| `LeaseProofs` | theorem about `DeployLeases` | `DeployLeases`, TLAPS |
| `DownloadProofs` | theorem about `DownloadLeases` | `DownloadLeases`, TLAPS |
| `ResponseLogProofs` | theorems about `ResponseLog` | `ResponseLog`, TLAPS |
| `StoreProofs` | theorems about `StateStores` | `StateStores`, TLAPS |
| `ReplicaProofs` | theorems about `Inference` and `BringUp` as `Replica` composes them | `Replica`, TLAPS |
| `SideBySideProofs` | theorems about four parts without common state | `BackgroundResponse`, `HttpGateway`, `DeployPlan`, `Preflight`, TLAPS |
| `MC...` | instances for TLC | |

Conventions. The Python actors are asyncio programs, so an action is what runs
between two awaits; a store or Serve call is an action of its own, and what the
code carries over an await is a variable. `Faults` names the kinds of fault a
behaviour may have and `MaxFaults` how many (`DeployLeases` takes a set of
combinations); every other kind of trouble the code treats as ordinary (a cancel,
an app that fails to start, a wait that times out) is always possible. Variables
under `(* history *)` exist for the properties only; no guard of an action reads
them, except the fault budget. Operators named `mut_...` are mutated forms of the
definition after them: each property is also run against one, and must fail.

### Deploy

`rstate`, `cancelled`, `cancelSeen`, `switched`, `outcome` are the fields of
`_Entry`; `queue`, `running`, `drain`, `recovery`, `routing`, `lock` are the
coordinator's tables for one gateway; `wk` is the worker's program counter through
`Run.execute`, `_apply` and `roll_back`. A worker's call is in flight from the
moment the worker reaches the step that makes it; when the worker dies the call
moves to `late` and is executed whenever it arrives (`InFlight`). `Refuse` is the
coordinator's answer to calls whose request is no longer the running one. The
commit is `CommitStarts` (takes the version lock), then `CommitLands` or
`CommitFails`; `CommitFails` is split into a write that did not land and one that
did (`lost_reply`). `KillUnlessSeen` is the grace timer. `CoordinatorDies` loses
queue and routing; `StartRecovery`, `Recover`, `RecoveryEnds` are the recovery.
`holds` is the seq each replica's table came from; `ReplicaFollows` may skip seqs
and never goes back, which is what `GatewayRouting` justifies.

Left out: more than one gateway (they share nothing but leases and the coordinator
process), `ServeApp.scaling` of `None`, a failing `create_worker`, and the partial
first submits of `_bring_up`. Fatal errors, death counts and the limit of
unreadable polls are folded into `Fails`, which may happen in every waiting step;
`BringUp` has them one by one.
Retry delays are immediate. Ray is assumed to kill a worker whose owner, the
coordinator, died. A store read is atomic with the step that uses it, except in
`routing_versions`, where the code awaits in between (`ReadVersion`, `UseVersion`).

### GatewayRouting

A compute pass is three actions (`ReadServe`, `FetchVersions`, `Publish`); a
watching replica polls, is answered, pulls a snapshot and applies it app by app
(`Polls`, `PollReturns`, `Pulls`, `Applies`), and an app whose handle Serve cannot
resolve yet stops it from taking the snapshot's generation (`Advances`). The worker
is reduced to bring up, switch, wait, switch back, delete. `expected` and the
metrics are left out.

### DeployLeases and DownloadLeases

`DeployLeases` splits `acquire`, `_check_leases` and `_release` at their awaits. Two
assumptions about time, each a guard with a comment: a store write ends before the
next lease check but one, and before the model it was for has loaded. The check
without the first one fails: a stalled write can put a released lease back.

`DownloadLeases` counts time in ticks and keeps only the ratios of the periods:
lease 6, renewal 3, idle exit 12. A live process renews in time or exits.

### ResponseLog

A request resolves its parent (`ReadsRecord`, then one `ReadsSegment` per log of the
chain), is answered, and its writers store it: one for a foreground response, three
that race for a background one (completion, failure, cancel), each at most once.
`AppendAndSet` is the store's atomic append-and-set with its `if_exists`; as a fault it raises,
before or after it has landed, or lands and answers False, as on Redis after a lost reply. An entry is
known by its turn and status; the items themselves are data. A log is the sequence of its
entries, at rising positions; `Top` is the last of them, which an append has to exceed. No log expires under a
writer: a TTL is hours and a write is seconds. One caller identity; `store: false`
requests touch nothing and are left out. `_refresh` only postpones an expiry, which
is nondeterministic here.

### BackgroundResponse

`run` is where `run_background` is: draining, flushing the buffer, writing a failure,
cleaning up. `pending` is the chain of appends of `_StreamBuffer`, `buffer` the replay
log, `beat`, `youth` and `due` are times in heartbeat intervals: until the entry of the
registry expires, until the registry is as old as its TTL, until the loop wakes up. A
tail reads events, then the record, then asks the registry, with a step for each call;
its `got` is everything it has delivered, and the opening and terminal events it makes
up are `Synthesised`. `handler` is one cancel or one delete (two that race are
`ResponseLog`'s). `response.incomplete` is told like `response.completed`. The buffer's own TTL
is left out: it is far longer than a tail's polling, and so is a lost write that
happened after all, which `ResponseLog` has.

### ResponseStream and McpResponse

A translator is the sequence of its open channels (a channel's position is its output
index), the tool names and the next sequence number. `McpResponse` follows `_events`:
`pc` is where it is (discovery, resuming approvals, a turn, the calls of a turn), `out`
the accumulator, `st` the stitcher with everything it has sent, `tr` and `inbox` the
loader's side of a turn. The stitcher takes events one at a time (`Absorbs`) and the loader
goes on when they are taken; that the two do not run in parallel loses nothing, since the
loop only reads. `past` is the history that `create_response` puts before the next
request's items; approvals and listings are found in it. `conn` and `retried` are the
connection and the one repetition of `McpConnections._run`; a call that fails may have run
or not.

Left out: several servers in one request, approval requests that the client supplies in its
own input (`loop.py:538`; it would approve what it asks for itself), the bodies of items and
the usage sums, the non-streaming form (it drains the same events), and the validation of a tool's fields.
`require_approval` is a fixed set of tools. A turn's incomplete end is taken like a
completed one, as in the code.

### Inference, BringUp and Replica

`Inference`: `phase` is where a request's handler is, `work` the task it guards, `thread`
its thread in the pool, `holder` and `waiting` the `_exclusive` lock. One module has the three
kinds of loader: an asynchronous engine under `run_cancellable`, threads under the lock,
threads without it. `watched`, `fired`, `pump`, `asked` are the watch set and its pump;
`registry` and `handle` the disconnect registry and this process's handle to it, which may
die. A cancel may come at each await; the `finally` blocks are `Unwinds` and `Ends`. A second cancel,
at an await of a task that is cancelled already, is swallowed there (`contextlib.suppress`) and changes
nothing; at the close of a disconnected stream it takes the place of the disconnect (`CancelEngine`).

`BringUp`: `wk`, `retry`, `failures`, `seen` are `_bring_up`'s and `_rescale`'s; `deaths`, `limit`,
`fatal` the coordinator's counters; `app` and `target` what Serve does; `rep`, `error`, `ceiling`,
`child`, `flag`, `watcher` each replica's constructor, replica count of its config, backend and
`_watch_process`. A submit may raise, the first one too; Serve's status may be unreadable, for a poll or
for longer than the limit; the app may be deleted while the worker polls for it. `shutdown` raises its flag,
then sends a SIGTERM and returns (`Terminates`); the thread that would kill the process dies with its
replica, so a backend that was told may outlive it (`left`) until it ends or Ray cleans up
(`LeftoversEnd`, which nothing makes happen), and meanwhile a load finds the GPU full (`Raises`). `left`
tells apart the backends that were told, those left to Ray because the replica was killed or its
shutdown raised, and those that were simply forgotten. Serve is
external: it starts what is asked for, gives a new app up after a failed constructor and
retries an old one. llama-server stands for vLLM too, whose engine process is watched the
same way. `Replica` lets the first replica serve: a step that ends its service takes its
requests along.

Left out: command lines, log draining, health of a replica beyond its backend's life, and
requests in service during a second deploy of the same app, which does not touch them.

### StateStores

One log and one record, two callers. A memory call is one step of the actor; a Redis call
is its commands one by one, `WATCH`, reads and `EXEC` included, and `intact` is what makes
`EXEC` succeed. A lapsed key is still in the dict until a read or the sweep drops it; the
refinement maps it away. A call may fail before or after each command; a restart loses the
memory actor's dict. A connection that is lost shows in three ways, by what redis-py does, which is
external: it raises `WatchError` while it watches, which `redis.py:190` takes for a conflict
(`ConnectionLost`); it sends a command again whose reply was lost, so an XADD or an EXEC that landed is
refused the second time and the call answers False (`ReplyLost`, `ExpiryLost`); or it gives up and the
call raises (`Fails`). `AtomicStore` has the second attempt as a step of its own (`Retry`), for Redis
only (`resends`). Values are who wrote them. `list` and the key prefixes are left out.

### Preflight

Memory is in units of the instance, fractions in hundredths, so that every comparison is
exact. `Probes`, `Sizes`, `Loads` are one replica under its node's lease; `Unloads` may happen
in between, and `late` says that it did. llama.cpp's fit-params, and what the engines take
when told what they are told, are external. A container's usage that cannot be read counts as no limit
(`UsageRead`); what fits is then stated of the host only. A node has at most one GPU: a fraction of a GPU
is a fraction of one, and the smallest of several (`llama_cpp.py:133`) would only be read where the
fallback probe lists the whole node. `recommend_cpu` keeps the length its fraction was computed for, which
is not passed on; `recommend_gpu` leaves out advice that does not change the memory taken. ROCm, Metal and
vLLM's multimodal batch size are left out.

### ChatStream and HttpGateway

A text is a few pieces (a word, the closing marker of the reasoning, a tool call), and of what
is sent only counts are kept; an engine may cut it into deltas anywhere. `ParseDelta` and
`Parse` are vLLM's parsers, external. `out` is what `stream_chat_completion` keeps for each
choice; `reconcile_trapped_content` settles it against a parse of the whole. llama-server's stream is
lines that are chunks, errors or `[DONE]`, and the stream ends with its lines, with or without `[DONE]`
(`StreamEnds`; an end without it is one of the bounded failures). `gate`, `client` and `metric` are the handler, what
the client was handed, and what `RequestTracker` recorded. Left out: log probabilities,
continuous usage, prompts, tool schemas; the Responses form of a stream is `ResponseStream`'s.

### SideBySide

`DeployPlan`, `Preflight` and `HttpGateway` are checked over every input of their instances.
They share no state, so one specification runs them side by side: `part` says which moves,
and the others rest in one initial state. No property relates two of them.

## 3. The runs

Each passing run finishes in under five minutes with two workers. State counts are distinct
states.

| Run | Bounds | Shows |
|---|---|---|
| `deploy_worker_death` | 2 requests, 1 model with 2 variants, 1 replica, 1 death; 1.4 M states | cancels against commits, outcomes against the store, what is deleted when, what is committed when |
| `deploy_recovery` | 1 request of any mode and strategy over 2 models, replica counts 1 and 2, 2 of 6 faults, 2 tries; or a second request behind it and no fault (`Bounded`); 560 k | restarts and partial failures end in the committed version, replica counts included; every queued request ends |
| `routing` | 1 replica, 3 apps of 2 models, 3 routings, 1 fault of any kind; or 2 replicas, 2 routings, 1 fault of 2 kinds; 1.8 M | partial tables, generations over restarts, convergence, and the promise of `Switchover` |
| `leases` | 3 replicas, 2 nodes, 2 faults; 401 k | one loader per node, its lease stored, no starvation |
| `downloads` | 2 processes, 2 faults; 140 k | one downloader, own files only, every wait ends |
| `response_log` | 4 turns, 1 in background, 1 fault; 1.8 M | histories, forks, settling once |
| `background` | 1 tail, 1 event before the terminal one, staleness 4 intervals, 2 of 8 faults; 1.2 M | staleness, replay order, ends, cancellation |
| `mcp` | 2 requests, 3 tools (free, guarded, the client's), 2 turns, 3 chunks, 1 fault of 6 kinds; 748 k | numbering, output, approvals, single execution, every response ends |
| `mcp_approvals` | 3 requests, no fault | violation, see section 6 |
| `replica` | 2 replicas, 2 deploys, 2 requests (a watched stream, an unwatched call), 3 kinds of loader, 1 fault; 449 k | no work left behind and no backend untold, failures told apart, everything ends |
| `stores` | 2 callers, 4 calls, 2 positions, 1 failure, restart or lost reply, any expiry; 588 k | both backends implement `AtomicStore`; no log is kept for ever |
| `side_by_side` | 1 model with fixed and automatic scaling; 32 nodes, 3 loads of about 100 kinds of model; nearly 80 kinds of request with 2 choices, 1 failure; 1.3 M | the plan is right and reversible; models fit; streams, usage and outcomes agree |

Why the bounds are enough to be interesting. Two requests let a late call of the
first meet the second, and one waits in the queue while the other runs. One model
with two variants makes a replacement; replica counts 1 and 2 make both directions
of a rescale. Three routings are a switch, a switch back and what a late poll still
holds. Three replicas on two nodes make a node that is contended and one that is
not. Four turns are the least in which a fork is continued: a root, a child, a
second child that has to fork, and a child of the fork. Three chunks make a reasoning or
a message item and a call, two calls, or a call whose name comes last, spread over two
turns or two requests; two requests are an approval and its answer. One or two faults reach
each recovery path and each recovery of a recovery; with 2 replicas and a death limit of 1 per replica a
rescale is ended by its deaths, and with 2 tries an add is retried once. Four store calls are a log,
a conditional append, a delete and a read around it. Three loads make a third model find what two
left. More faults were tried where they fit
in memory (two events and one fault for `background`, two faults for `routing` with one model, three for `leases` without
liveness, three download processes) with the same result. Staleness of 4 intervals
with 2 faults is the boundary of `OrphansOnlyStopped`: a run survives two heartbeats
lost in a row fewer than its threshold has intervals (the default is 6), and with 3
intervals the property fails.

Deadlock is checked for `GatewayRouting` and `DownloadLeases`, whose loops never end. In the others the
system has nothing left to do once the requests, replicas, turns, calls or the run are used up.

`KeepsPromise`, `SettledOnce` and `IsAtomicStore` are refinements: the abstract specification is a
PROPERTY of the detailed one under the mapping given by the INSTANCE.

## 4. Fairness

Nothing is assumed of users and of faults. Assumed: the event loop runs a task that
is ready and Ray delivers calls; Serve finishes starts and deletes (for `Deploy` one weak
fairness of all these together: the cluster does not stop while it can go on); a live replica's watch loop
and a waiting replica's or process's poll loop go on (both are unbounded `while`
loops with a sleep); a model that loads ends up loaded or its replica dies; Serve
notices dead replicas; time passes. `Fails`, `ConfirmTimesOut` and `AppFails` have no fairness:
`EveryRequestEnds` does not rest on a failure happening. Nothing is assumed of the
stream a background run drains, which may never end: `SignalStopsRun` and
`EveryTailEnds` rest on the heartbeat loop, the append tasks, the tail's poll loop and
time. `EveryResponseEnds` assumes weak fairness of the MCP loop's steps as a whole: a turn
has a token limit and every request to a server a timeout. `Replica` assumes that the event
loop and the pool's threads run, that the worker polls and its backoffs end (strong fairness of
`Resubmits`, which waits for a time other steps do not move), and that Serve starts and stops
what it is asked to; nothing of engines, clients and backends: a request whose engine never
answers ends by its disconnect only.

## 5. What is proved

Eight modules hold theorems. Each is about every value of the constants that the ASSUMEs of its
modules allow: any number of requests, replicas, nodes, turns, callers, calls and faults. Those
assumptions are types of the constants, sentinels that differ from the values they stand beside, and
these that say more, all of them true of the code's own constants: a renewal is due before its lease ends
(`DownloadAssumption`), an unlisted replica is looked for in two checks at least
(`LeaseAssumption`), a version has one app per model (`RoutingAssumption`), the name that stands for
a missing one is no tool's (`McpAssumption`), only a chat completion asks for usage
(`AskAssumption`), a model that is sized has weights or layers (`PreflightAssumption`; without layers
`preflight/vllm.py:361` gives up).

In every proof a named inductive invariant holds at first (`InitInv` or a lemma of that kind), is kept by every
step (one step of the proof per action) and implies the property. TLC had checked the
invariants of the longer proofs before.

| Theorem | States | Hypotheses beyond the ASSUMEs |
|---|---|---|
| `DeployProofs!TypeCorrect` | `Spec => []TypeOK` | |
| `DeployProofs!CancelSafe` | `Spec => []CancelExcludesCommit` | |
| `DeployProofs!OutcomesTold` | `[]OutcomeMatchesLedger` | `WritesAnswered`, `[][RollbackOutlives]_vars` |
| `DeployProofs!CommitsInTurn` | two of the three parts of `CommitsSound` | the same |
| `DeployProofs!CommitsSafe` | `CommitsSound` | the same and `AppsStayUp` |
| `DeployProofs!AllOrNothing` | `Spec => []QuietIsCommitted` | |
| `DeployProofs!SparesDeleted` | `Spec => DeletesOnlySpare` | |
| `GatewayProofs!GenerationsTell` | `Spec => []GenerationTellsTable` | |
| `GatewayProofs!PromiseKept` | `Spec => KeepsPromise` (refinement of `Switchover`) | |
| `GatewayProofs!CallsAreGranted` | `McpSpec => []CallsGrantedOnce` | |
| `GatewayProofs!OutputIsTold` | `McpSpec => []OutputMatchesStream` | |
| `LeaseProofs!LoadersExclude` | `Spec => []OneLoaderPerNode` | `CallsFailAlone` |
| `DownloadProofs!DownloadsExclude` | `Spec => []OneDownloader` | |
| `ResponseLogProofs!SettlesOnce` | `Spec => SettledOnce` (refinement of `TurnStore`) | |
| `ResponseLogProofs!HistoriesWhole` | `Spec => []HistoryIsLineage` | |
| `ResponseLogProofs!RefusalsEarned` | `Spec => RefusesOnlyLost` | |
| `StoreProofs!LogsDated` | `Spec => []LogsExpire` | |
| `StoreProofs!StoreIsAtomic` | `Spec => IsAtomicStore` (refinement of `AtomicStore`) | |
| `ReplicaProofs!BackendsEnd` | `Spec => []NoBackendLeft` | |
| `ReplicaProofs!FailuresTold` | `Spec => FailuresToldApart` | |
| `ReplicaProofs!WorkEnds` | `Spec => []NoOrphanWork` | |
| `SideBySideProofs!TailsAreNumbered` | `[]TailsNumbered`: the first part of `TailsInOrder` | |
| `SideBySideProofs!TailsAreInOrder` | `Spec => []TailsInOrder` of `BackgroundResponse` | `BeatsArrive` |
| `SideBySideProofs!OrphansHaveStopped` | `Spec => OrphansOnlyStopped` of `BackgroundResponse` | `BeatsArrive` |
| `SideBySideProofs!OutcomesMatch` | `GatewaySpec => []OutcomeMatchesClient` | |
| `SideBySideProofs!UsageIsCounted` | `GatewaySpec => []UsageCounts` | |
| `SideBySideProofs!StreamsAgree` | `GatewaySpec => []StreamAgrees` | |
| `SideBySideProofs!PlansReachTarget` | `PlanSpec => []PlanReachesTarget` | |
| `SideBySideProofs!RollbacksRestore` | `PlanSpec => []RollbackRestores` | |
| `SideBySideProofs!SharesAreKept` | `PreflightSpec => []SharesFit` | |
| `SideBySideProofs!FitsAreLargest` | `PreflightSpec => []LargestFit` | `LimitsBacked` |
| `SideBySideProofs!LoadsFit` | `PreflightSpec => SizedLoadsFit` | `LimitsBacked` |

The six hypotheses leave out what the code does not survive or does not check.
`WritesAnswered` says that a version write that raises has not landed: the coordinator takes the
exception for a failure, and the request is told failed (`deploy_coordinator.py:509`). `RollbackOutlives` says that the rollback worker that
waits for a dead worker's write does not die in turn: then nobody waits, the request ends as failed,
and the version lands afterwards (`deploy_coordinator.py:486`). `AppsStayUp` says that Serve reports no running
app as anything else: a worker polls an app until it runs and then no more, so one that falls ill between
its last poll and the write is committed all the same. `CallsFailAlone` says that a behaviour
with lost `acquire` calls has no store failure and no restart: a repeated acquire is let in by the lease that the
first one's pending write has yet to store, and if that write fails or the coordinator restarts nobody
knows of the loader (`deploy_coordinator.py:202`). The instance of the run `leases` satisfies it.
`BeatsArrive` says that `stale_seconds` spans more heartbeats than a behaviour may lose: a run that misses
more in a row is taken for dead while it works. The default, 30 s, spans six heartbeats of 5 s; the run
`background` loses at most two of four. `LimitsBacked` says that a container's memory limit and what other
processes hold fit the host: where psutil is missing, or finds nothing free, the limit alone is used
(`preflight/base.py:144`), and a limit the host cannot back sizes models for memory that is not there. The
nodes of the run `side_by_side` satisfy it.

The arguments:

- `TypeCorrect`. `TypeInv` adds to `TypeOK` that a run or rollback worker has a running request.
  `BuildDiffType` shows that every plan is a well-formed diff, `RouteType` that a routing seq names an
  entry of `routes`.
- `CancelSafe`. `CommitInv` adds: a request whose version has landed or is being written was not
  cancelled and is in a state in which no cancel is accepted (`WriterPastCancel`); a worker, alive or
  dead, that has yet to switch has written nothing (`SwitchBeforeWrite`); a worker makes one call at a
  time (`OneCall`); calls and workers belong to requests taken off the queue (`OnlyStarted`); a queued
  request is queued once and undecided (`QueueOnce`); what ends as cancelled was cancelled while it
  ran, or never ran (`CancelledHow`). With them, a cancel and a commit check the same state in one
  step of the coordinator each, and whichever is first refuses the other, also for calls that arrive
  after their worker died.
- `OutcomesTold`. `LedgerInv`, on top of `CommitInv`: only the running request writes and somebody
  waits for its write (`WriteAwaited`), a request is retiring exactly from when its version has landed
  (`RetiringLanded`), whoever has yet to commit, or rolls back, has written nothing
  (`CommitBeforeWrite`), and a worker that is about to report success has committed or never switched
  (`SuccessEarned`).
- `CommitsInTurn`. `OrderInv`: requests are numbered and queued in the order they came, and an
  undecided one is running or queued, so none before the running one is undecided. `ConfirmInv`: the
  coordinator's routing is the last one, a worker waits for its own (`SwitchAwaited`), and from a
  confirmed switch until the write has landed nobody routes anew, the worker's death and a late
  commit included (`SwitchLasts`).
- `AllOrNothing`. `BuildDiffSound` states what `build_diff` promises, for every request, version and
  state of Serve: what it deploys, rescales, retires and calls leftovers accounts for every app that is
  there. `ControlInv`: which steps each kind of worker may be at, which calls of dead workers the
  coordinator still accepts, and who may be at work while a version is being written. `RoutingInv`: a
  version read for the routing is still the committed one when it is used, and each stretch of a run or
  rollback has the gateway routed by the request's version or by the committed one. `ServeInv`: in each
  step, Serve's apps are the committed ones and those the rest of the plan deletes, and those with
  another replica count are the ones it rescales. Recovery, the rollback after a death and the
  retirement after a commit all end with neither left over.
- `SparesDeleted`. `SpareInv`, on top of those and of `ConfirmInv`: what a worker is about to delete
  is not of the committed version (`LeftSpare`), the apps a switch leads to exist when it takes effect
  (`SwitchKept`), and whatever a replica routes to, or passes on its way to the last routing, is committed
  wherever deletes are possible, or was not deleted by anybody where a switch is open (`ReachedHeld`).
- `CommitsSafe`. `UpInv`: what the request deploys and no longer waits for runs (`DeploysUp`), what it
  keeps is live and committed (`KeptLive`), and this stays so from the start of a write to its end,
  whoever dies meanwhile (`WritesFirm`). A kept app may be starting: a rollback may have rescaled it,
  and nobody waits for that.
- `GenerationsTell`. `RoutingInv`: no generation is ahead of the coordinator's, across its restarts,
  and whatever has the coordinator's generation, in a replica or in a snapshot under way, has its
  table (`Generations`); a table, half applied ones included, has apps of the routing it came from only
  (`TablesOfSeqs`).
- `PromiseKept`. The same invariant: seqs flow from the versions to the table, the snapshots, the
  replicas and their reports and are never ahead of what they were taken from (`SeqsInOrder`), so a
  report of the last seq means that the replica has it, and keeps it or starts afresh
  (`WaitedFollow`); with it each step is a step of `Switchover` or leaves its variables alone.
- `CallsAreGranted`. `TurnInv`: the translator, what it has yet to be fed, the buffers and the calls
  taken from them agree on which channels of the turn were opened, heard of and closed, and a call is
  of a tool the request may use, guarded or not as its class says. `RanInv`: what has run is behind the
  loop's place, and its id is made of the response, the turn and the channel, so no id runs twice.
  `GrantInv`: an approval in the history, also one carried along by a continuation, is one a client
  sent for an item it was shown.
- `OutputIsTold`. `NumberInv`: the events of a response are numbered without a gap over its turns, the
  ones the stitcher drops included. `OutputInv`: until the loader mixes its order, the client knows
  the first items of the accumulator and, of the turn under way, the channels it was shown, each at the
  place that the turn's output will give it. The place is a counting argument (`SlotsCounted`): the
  items placed and the calls pending are together as many as the channels, so each has its own slot.
- `LoadersExclude`. `LeaseInv`: an acquire that awaits its write has the lease (`PendingHold`); the
  lease of a replica that may load is in the store or on its way (`HoldersStored`), so a restarted
  coordinator finds it; and what a check has read, however old it is when the check acts on it, never
  condemns a replica that may load (`ReadRunning`, `ReadUnlisted`, `LoopSafe`, `ReleaseSafe`).
- `DownloadsExclude`. `DownloadInv`: a process that holds the source either has a lease that
  outlasts its next renewal (`Covered`), or its actor is gone and the next one waits longer than that
  renewal is away (`Outwaited`).
- `SettlesOnce`. `WriteInv`: a record lives once (`RecordLife`); and a writer that is still under way
  once the response is settled finds each place it may still write to taken (`WriterInv`), but for one whose own
  write landed and was answered False, which is
  what makes two appends and a read as good as one compare-and-set.
- `HistoriesWhole` and `RefusalsEarned`. `LogInv` adds where an entry may be (`EntryInv`), that
  positions rise and no turn is there twice (`OrderInv`), that a log still begun by its own turn has no
  gap and holds the end of the lineage of each of its turns (`OwnedInv`), that records and parents name the
  place of their turn (`RecordInv`, `ParentInv`), and that what has been read of a history is the end of a
  lineage with the cursor at the rest (`HistoryInv`). The hard case is a log that expired and was begun
  again by continuations that still knew its name: `_entries` only counts what it reads. A counting argument shows
  that such a log is never taken for whole: its entries are at distinct positions after the lost one,
  and so they are fewer than the count asks for.
- `LogsDated` and `StoreIsAtomic`. `StoreInv`: an answer is set in the step that decides the call
  (`AnswersLate`); what a transaction has read still holds while its WATCH is intact (`WatchHolds`);
  a log without expiry has an append under way or cut (`LogDated`). Redis takes a call's effect at
  XADD or EXEC, the memory actor in its one step, and an expired key it has not dropped yet is mapped away.
  A lost reply takes the answer back and leaves the effect (`LostStep`): a `Retry` of the abstract store.
- `BackendsEnd` and `FailuresTold`. `BringUpInv`: shutdown raises its flag, tells the process
  to end and reports, in this order (`TeardownInOrder`), so the watcher sees no death in a process that was
  told, and a replica that is no more has told its backend, unless it was killed;
  a fatal failure has been heard of, or its report lost, before the worker judges the attempt
  (`FatalIsHeard`).
- `WorkEnds`. `RequestInv`: the lock's holder is the request whose thread runs, awaited or not
  (`HolderRuns`); a handler that awaits a thread knows whether it runs (`ThreadMatchesWork`).

- `TailsAreNumbered`. As long as every event was buffered, the log and the appends chained behind it hold
  the events from 0 on, whichever of them have landed (`NumbersInOrder`), so what a tail has got and its
  cursor agree over polls, reconnects and a discarded log (`CursorsInOrder`).
- `TailsAreInOrder` adds that every terminal event, chained, in the log or delivered, is one that the
  record's state bears out (`EndsTold`), for which a run must not be given up while it drains.
- `OrphansHaveStopped`. That is `KeptAlive`: either the entry's expiry or the registry's grace after a restart is further away
  than the next heartbeat, less one for each heartbeat lost.
- `OutcomesMatch`. `OutcomeInv`: what waits for the gateway fits where the replica's generator is
  (`WireFits`), and each phase of the handler finds its status and error those of the stream so far
  (`PhaseInv`), a client that goes away at any of them included.
- `UsageIsCounted`. `UsageInv`: the tokens kept for a choice are the engine's (`TokensKept`); vLLM's
  usage is under way or told once the stream closes (`VllmUsage`); what llama-server has counted is
  what the client was shown and what is still under way (`LlamaUsage`).
- `StreamsAgree`. What the parser emits for a text is the sum of what it emits for its two parts, wherever
  it is cut, if the second parse starts with the reasoning state the first one ended in (`DeltaConcat`).
  `TextInv`: for every choice that goes on, what the client was told, with the chunk that waits for it, is
  what the parser emits for a prefix of the text; the parser holds the rest of what the engine has made,
  the flags say which parts of the prefix were not empty, and the whole text is kept until there was
  content (`ParsedTo`). So the last output, which leaves the parser nothing, has either told what the parse of the
  whole text says, or everything was told as reasoning and the re-parse finds it (`EndsAsParsed`). A choice
  with its reason stays as it is, whatever the other choices do (`Agreed`), and a stream closes only when all
  have theirs (`ClosesLate`).
- `PlansReachTarget` and `RollbacksRestore`. `DiffApps` states what `build_diff` makes of each app;
  `PlanInv`, that after each step an app is gone, as the request asks or as it was, by the steps so far
  (`AppsFollow`). `OutcomeIs` and `RolledBackIs` read off what is left at the end, and what a rollback
  from any step before the commit leaves.
- `SharesAreKept`, `FitsAreLargest` and `LoadsFit`. `PreflightInv`: a loaded model that was given a fraction keeps
  within it (`LoadedInv`), what a probe read is free still, however many unloads follow it (`ProbeInv`), and
  what each estimator recommends is within the budget it was given (`RecInv`). The sums over the models of
  a node are bounded by a bound of their terms and grow and shrink by one term (`SumBound`, `SumAppend`,
  `SumRemove`). `SlideFits`, `HybridIs` and `GmuIs` bound the integer divisions of the sizes from both sides.

`BackendsEnd`, `FailuresTold` and `WorkEnds` are theorems of the composition `Replica`; those of
`GatewayProofs` and `SideBySideProofs` are each about one module.

Only model-checked:

- liveness, in every module: fairness and ENABLED are beyond the prover.

Every invariant, action property and refinement that a passing run checks is the subject of a theorem,
under the hypotheses of the table. The prover cannot instantiate the library's induction theorems, whose parameter is an
operator; where a proof needs an induction (the sums of `Preflight`), it is over the set of the
naturals, or of the subsets of a finite set, that have the property (`Induct`, `SubsetInduct`).

## 6. Where code and documentation disagree

One run is expected to fail:

- `mcp_approvals` (`openai/mcp/loop.py:543`): the loop looks for approvals in the whole
  input, which includes the history, so an approval is acted on again, and its tool called
  again, in every later request of the conversation. A comment in `adapter.py:187` says the
  loop consumes them.

More were found on the way and are recorded among the hazards with the words they
contradict: a worker that dies while its commit writes and whose rollback worker dies too,
so that the request ends as failed and its version lands afterwards
(`deploy_coordinator.py:486`); a compute pass that reads Serve before the new app is up and
the versions after the switch, and publishes the new seq without the model
(`gateway_coordinator.py:96`); a message that opens after a tool call and loses its place in
the output (`streaming.py:235`); a response that has begun and ends with an error object
(`openai/mcp/loop.py:657`); a rollback whose
`reset_routing` raises (`worker.py:153`); `stop_start` that fails after its deletes
(`worker.py:263`); a cancel accepted for a request that has nothing left to commit
(`deploy_coordinator.py:309`); a restarted gateway coordinator that hands out an empty
table (`gateway_coordinator.py:103`); a replica that becomes RUNNING between the last
pass and the confirmation (`gateway_coordinator.py:207`); an acquire that is repeated
while the first one's write is pending, and loses its lease when that write fails
(`deploy_coordinator.py:202`); a background run taken for an orphan before its first
heartbeat (`openai/utils/responses.py:523`); events a tail never gets because the buffer
goes with the terminal one (`:417`); a `response.completed` for a record that was
cancelled (`:277`). One more is only modelled (`Stops`): the buffer of a run cancelled in
its flush is left to its TTL, because the cleanup awaits the same cancelled append (`:404`).

In the replicas, the stores, preflight and the gateway:

- A fatal error that an earlier request left is not popped by `_bring_up` (only by `_rescale`,
  `worker.py:363`), so the next transient failure counts as fatal, against
  `model_deployment.py:140`. `FailuresToldApart` is about what the attempt itself reports.
- An add whose app ran between two polls and whose next replica fails for good is never ended:
  `_bring_up` looks for a fatal error only in an app that is DEPLOY_FAILED (`worker.py:351`).
  Nor is one whose app is deleted before any poll saw it (`worker.py:341`). `EveryBringUpEnds` excepts
  both (`Overlooked`).
- A backend can outlive its replica: `shutdown` sends a SIGTERM, and the thread that waits 10 s to kill it
  is a daemon of the replica's process (`llama_server_infer.py:105-119`). Nothing waits for it before the
  next load, which may find the GPU full and be told fatal. `NoBackendLeft` says that none is left untold.
- A disconnect is forgotten after 300 s (`infer_config.py:61`); a request that waits longer than
  that before it runs is not aborted.
- The comment at `llama_server_infer.py:564` says that without the disconnect registry a gone client
  leaves its stream running; HTTP requests have no registry (`api.py:580`, `:664`) and are ended by
  Serve's cancel. Only web sockets and background runs are watched (`Watchable`).
- A Redis append is XADD, then PEXPIRE (`redis.py:152`): a failure in between leaves a log without
  expiry, and so does an XADD that is sent again after a lost reply. `LogsExpire` excepts both (`cut`).
  An append whose reply was lost may answer False although it landed (`redis.py:153`, `:190`):
  `append_and_set`'s caller then takes its own settle for another's. `IsAtomicStore` allows it after a lost
  reply. And an append without a TTL keeps the log's old expiry in
  Redis and clears it in the memory actor; no caller does so.
- Free RAM that reads 0 is taken for unread, and the total is used (`preflight/base.py:48`). With
  MLA and a fraction of a GPU, `resolve_gpu_memory_utilization` drops the room left for the
  workspace. Memory freed between the probe and fit-params goes to a fractional llama_server beyond
  its share. Where neither torch nor NVML sees the GPU the fraction is not enforced. The properties
  of `Preflight` except these four. Nor do they hold of a container whose usage cannot be read
  (`preflight/base.py:210`): it is sized by what is free on the host.
- `_reconcile_trapped_content` drops tool calls that its re-parse finds (`engine_ops.py:390`);
  `StreamAgrees` excepts them.
- A client that leaves before the body of a stream starts is never recorded, and one that leaves
  right after `[DONE]` may be recorded as cancelled (`api.py:477`).
- Frames of a web socket that are queued behind a turn still run after it was closed
  (`api.py:693`; read, not modelled).

## 7. Not modelled, and the plan

- The driver, launcher, remote CLI and uninstaller: their calls are the users' actions of `Deploy`;
  the rest is command-line and process handling.
- Model sources: network and files; the lease around a download is `DownloadLeases`'.
- The WebSocket endpoint, authentication and the model listing of the gateway, and the listing of a
  response's input items: reads, or turns that run one after the other as over HTTP.
- The engines, vLLM's parsers, fit-params, Serve, Ray and Redis: external, modelled as they are used.
- Decoding of audio, phonemes, images; prompts and tool schemas; metrics other than the outcome of a
  request; logging: conversions without state, or observability.

Next, in this order:

1. Two gateways that share the coordinator and its leases; several MCP servers in one response.
2. The WebSocket turns on top of `HttpGateway` and `McpResponse`.

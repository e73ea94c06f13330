# RETINA server: TLA+ models and proofs

The server (`src/backend`) takes detection frames from passive-radar nodes, tracks and locates
aircraft with them, archives the frames and serves the result. This directory models the parts of it
whose correctness depends on the order of events: TLA+ modules translated from the code, TLC
configurations that check them on small instances, and proofs, checked by the TLA+ proof system for
every value of the constants, of their invariants, action properties and refinements. `PROJECT.json` maps each definition to the lines
it stands for, names a mutation of the code that would break each property, and lists the hazards.

    tlc -workers 2 -config MCSolverPool.cfg MCSolverPool      # check a model
    tlapm SolverPoolProofs.tla                                # check its proofs

## 1. Inventory

One process runs one asyncio loop, and beside it: one thread per frame shard (each in an executor the
shard's task owns), a registration thread, a few task threads, `SOLVER_WORKERS` solver threads and a
pool of child processes. State is module globals in `core/state.py` under a handful of locks, plus one
SQLite database.

| Component | State | Operations | Talks to | What is hard | Correct when |
|---|---|---|---|---|---|
| Frame ingest (`core/frame_queue.py`, `services/tasks/frame_loop.py`, `executor.py`) | sharded queue, executors by name and generation | producers' `put_nowait`, worker loops, shutdown, restart | every ingest route; frame workers | one worker a shard, cancellation at any point, threads that outlive a lifespan | frames of a node are processed one at a time and in order; none vanishes; final writes run alone |
| Detection archive (`services/frame_processor.py`, `parquet_io.py`) | buffers by node, in-flight claims, failure times | append, flush, cap, reclaim | frame workers, archive task, disk | two flushers, a write outside the lock, failing disk, departed nodes | each frame is stored once, or dropped for a stated reason |
| Configuration fan-out (`node_registration.py`, `node_pipeline.py`, `node_retirement.py`, `tcp_handler.py`, routes) | `connected_nodes`, pipelines, analytics, associator | CONFIG, PUT, recovery, posts, build, removals | loop, registration thread, frame workers, sweeps | four copies of one configuration with no common lock, awaits between read and write | the copies agree once things settle; a cached pipeline is stale only by a race |
| Solver threads and pool (`solver_pool.py`, `solver.py`) | the pool, its lock, thread handles, stop event | call, timeout, replacement, start, stop | solver queue, child processes, lifespan | children that hang or die, two threads seeing one failure, a stop in the middle | one pool, one generation, nothing left after a stop, no item lost |
| Multinode track store (`solver.py`, `multinode_identity.py`, `feed_gc.py`) | tracks, resolve slots, track claims, anomaly hexes | take, gate, claim, publish, supersede, record, expire, show | solver threads, known lane, feed build, collector | test and claim are apart; expiry and the feed judge snapshots | an anomaly hex goes with its track; of two pairings on a track the better one publishes |
| Polled radars (`blah2_poller.py`, `polled_radars.py`, `graduation.py`, `probation.py`) | rows with epoch and trust, a task a radar, cached fence | poll, new epoch, graduate, move, remove | SQLite, frame workers, mirror | decisions against an old epoch, cached answers on other threads, tasks cancelled anywhere | a radar is graduated only as somebody was shown it; the fence follows; the poller catches up |
| Node presence (`tcp_handler.py`, `periodic.py`, `node_retirement.py`) | status, heartbeat and disconnect times | connect, disconnect, heartbeat, prune | loop and sweep threads | two connections of one node; sweeps on old timestamps | a live node is not removed, a dead one is |
| Track archive (`track_archive.py`) | bounded deque, one pending batch | append, flush, retry, final flush | solver threads, disk | a failed batch held over newer ones | no published track is written twice; only the deque drops |
| Detection mirror (`detection_mirror.py`) | queue, counters by target | offer, drain, send | ingest, other servers | partial acceptance, departed nodes, receivers that hang or answer late | every accepted frame is charged once to each target; the queue is drained |
| Publication (`publication.py`, `aircraft_flush.py`) | cached private set, published payloads | invalidate, read, build, broadcast | database, feed, websockets | a cache read while a policy changes | a private node is in no public payload built after the change |
| Claims and custody (`node_claim_store.py`, `claim_links.py`) | claims, challenges, links | nominate, confirm, bounce, release | database, mail | a click after the address changed | only the address on file is confirmed |
| Registry mirror (`registry_mirror.py`) | digests by receiver, the receiver's rows and key list | read, plan, push, apply, delete | other servers | lost answers, late chunks, deaths between commit and list, edits on both sides | a receiver holds what it is thought to hold, and ends with what production has |
| Numerics (tracker, geolocator, filters, known lane, calibration) | tracks, fits | - | - | floating point | outside this project |
| Users, tokens, rate limits, validation, backups, health, migrations, dashboard | rows, counters, files | one transaction or pass each | - | little ordering | outside this project |

## 2. Plan

Done, in this order, most important first:

1. `FrameIngest` and the abstract `FrameContract` it implements: every frame passes through it, and the
   other components rely on its guarantee that a node's frames are processed by one thread at a time.
2. `ArchiveBuffer` and the abstract `ArchiveContract` it implements.
3. `NodeGeometry`: the configuration of a node and its copies.
4. `SolverPool` and the abstract `PoolContract` it implements: the solver's threads, pool and lifespans.
5. `PolledTrust` and the abstract `TrustContract` it implements: epochs and trust of a polled radar, the
   poller, and the cached fence before its frames.
6. `MultinodeTracks`: the store that solver threads, the known lane, two collectors and the feed build
   share.
7. `DetectionMirror`: the accounts of each receiver.
8. `RegistryMirror`: the sender and a receiver of the node registry, with losses, deaths and restarts.

The modules stand alone. They meet in `frame_processor.py`: `FrameIngest` establishes that one thread at a
time processes a node's frames, which is why `ArchiveBuffer` gives a node one worker and `NodeGeometry` one
pipeline build. `PolledTrust` abstracts the frame queue to one sequence, and `MultinodeTracks` takes the
threads of `SolverPool` as given.

Left, with the order they would be taken in: node presence, to compose with the removals of `NodeGeometry`;
the publication policy against a payload being built; the track archive as a second implementation of a
contract like `ArchiveContract`; claims and custody. The theorems left are those about them; of the modelled
components, section 6 lists what is only model-checked.

## 3. The modules

Each component has a module, an `MC` module with the values TLC uses, and a `Proofs` module.
A definition marked "Mutation" is a plausible bug: with it in place of the definition below it, the
property named in `PROJECT.json` fails. It is part of no specification.

### FrameIngest and FrameContract

`queue` is the sharded queue, a frame is its node and its number. The actions of a shard follow
`frame_processor_loop` and `task_executor`: enter the executor, take, submit, the thread's start and
finish, the job's `_finished` callback, resume, and at shutdown cancel and exit after the deadline.
`Boot`, `Stop`, `Quiesce` and `FinalWritesEnd` are the lifespan in `main.py`. Producers are the TCP
detection path with its rate limit, the bare-frame path, the v1 post and the plain and bulk posts; they
differ in what they do with a full queue. The queue's hash is a given function of the node.
`FrameContract` has no shards, threads or queues: it says of each node how many frames were accepted and begun,
whether one is being processed, and which a shutdown gave up; a frame in a shard, with a worker or queued in
an executor is accepted and not yet begun.

### ArchiveBuffer and ArchiveContract

Every operation on a buffer appends at its end or takes from its front, so a buffer is the interval of
frame numbers between `head` and `tail`. `Begin` claims the node and takes the snapshot, `Write` is the
write and rename outside the lock, `Truncate` and `Retain` the two ways it ends. `Sweep` and its
successors are the archive task, with the reclaim's two separate reads (`FindExpired`, `ReadLive`).
`ArchiveContract` says only that a frame is held, then stored once or dropped, oldest first; the
refinement maps a frame that is on disk but not yet off its buffer to "stored".

### NodeGeometry

One node. `entry`, `hash` and `peer` are its `connected_nodes` entry; `pipeline`, `analytics` and
`geometry` the copies; `jobs` the registration executor's queue. A handler is an asyncio task that is
suspended at its awaits: between CONFIG and the acknowledgement (`acking`), at the database read
(`reading`, `read`) and at `register_node` (`registering`). Lookup and Store are the two halves of
`get_or_create_node_pipeline` on the frame worker. The acknowledgement may fail (`TcpAckFails`) and
with it the registration, a registration may raise (`RegistrationFails`), and so may a retirement half way
(`RetireFails`). Removals are `retire_node`, one store after another, `let_go` on the loop, the prune and the
sweep of stale pipelines. `astray` records that nothing is left to tell the libraries of the entry as it
stands; a registration that carries the entry ends it. `Canon` is `canonical_config` as a
given function: two spellings of one configuration have one canonical form.

### SolverPool and PoolContract

Pools are numbered as they are made; `shut` and `broken` say what happened to them. A thread at work reads
`_solver_pool` without the lock, submits, waits, and on a timeout or a broken pool tears the pool down
under the lock, makes another, and computes inline. The process pool itself is external: a submit to a
broken executor raises `BrokenProcessPool`, to one that was shut down `RuntimeError`; a call returns, is
lost with its child, or never returns. `Start`, `Stop`, `Join`, `Detach` and `ShutDown` are the lifespan's
calls. How many calls an item makes is left open, which also covers the known-lane pass between items.
`PoolContract` keeps the set of open executors: one is made when none is open, and a server that is down has none.

### MultinodeTracks

`tracks` is `multinode_tracks` by key, `slots` the resolve slots, `claims` the claims of node tracks, `owned`
the follow lane's last publication by key, `hexes` the anomaly hexes. A solver thread takes an item
(`Take`, unless the slots cover it), is refused by a gate (`Reject`), passes (`Accept`) or bids for its two
tracks (`Claim`), stores the result under the lock (`Publish`: key decision, supersession, a coasting entry
retired, the anomaly flag carried over; `Anchored` is what lets a solve keep a key that is stored) and records its slots afterwards (`Record`). `Trimmed` and `Adopted`
say how a solve may change its nodes. A dark key is the time of the measurement and the rounded place, as the
code writes it, so two copies of a candidate may mint one key, and a key that went may come again. `KnownPublish` is the known lane between two items. The collector and
the feed build's own prune snapshot, discard the hex and pop the entry in three steps; `BuildFeed` and
`ShowFeed` are the feed's snapshot and the hexes it writes. Positions are left out: which entries a solve is
near is chosen freely among those the other guards leave, so a run covers every geometry. `crossed` records
the keys removed while a feed build under way could still show them.

### PolledTrust and TrustContract

`row` is the radar's row, `task` the target its task was started with, `state` where it stands in
`RadarPoller`, `stage` where `Poller.sync` stands. A commit and the `probation.invalidate` after it are two
steps (`owed`), since the coroutine resumes some time after its commit, and a task may be cancelled in between
(`cut`). The poller has no wakes here: its timer alone brings `sync` about. `Read` and `Fill` are a refresh that holds probation's lock, `Judge` and `Process` the frame worker,
which asks once by the radar's id. `admin` and `owner` hold the epoch each was shown, `approved` the epochs an
administrator graduated. `TrustContract` is the book kept of the radar: its epoch, its trust
and the epochs approved, with no task, cache or frame.

### RegistryMirror

A row is a table and a node; one table stands for the three listed ones that refer to a node. The sender reads
the nodes, and an await later the rest (`ReadNodes`, `PlanPush`), posts chunks in foreign-key order (`Post`)
and remembers the registry it read when the last one is answered. A chunk is in `calls` until it is answered;
one that was given up may still land. The receiver applies a chunk in one transaction (`Apply`), refused when
a row has no node, when a node to go has rows of the receiver's own (`own`: tokens, contacts, claim challenges,
polled radars) or when the write lock is not had (`Busy`), and after a full one replaces its key list (`WriteHeld`). `touched` records the rows that
are otherwise than the last push left them, for a named reason, and `unlisted` those that came in since a list
named them.

### DetectionMirror

A frame is its node and its place among the accepted. `Drain` builds a batch without an await, so it is one
step; every target is posted the batch at once, and the next drain waits for all of them (`waiting`). A
receiver queues some of what it was posted (`Receive`), perhaps after the client gave up (`ReceiveLate`).

## 4. The runs

| Run | Question | Bounds |
|---|---|---|
| `frame_ingest` | serial and in-order processing, no frame lost, the bound of the whole queue, final writes alone, refinement of `FrameContract`, a worker lost only to a race at a restart; the other shard is served and shutdown ends | 2 shards of one node each, one thread that may hang, queue of 2, 4 frames, 2 lifespans |
| `archive_buffer` | no frame written twice, none leaves unwritten unnoticed, no claim left behind, a buffer that cannot be written stays within its cap, refinement of `ArchiveContract`; a healthy disk empties the buffer | 1 node and worker, the archive task, batch of 1, 4 frames, so that the cap of 2 cuts |
| `node_geometry` | the copies agree once settled, or a named step left nothing to tell the libraries; staleness only by a race | one handler of each kind, 3 configurations, every removal and failure, 2 changes |
| `solver_pool` | pools, generations and cancellations, an item dropped only in another thread's recovery, refinement of `PoolContract`; work and shutdown end | 2 threads, one of which may hang inline, 2 lifespans, 3 pools, 3 calls |
| `multinode_tracks` | a hex outlives its track only by a race with a feed build; a claim is held by the better fit | 2 threads, 3 items taken of 4 kinds, 3 node tracks, dark keys of 2 times at one place and one transponder's, 1 tick, one pass of each collector |
| `polled_trust` | the fence is fresh, a decision counts for the epoch shown, what is released is behind the decisions, refinement of `TrustContract`; the poller catches up | 2 epochs, 2 versions, 2 decisions, 1 frame waiting |
| `registry_mirror` | what is thought to be held is held, the key list covers the rows, a chunk is refused only for a named reason; rows arrive | 1 node, 3 writes, 1 fault, 1 edit |
| `detection_mirror` | the books of each target balance; the queue is drained | 2 nodes, 2 targets, queue of 2, 3 frames |
| `archive_reclaim` | violated: a connected node's frames are abandoned | 1 node |
| `geometry_forget` | violated: a forgotten node is registered again | 1 request |
| `registry_gone_rows` | violated: a full push leaves a row production no longer has | 1 node, 2 writes, no fault |
| `registry_taken_ref` | violated: a node that is skipped takes the rest of its chunk with it | 2 nodes, 3 writes, 1 edit, no fault |

The bounds cover each pairwise race: a shard that hangs beside one that does not; two flushers of one
buffer and a buffer beyond the cap; a handler of each kind against every removal and the worker's build;
two threads on one failed pool with a third pool left to make, and a thread of the first lifespan alive
when the second wants to start. A batch or queue of one or two reaches its limit at once. Actions that
count (offers, changes, calls, boots, ticks) stop at their bound, which is why the runs with such bounds do not
check for deadlock; the archive, trust and mirror runs do.

For the store, two pairings that share a track and a wider candidate over all three tracks meet in every
order, a key can be minted, expire, be minted and be flagged again, and one pass of each collector overlaps any
publication; ages of 0 and 1 put the expiry, the claim's and the scan's windows on either side of a tick. No
candidate there has four nodes, so TLC never takes `Trimmed`'s choice; the proofs cover candidates of every
size. Two epochs give the radar a before and an after, with a frame of the first still queued; two versions let
a task be superseded by version and by epoch. One node has three rows, each of a foreign-key rank of its own, so a push has
up to three chunks; three writes let a row come, go and come again, and one fault is a lost answer, a death or
a restart at any step. Two targets let one hang while the other answers; a third accepted frame arrives while
two are out. `PollerCatchesUp` and `RowsArrive` speak of a row and a production that rest: in the runs, after
the bounded decisions and writes are used up.

`QueuedFrameBegins` is stated for the first lifespan of a process. Between a job's future finishing and its
`_finished` callback a new lifespan can pass the check in `main.py` and then find the executor's name
taken; that shard's task then ends for the whole lifespan. `WorkersEndByRace` says that a shard
loses its worker in no other way. The deployed server has one lifespan a process.

### What the violated runs show

Four statements in comments and docstrings are not what the code does; `PROJECT.json` quotes each.

- `_reclaim_dead_archive_buffers` says a connected node keeps its frames, but acts on two reads made
  under locks it has released.
- `forget_node` says nothing can register the node again, but a rejoin that read it active can.
- The registry mirror says a full push lets the receiver drop what production no longer has, but a row that
  came by an incremental push and went before the next full one is named by neither list.
- The registry mirror says that skipping a node whose ref is taken on the receiver keeps the rest of the chunk
  from failing with it, but the node's configurations stay in the chunk and fail the foreign key, so the whole
  transaction is refused, at every push until the ref is given back.

### Seen while modelling

These follow from the code and no run states them.

- `frames_dropped` is described as the queue-saturation counter, but of the ways in the bare-frame TCP branch
  and both loops of `routes/radar.py` refuse frames without counting them.
- `evict_pipeline` says the next frame sees a changed configuration; a worker that read the old one before
  the eviction stores its pipeline after it. `StaleOnlyByRace` shows that this is the only way.
- A feed build that took its snapshot before a track was expired or superseded may flag its hex again
  afterwards, and nothing removes that hex unless its key is used again: this is what `OrphansByRace` exempts. The count of hexes feeds the
  `anomaly_flood` check.
- A pairing that won its claim publishes even when a better one claims one of its tracks before it does: the claim
  is tested once. `solver.py:1107-1108` says the better chi2 wins and the loser is withheld. And a claim is
  held for 60 s where the map keeps a dark track for 30 s, though `solver.py:1113` calls the windows the same.
- A radar's frames are judged by its id, so frames of an earlier epoch still in the queue or the tracker are
  let past once a later epoch is approved; `ReleasedBehindTrust` says that they are never of a later one.
- `RefusedForReason` names what else refuses a chunk. A node that left production cannot go while the receiver
  has a token, a contact, a claim challenge or a poll of it: `_delete` clears the mirrored tables only, and the
  rows of the same chunk are lost with it.
- `_pool_call` means to "retry inline rather than dropping the item" (`solver_pool.py:128`), but a submit to a pool
  another thread has just shut down raises a `RuntimeError` that neither clause catches, and the item is dropped.
  `DropIsAnothersRecovery` says that an item is lost in this way only in the middle of that recovery.
- When the CONFIG_ACK raises or is cancelled, the entry has been replaced and `register_node` is not called: the
  registry and the libraries disagree until the node is registered again. `SettledAgrees` exempts this with the other
  steps after which nothing tells the libraries: a registration that raised, the prune, which leaves them as they
  are, a node that left with a job queued, and a retirement that raised or overtook a new entry's registration.
- A dark key can be minted again after its entry expired, or while its entry has moved on, since two copies of a
  candidate have one time and may have one rounded place. The keying decision asks only that a key be "unique at
  birth" (`multinode_identity.py:584`).
- The list a receiver keeps may still name a key that was removed and then made again on the receiver itself;
  the next full push removes that row too. A failed push is planned anew, not resent.
- Each target of the detection mirror has its own post, but the next drain waits for all of them, so a hung
  receiver delays the others' next batch by the client's timeout, where the module says it never does.

## 5. Fairness

Liveness assumes that the event loop and the threads run (weak fairness of each of their steps), that timers
fire and that bounded waits end. It never assumes that a native call returns: the thread of a shard in `Hung`,
an inline solve of a thread in `Stuck` and every call of a child may last for ever. The poller's loop and its
reads of the registry go on; a radar, an owner or an administrator owes nothing. The registry mirror's task
and its receiver keep running, and faults and edits come to an end; refs taken on the receiver are given back, and
no row of its own holds on to a node that left production.
The detection mirror assumes that every post ends. `httpx` bounds each read by its timeout and not the whole post,
so a receiver that is silent, refuses or hangs is covered, and one that answers a byte at a time for ever is assumed
away. No producer has to produce, nobody has to stop or restart the
server, and disks and children may fail at any time. The archive's liveness is stated for a disk that stays
healthy. What carries it in the code: one executor a shard, the deadlines of `task_executor` and
`stop_solver_workers`, the timeout of `_pool_call`, and `finally` clauses.

## 6. Proofs

The proofs assume what the modules' ASSUMEs state: the constants' types, that the hash is a function of the
node, that canonical forms exist, that "no value" is not a value. TLC evaluates them in every run.

- `FrameIngestProofs`: `TypeCorrect`, `NodesAreSerial`, `FramesAreKept`, `WritesAreAlone`, `StartsInOrder`,
  `QueueIsBounded`, `WorkersLast`, `IngestKeepsContract`. Seriality is not inductive by itself: the invariant adds that a
  shard's worker that waits has exactly one job, that jobs of a generation end before its name is free, and
  that queued and running frames of a shard are in the order of arrival. The bound of the whole queue is an
  argument about counting: the frames waiting are injected into numbered slots shard by shard. For the
  contract `RInv` adds `LostBefore`: what a shutdown cancelled of a node came before all of its frames that wait.
  For `WorkersLast` `EndsInv` adds that a name is taken only by the worker inside or by a generation with a job
  left, and that a worker about to begin finds only done jobs, of earlier lifespans.
- `ArchiveBufferProofs`: `BuffersTyped`, `ArchivedOnce`, `NothingIsLost`, `ClaimsHaveHolders`,
  `FailingBuffersStayCapped`, `ArchiveKeepsContract`. The invariant says that the snapshot a thread writes is
  still the front of the buffer, since only the holder of the node's claim takes frames off, and counts the
  copies of each frame by where it is. For the cap, `CapInv` adds that a failing buffer is never empty and has
  room for one frame more than the cap exactly while its worker is about to flush, and that a flush that found
  nothing is of a buffer that is not failing. The refinement maps each action to an accept, a store, a drop
  or a stutter under it.
- `NodeGeometryProofs`: `GeometryTyped`, `StaleMeansRaced`, `SettledMeansAgreed`.
  `SettledMeansAgreed` rests on the youngest job carrying the registry's configuration unless `astray`, which every
  way in keeps because it queues its job in the step that writes the entry, except the TCP handshake, and on the one
  registration thread taking jobs in order; between the two calls of a last job the analytics library holds it
  already, and a node that is out has no job left.
- `SolverPoolProofs`: `PoolTyped`, `PoolsDoNotLeak`, `CurrentIsOpen`, `NothingIsLeft`,
  `GenerationsDoNotOverlap`, `OnlyStopCancels`, `PoolsKeepContract`, `DropsComeFromRecovery`. Whoever holds the
  lock across steps holds it on the current pool, which it has shut down; a shutdown that is past its swap
  leaves none; so a late failure finds another pool than its own and leaves it. Every living thread has a
  handle and is of the last generation. `DropsComeFromRecovery` needs the first of these: a
  submit is refused only by a pool whose replacement is under way or that was already replaced.
- `MultinodeTracksProofs`: `TypesHold`, `OrphansOnlyByRace`, `ClaimsHeldByBest`. For the hexes
  the invariant adds that a collector about to pop an entry has taken its hex, and that what a feed build is
  about to flag is stored or was removed during the build. For the claims it adds that a thread that won still
  finds on each of its tracks a claim no older than its own and no worse.
- `PolledTrustProofs`: `TypesHold`, `FenceIsFresh`, `GraduationsWereShown`, `ReleasesBehindDecisions`,
  `BookKeepsContract`. The fence needs the same of the answer of a refresh under way, which holds since an
  invalidation waits for the lock. The releases need that no task, frame or tracker is of an epoch later than
  the row's, and that a frame let past is covered, with the tracker it goes into, by one approved epoch.
- `RegistryMirrorProofs`: `TypesHold`, `AcceptedHasLanded`, `ListCoversRows`, `RefusalsHaveReasons`. The invariant
  ties the chunk in flight to the push it was cut from, says of every row of a push where it is (to post, in
  flight, in place, or excused), and that a list about to be written names what its transaction left. A refused
  row's node was then skipped, not read, or in place and lost since, because `Ordered` says that no row is
  posted while its node still waits; a delete is refused by a row of the receiver's own and by nothing else.
- `DetectionMirrorProofs`: `BooksAlwaysBalance`, `TypesHold`. A frame is in exactly one of the queue, a batch not
  yet charged, and the accounts; set lemmas say what an offer and a drain do to the counts. The invariant adds
  that frames are numbered apart and that the frames a late receiver may still queue are among the failed.

Every invariant, action property and refinement that a passing run checks is also proved. Only model-checked are
the liveness properties, since liveness under fairness is outside what the prover handles: `QueuedFrameBegins`,
`ShutdownEnds`, `HealthyDiskEmpties`, `WorkEnds`, `StopEnds`, `PollerCatchesUp`, `RowsArrive` and `QueueIsDrained`.
The violated properties have a counterexample and no theorem. The type theorems are proved where no run spends a
property on types.

## 7. Not modelled

The components without a module in section 1 are listed in `PROJECT.json` with their reasons. Much of the
server is numerics (the tracker and geolocator, the solver's fits and gates, filters, calibration, reports) or
one transaction a route, and neither gains from a model of its steps.

Within the modelled components: what a frame holds, the formats on disk and on the wire, what a solve or a tracker
computes, the wording of logs, and the authentication of requests. `get_nowait` and `task_done` of the queue are
used by tests only. In `NodeGeometry` a configuration PUT that is overtaken by a later one can leave the older one
in the registry; the libraries then agree with the registry, which is what is checked. In `PolledTrust`
credentials that change alone, a radar whose address moved, and liveness columns. In `RegistryMirror`
owners' accounts, columns and a second target. In `DetectionMirror` the entries' contents, the order within a
batch, and a task cancelled at shutdown. In `MultinodeTracks` positions, and the history of display tracks.

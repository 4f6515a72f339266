# rpc_feed in TLA+

`rpc_feed` serves market data over gRPC streams (DuckDB over parquet files for
ticks, PostgreSQL for the rest) and fills those files with a small DAG engine.
This directory holds TLA+ modules of its concurrent core and of the pure
algorithms around it, the TLC configurations that check them on small
instances, and theorems with TLAPS proofs. Paths below are relative to the
repository; `to_graph.py:155` is line 155 of the file of that name.

## 1. The system

| Part | Code | State it keeps | Operations | Hard behaviour |
|---|---|---|---|---|
| Graph engine | `rpc_feed/core/graph/to_graph.py`, `serialize.py`, `util.py` | the window `pending_tasks`, the bounded `queue`, the process pool, consumers | submit, wait for the first, put, gather, stop markers, consume, cancel | callbacks scheduled but not run, suspension in `queue.put`, signals at any await |
| Graph session | `to_graph.py`, `monitor.py`, `serialize.py` | the `Graph` singleton: nodes, writer, `_gc_event`; loky's reusable pool and the chain in each of its processes | `to_execute` again and again, the monitor task, `init_worker` | state left by an earlier run, a pool that outlives its run, processes that die |
| Node description | `graph/meta.py`, `node/node.py`, `utils/wrapper.py`, `utils/io.py` | the registry and the parameters of each class | build a node from a graph file | three layers of parameters, classes that refuse an argument |
| Memory monitor | `graph/monitor.py` | flag, thread, alerts, history | start, stop, look, alert, reset | threads without a lock, a join shorter than the sleep, callbacks that raise |
| DuckDB pool and streams | `gateway/duckdb/operator.py`, `rpc/server.py`, `feed.pyx`, `run_server.py` | connections, permits, one generator chain per stream | start, batch, send, cancel, finalize, shut down | blocking call on the loop, threads that outlive their request, generators dropped at a yield |
| PostgreSQL gateway | `gateway/pg/operator.py` | engine, flag, lock, sessions | lazy initialisation, stream, `get_db`, cleanup | racing initialisations, cancellation at any await, cleanup beside requests |
| Providers | `datasets/provider.pyx` | one buffer per call | append, flush, slice by sid | singletons shared by concurrent streams, boundaries |
| Node chain and parquet store | `graph/node/loader.py`, `format.py`, `writer.py`, `serialize.py`, `feed.pyx` | the chain of each worker process, parquet files in hive directories | glob, load, parse, scale, partition, `write_dataset` | nodes that fail to start, writers in threads beside each other, deletion before the new file is complete, kills |
| Partition planning | `gateway/duckdb/utils.pyx`, `operator.py` | none | request bounds to months to directories | time zones, month and year ends, three separate computations |
| Staging compaction | `scripts/sync.py`, `node/writer.py` | files | read, merge, replace, unlink | kills between calls, files that arrive meanwhile |
| Rate limiter | `rpc/middleware/interceptors/ratelimit.py` | bucket, time of the last refill | `allow_request` | threads, time passing inside the call |
| Parsing and drawing of GraphML, utilities, scripts | see section 8 | | | not modelled |

How they interact. `server.py` takes a permit of a semaphore and iterates
`BtFeed.fetch`, which iterates a provider, which iterates either
`DuckDBManager.query` (a connection of the pool and executor threads) or
`AsyncOps.on_query` (a session). Cancellation enters at the RPC and unwinds
that chain, or drops it. `shutdown()` in `run_server.py` runs the cleanup of
both gateways and then stops the server. The graph engine is a separate
process (`scripts/pipeline.py`); it writes, through `ParquetWriter`, the files
that `sync.py` folds and that `_glob_path` finds. Only the layout of the
partitions ties the two halves together, which is what `TickPartitions` is about:
it composes the loads of `ParquetStore`, through the nodes of `NodeChain`, with
a request that plans what to read.

What makes each part correct:

- engine: a run returns, also when a worker process dies; consumers stop last;
  nothing is left in the queue or pool; the window bounds the work; results are
  not lost or repeated.
- session: a run uses the nodes and parameters of its own graph file, in the
  parent and in the pool, and returns whatever an earlier run left behind.
- memory monitor: one loop watches, an excursion is alerted once, a critical
  process is reported, a stop ends the loop.
- streams: permits and connections are conserved on every way out, come back,
  and are not used by two requests; requests end.
- gateway: one engine, flag and engine change together, sessions are closed.
- providers: rows arrive once, in order, in frames of one sid.
- store: a full load replaces what it stores anew and an incremental one only
  adds, whatever failed before; what is stored says what the input said.
- partitions: what the filter selects is read, and nothing else.
- compaction: no tick is lost or goes back in time.
- limiter: never too much and never too little, over every interval.

## 2. Modules

| Module | Models | Composition |
|---|---|---|
| `BoundedPipeline` | abstract contract of a run: a window, an output closed when nothing is held, finished when all is delivered | refined by `GraphEngine` (`ImplementsContract`) |
| `GraphEngine`, `GraphEngine_proofs`, `MCGraphEngine` | one run, parallel or sequential | `INSTANCE BoundedPipeline WITH ...` |
| `GraphNodes` | registry, parameters and construction of nodes, `init_worker` | |
| `GraphSession`, `GraphSession_proofs`, `MCGraphSession` | calls of `to_execute` on the singleton and the pool behind them; a run is one phase here and `GraphEngine` is its detail | EXTENDS `GraphNodes` |
| `MemoryWatch`, `MCMemoryWatch` | `MemoryMonitor` and `memory_limit` (`WatchInit`, `WatchSpec`, ...) | theorems in `GraphSession_proofs` |
| `DuckStreams`, `DuckStreams_proofs`, `MCDuckStreams` | server semaphore, handler, provider, query, pool, threads, shutdown together | |
| `PgGateway`, `PgGateway_proofs`, `MCPgGateway` | `AsyncOps` and `AsyncStreamProxy` | |
| `FrameStreams`, `FrameStreams_proofs`, `MCFrameStreams` | buffers and frames of the three kinds of provider | EXTENDS `Orders` |
| `Orders`, `Orders_proofs` | ascending sets of numbers, selection from a sequence; lemmas on least and greatest elements that the other proofs cite | |
| `Calendar` | civil dates and instants, the months data is stored by | |
| `NodeChain` | the nodes of the shipped parquet graphs, `init_worker`, `run_sync_pipeline_global`, the choice of input files | EXTENDS `Calendar`, `Orders` |
| `ParquetStore` | loads one after another, each with writers beside each other, failures and kills | EXTENDS `NodeChain` |
| `TickPartitions`, `TickPartitions_proofs`, `MCTickPartitions` | a request's dates, months, directories and filter, over what was loaded | EXTENDS `ParquetStore`; its `Next` holds `StoreNext` |
| `StagingSync`, `StagingSync_proofs`, `MCStagingSync` | `compact_and_merge` beside ingestion | |
| `TokenBucket`, `MCTokenBucket` | `allow_request` (`BucketInit`, `BucketSpec`, ...) | theorems in `DuckStreams_proofs` |

An `MC` module only names the values of constants. Operators that exist to be
put in the place of another (`PillCountHigh`, `KeepPermit`, ...) stand beside
the definition they replace, and are the mistakes a property must catch.

### State and actions against the code

**GraphEngine.** One event loop, so a coroutine is interrupted only where it
suspends: actions of tasks, callbacks and consumers are guarded by `Suspended`.
`pc` is the producer (`loop`, `wait` = `asyncio.wait` line 150, `gather` line
161, `pills` line 168, `join` = `gather` of the consumers), `blocked` a
suspended `queue.put`. A task goes `created -> running -> done -> discarded`;
the last step is the `pending_tasks.discard` callback, a loop iteration after
completion. The FIFO ready queue of the loop is the variable `due`: callbacks
scheduled before the producer suspended run before it resumes. The pool
answers data, None (dropped) or an error; a writer that fails is caught. When
a worker process dies (`WorkerDies`) the pool is `broken`: what it holds may
end as an error, and what is submitted later is refused (`SubmitRefused`).
`parallel` is the argument of `to_execute`. Without a `writer` a consumer dies
on its first line (`ConsumerFails`) and the join raises what it raised
(`JoinRaises`), if the producer gets there. `Cancel` is the signal handler,
which cancels every task of the loop.

**GraphNodes.** No state. `Derive` is `AutoInfoClass._derive`, `Pairs` what
`MetaParams.__new__` makes of the class body and `Node`, `Params` the object
`p` that `donew` fills from the keyword arguments, `Accepts` where an argument
nobody wants is refused (`object.__new__`, or `__init__` if the class has one).
`Build` is `build_from_cfg`, `InitWorker` leaves out what cannot be built.

**GraphSession.** A graph file is its nodes in topological order, each a pair
of a class and the parameters the file gives. `Execute` is `_build_graph` with
`reset()`: a cycle raises before the first node, a node that cannot be built
raises at its place and leaves what came before it in the singleton. A parallel
run takes the pool of an earlier one if `Reusable`, loky's rule for
`reuse="auto"`; `StartWorker` is the initializer in a process, `chain[w]` its
`_WORKER_PIPELINE`; `WorkerDies` may come in a run or between two.
`MonitorLooks`/`MonitorChecks` are `monitor_background`, `Collected` a
thread of `_trigger_gc`; `StopMonitor`, `Return` are the `finally`.

**MemoryWatch.** The owner starts (`StartMonitoring`), stops and joins
(`Joined`, or `JoinTimesOut` after 5 s). `loop[l]` is the place of a loop
thread, with one step per access to what the threads share: the flag, a
snapshot, its trimming, the test of each alert, the alert with its callback,
which may raise, the reset, the sleep of 10 s. A loop that outlives its stop
sees `monitoring` again when the owner starts the next one.

**DuckStreams.** `req[r]` says where the handler's chain is suspended:
`queued` at the semaphore, `executing`/`reading` at `run_in_executor`,
`sending` inside gRPC, `dropped` and `orphan` when it was abandoned at a yield
and a finalizer will close the handler's and then the query's generator.
`frozen` is the request whose `get_connection` holds up the whole loop:
`LoopFree` guards everything else but the threads. `job`, `jobConn` are what a
thread does and on which connection, `stmt[c]` the request whose statement the
connection executed last. `Signal`, `CloseAll`, `GraceExpires`, `Stopped` are
`shutdown()`.

**PgGateway.** Actions run from one await to the next: `EnterWaiting`,
`LockAndBuild`, `Built`/`BuildFails`, `Opened`/`OpenFails`, `Closed`, and a
`Cancel...` for the awaits before the session is being closed: the wait for the
lock, the building of the engine, the opening, the stream. A cancellation in the
commit, the rollback or the close itself is not modelled. `cleanup()` is two
actions, around `dispose()`, and two signals start two of them.

**FrameStreams.** `kind` is the provider: SQLAlchemy with the sid as boundary
(`grouped`), without (`plain`), DuckDB (`batch`). Rows are numbers with a sid;
`read`, `sent`, `frames` record what has been taken and given.

**NodeChain.** No state: what flows through a chain is a path, a frame (a set
of rows, each a function from its columns) or None, and `RunPipeline` folds
`NextNode` over the nodes as `run_sync_pipeline_global` does. `Pipelines` are the
chains that `init_worker` can build when nodes fail to start. A
`StructUnpacker` row is two packed integers and a price in cents, a
`TextLoader` row a text and a decimal price; both end as a wall clock, a tick
and a price. Time and prices are numbers, and the Gregorian calendar is
computed, not tabulated.

**ParquetStore.** `Load` is `BtFeed.load` (glob, then `to_execute`); `Take` is
a writer that gets a frame, through any chain a worker may have;
`MakePartition` is `_make_partition` and `from_pandas`, after which the writer has
a table; `OpenPartition` is the moment `write_dataset` prepares a directory
(`delete_matching` empties it) and starts a file; `CloseFiles` is its return. A
file has a name (0 for pyarrow's `part-0`, the number of the load for the time
stamp of `incr`), the load and the input it came from, and is readable only when
`complete`. The stamp has seconds (`writer.py:216`) and is taken for unique: no two loads start in
the same second. `Lose` is a frame that never reaches a writer, `WriteFails` an
exception in the writer, which `async_consume_worker` prints, `Kill` the end of
the process. `faulty` records the loads in which one of these happened or a
node was missing.

How the engine hands over results is `GraphEngine`'s subject, with one
consequence here. It may put a result twice (`NoResultPutTwice` is refuted,
section 5), in a load in which nothing fails, and both puts are of one DataFrame,
which `_make_partition` changes in place: it assigns the partition columns and
then the converted datetime to the frame it was given (`writer.py:238-246`).
So a writer may `PutTwice` what it takes, and another, or the same one later,
takes it again (`TakeAgain`). If the frame is `converted` by then, its
datetimes are converted once more: the rows are stored eight hours early, in the
right file's place or in the directory of the month before. If both threads are
in `_make_partition` at once the frame is `raced`: pandas may raise, each
column may be computed before or after the other thread's conversion
(`MonthAfter`), and the datetime may be converted once or twice (`InUtc`). If
both write one path at once either file may be the one that stays, or what stays
cannot be read (`Holders`). `twice` and `raced` record these frames for the
properties.

**TickPartitions.** `ParseToYmd`, `InRange`, `AddMonth` are the loop of
`schema_range`; `FilterBound` is `_parse_date` and `Filter` what the query
selects; `Category` is the first matching rule of `_glob_path`, and `GlobPath`
keeps the directories that exist. Regular expressions are the sets of sids they
match.

**StagingSync.** One action per call to the file system; a kill forgets what is
in memory. A row is its tick and the number of the file it came in.

**TokenBucket.** `Enter`, `ReadClock`, `Refill`, `Allow`/`Deny` are the lines of
`allow_request`; `Tick` may come between any two. Tokens are counted in units
(`Cost` to a request) so that fractions need no reals. `spentBefore[s]` is what
was granted to calls that read a clock earlier than `s`. A call counts at its
reading of the clock, which is what the code can promise: by the time it
returns the clock may have moved on.

## 3. Runs

| Run | Instance | What it shows |
|---|---|---|
| `graph_engine` | both modes, with and without a writer, 4 items, window 2, queue 2, 2 consumers, data, None and errors (sequential: no None), a dying process, a signal | window, consumers stop last, clean return, no loss without blocking, no third put, termination, refinement of the contract |
| `graph_engine_loss` | the same with a queue of 1 | **violated**: a result is lost while the producer is suspended in `put` |
| `graph_session` | 3 calls, parallel or not, 8 graph files, 2 worker processes, 2 collector threads | own nodes and parameters, a pool that fits the run, runs return |
| `memory_watch` | 2 starts, 3 levels of usage, a history of 2 | one loop, one alert, critical is heard, stops end, the history is bounded |
| `duck_streams` | 3 requests, 1 connection, 1 permit, 1 batch | conservation, a frozen loop waits in vain, requests end, connections come back |
| `duck_streams_reader` | 2 requests, 1 connection | **violated**: a reader finds another request's statement on its connection |
| `pg_gateway` | 2 streams, 1 insert, 3 engines, 2 signals | one engine, flag and engine, sessions, requests end |
| `frame_streams` | 2 requests of any kind, 3 rows, 2 sids, buffers of 2 | order of the rows, and frames that are of one sid and as long as they can be |
| `tick_partitions` | 2 loads, of 2 directories by 3 graphs, with 2 writers; one of the loads with failures of any kind and a frame put twice; then a request with 3 starts, 4 ends, 3 sids | loads replace or append, what is stored says what the files said, what is selected is read, nothing else; the tick of a text row lags its datetime, that of a frame put twice by one conversion more at most |
| `tick_partitions_benchmark` | the same, one load, no failure | **violated**: 399006 is written as benchmark and looked for as stock |
| `staging_sync` | 3 files, 2 ticks, 2 kills | nothing lost, newest wins, no temporary file but of a kill |
| `rate_limit` | 3 threads, 6 ticks, bucket of 2 requests, 2/3 of a request per tick | both directions of the limit |

### Bounds

- *Engine*: four items and a window of two let a result settle in `wait`, in
  `put` and in `gather` of one run; a queue of two makes `put` suspend, and has room for both markers when nothing
  was put, which is how a run without a writer comes to its join; two
  consumers can have a marker and an item at the same time. In a parallel run
  errors come with a dying process: the producer treats them as None. No history beyond
  the window matters.
- *Session*: the eight files are two with the same chain and another writer, one
  with another factor, one without a writer, one with two, one with a cycle,
  one with a parameter no class has, one with a class nobody registered. A third call can
  follow two different ones, or a failure of either kind; two processes can
  start before and after one another.
- *Memory monitor*: two loops are enough for one to be revived by the other's
  start; usage is below, between and above the thresholds; the counter of alerts
  stops at two.
- *Streams*: everything is scarce on purpose. With one connection and one
  permit the third request meets both an abandoned predecessor and a waiting
  one. `MaxBatches` = 1 gives a first read, a send, a second read and an end.
- *Gateway*: an initialiser, one that waits for the lock and one that arrives
  later; the third engine is only built when a cleanup came between.
- *Frames*: three rows of two sids hold every pattern of equal and different
  neighbours at a full buffer, with a rest and without.
- *Loads and partitions*: the second load meets everything the first, or its
  failure, can leave behind; `delete_matching` and file names do not look
  further back. One load of the two may be troubled (`MaxTroubled`), which
  is enough for trouble after what is sound and for what is sound after
  trouble, and one frame may be put twice in it (`MaxTwice`): frames of different
  files meet only in a directory, and a directory is of one security. `Races` are what a race may leave of the partition columns:
  all computed before the other thread converts, or the month after it;
  the theorems are for any. The writers are alike (symmetry; no temporal
  property but `IncrementalAppends`, which is about single steps, is checked there).
  The files have lines of the first minutes of a year in Shanghai,
  the last of a January and the first of a March after a leap day, a repeated
  line, and one file without lines. Requests name dates, and epochs a second
  around changes of month in UTC and in Beijing, in any combination. Each
  directory has one file of a security and suffix, and the request comes when
  the loads are over.
- *Compaction*: a newer and an older file of a tick, one late file, and a kill
  before and after a kill.
- *Limiter*: three threads, one in the lock and two to overtake; symmetry of
  the threads is used, as no temporal property is checked there.

A type invariant is an invariant of the runs in which no other property could see
a counter go astray (`TypeOK` of `graph_engine` and `staging_sync`, `WatchOK` of
`memory_watch`, `BucketOK` of `rate_limit`). The other modules have one too, and for
every module with proofs a theorem `TypeCorrect` states it.

`CHECK_DEADLOCK` is on everywhere: final states stutter explicitly
(`Returned`, `Quiet`, `Idle`, ...), so a state in which nothing can move and
that is not one of them is reported.

### Fairness

Fairness is weak, and stated per actor. The event loop runs what is ready
(`Producer`, `Task`, `Consumer`, `Handler`, `Request`), a timeout expires, an
executor thread or a pool worker ends its call, `dispose()` returns, a writer
returns or raises. `RunsReturn` takes from `GraphEngine` that a run with a
writer ends. A loop of the memory monitor is fair too, and strongly so for
`Sample`: a process that tries for ever reads its own size at some time. Two assumptions are about the outside: a client to which a
segment is being sent reads it or goes away (nothing in the code times it out;
gRPC's keepalive settings decide), and loky reports a killed worker. Nothing
forces a client to give up waiting for a permit, a signal to come, or a file
to arrive. `StagingSync`, `FrameStreams`, `TickPartitions` and `TokenBucket` are
checked for safety only: they are started from outside, and a Python lock
promises no order among its waiters.

## 4. What is proved

TLAPS checks, for every value of the constants that satisfies the named
assumptions of the modules:

**GraphEngine_proofs**

- `TypeCorrect`: `Spec => []TypeOK`.
- `WindowBound`: `Spec => []SemaphoreNeverWaits`. Invariant `WindowInv`: at most
  `SemSize` tasks are pending, and while the producer submits fewer are, so
  that `Submit` keeps the bound. The semaphore inside `wrapped_task` is
  therefore redundant: `pending_tasks` does its work.
- `OrderlyShutdown`, `ConsumersStopLast`, `CleanReturn`. `NoEarlyStop` and
  `NothingLeftBehind` are not inductive: they say nothing of the queue. The
  strengthening counts the markers: those still to be sent, those in the queue
  and the consumers stopped add up to the consumers, the markers in the queue
  are its last elements, and once markers are sent nothing is pending. A
  consumer can then only take a marker when all items before it are gone, and
  when all consumers have stopped the queue is empty. The last two theorems
  assume that a sequential run has no None: with None they are false, and TLC
  shows how.
- `NoThirdPut`: `Spec => []PutAtMostTwice`. The invariant counts what is still
  to come: a result in the producer's hands has been put at most once if its
  task awaits its callback, and a task whose callback has run is in no snapshot
  but the present one.
- `LossNeedsBlocking`: `Spec => []AllPutUnlessBlocked`, the other half of finding
  5.1: a result can be lost only while `queue.put` makes the producer wait. The
  invariant places every result that must still be put (`PlaceInv`): as long
  as the producer never blocked it is in the producer's hands, or its task is
  done and still pending, or it is in the snapshot of pending tasks the
  producer is waiting for. Blocking breaks the second case, because
  callbacks run meanwhile. `HandsInv` says when the hands are empty.
- `RunKeepsContract`: `Spec => ImplementsContract`, that is, the engine refines
  `BoundedPipeline` under the mapping at the end of `GraphEngine`: held items are
  the pending tasks and what the producer waits for or has to put, a phase of the
  contract is a set of values of `pc`, and an item is in the output as often as
  it is in the queue or in a consumer's hands. One lemma per step of the
  contract says which changes of these three amount to it (`Emits`, `Delivers`,
  ...), and one per group of the engine's actions picks the lemma. The
  mapping needs the invariants above: the window for `Admit`, the markers for
  `Close` and `Finish`; and of `HandsInv` that the producer is blocked only with
  something to put, and that a consumer never writes a marker. Assumes, as the
  two theorems of the shutdown do, that a sequential run has no None
  (`NoFalsePill`).

**GraphSession_proofs**

- `TypeCorrect`, `RunsOwnNodes` (`[]OnlyItsOwnNodes`), `PoolOfTheRun`
  (`[]PoolFitsRun`). The properties compare parameters one by one with the graph
  file, its class and `Node`; the invariant says how they came about.
  `NodesInv`: in a run, the singleton holds what `build_from_cfg` makes of the
  graph file, and the pool of a parallel run was made with the serialized form
  of these nodes. `ChainInv`: a worker process holds no chain or the one that
  `init_worker` builds from the arguments of its pool. The lemmas under them are
  that a node survives the round trip (`CfgFacts`: serialized and rebuilt it is the
  same node), that the registry and the parameters give what the layers say
  (`KnownFacts`), and that the sequence of nodes is the graph's without its writers.
  loky compares arguments, not graphs: since equal arguments rebuild equal
  chains, its rule for `reuse="auto"` is enough, whatever runs, failures and deaths
  of processes came before. Assumed: no graph file sets `is_writer`
  (`ConfigsAssumption`); `Node` is no writer and a class that mentions `is_writer`
  sets it (`WritersAssumption`). The shipped graphs and classes are so.
- Of `MemoryWatch`: `WatchTypeCorrect`, `OneLoopWatches` (`[]OneLoop`), `NoAlertTwice`
  (`[]AlertedOnce`). The list of snapshots may exceed its bound, by one for each
  loop that has appended and not yet trimmed (`SnapInv`). `OneInv`: as
  long as no stop gave up, the live loop is the last one started, and there is
  none when the owner is idle and the flag down. `AlertInv` follows an alert
  between the test and the note of it, where a callback may raise.

**DuckStreams_proofs**

- `TypeCorrect`, `NoConnectionLost` (`[]ConnectionsConserved`), `NoPermitLost`
  (`[]PermitsConserved`), `TheWaitIsHopeless` (`[]WaitIsHopeless`). The four are
  inductive together with `FrozenInv` (the loop stands still in a request that
  is waiting for a connection). Permits are counted, so each step is one of three
  lemmas: a request enters the admitted, leaves them, or neither. That waiting
  is hopeless rests on `LoopFree`: nobody can return a connection while
  the loop stands, and threads do not return any.
- Of `TokenBucket`: `BucketTypeCorrect`, `NeverTooMuch` (`[]RateBound`),
  `NeverTooLittle` (`[]DenialsJustified`). `RateBound` compares grants with elapsed time and says
  nothing of the tokens left, so it is not inductive. `BucketInv` adds that
  what is granted in an interval that ends at the last refill, *plus what the
  bucket still holds*, is within the allowance of every such interval
  (`Covered`) and equals the allowance of one of them (`Exact`); that the lock
  excludes (`Exclusive`), that readings do not go back (`Ordered`), and that no
  later reading was granted anything (`Recorded`). A refill moves the end of
  the intervals and earns exactly the difference, unless it reaches the top,
  where the interval of length zero becomes the exact one. A grant moves
  `Cost` from the bucket to every interval. A denial reads its witness off
  `Exact`. Together: the class *is* a limit on every interval, neither looser
  nor tighter, if the clock is monotonic and the lock a lock.

**PgGateway_proofs**

- `TypeCorrect`, `FlagAndEngine` (`[]FlagMeansEngine`), `FirstEngineStays`
  (`OneEngine`), `NoSessionLeft` (`[]SessionsClosed`). `OneEngine` is about a step:
  it holds because whoever builds holds the lock and, before the first cleanup,
  found nothing installed (`LockInv`), and because an installed engine sets
  the flag, which the second look under the lock reads (`InstalledInv`).
  `SessionInv` says where a request can have a session. `NoSessionLeft` is
  not about every end of a request: cancelled streams are excepted (section 6).

**FrameStreams_proofs**

- `TypeCorrect`, `RowsArriveInOrder` (`[]RowsInOrder`), `FramesHoldOneSid`
  (`[]FramesBySid`), for any number of requests, any result, and buffers and batches
  of any size. `SentInv`: what was sent is a prefix of the result. `BufferInv`: the
  buffer of an SQLAlchemy provider holds exactly the rows read and not sent,
  all of the last sid when it groups. `BatchInv`: the slices of a DuckDB batch are
  adjacent, start where the stream is, end where the batch ends, and change sid at
  each border. `FrameInv` and `CutInv` keep for every frame why it ended, and for
  the last one what comes next, which is what makes the next frame's label
  differ. The cuts of a batch are the ascending sequence of the places where the
  sid changes; that rows between two cuts have one sid (`NoCutNoChange`) is by the
  least counterexample, and so needs no induction over the batch.

**StagingSync_proofs**

- `TypeCorrect`, `NoTickLost` (`[]NothingLost`), `NoOlderVersion` (`NewerWins`),
  `AllFolded` (`[]FoldedIsNewest`), each with the exceptions of section 6: files
  that were `late`, and what follows a kill that left a compaction `torn`. A kill may come between any two calls, so the
  invariant says what each call leaves true on disk: a file stays in staging
  until its ticks are in the target (`KeptInv`), what staging has of a tick is at
  least as new as the target (`NewInv`, unless torn), and what has gone from it
  is folded or overtaken (`FoldInv`). `HeldInv` ties what the script holds in
  memory to the files it read, and says that what came later is newer: so a kill
  before the first unlink, or after the last, does no harm (`AfterUnlinks`).
  `SourceInv` traces every version to a file,
  and `TempInv` charges each temporary file to a kill.

**TickPartitions_proofs**

- `RequestsOnlyRead`: `Spec => StoreSpec`, so that what holds of the store alone
  holds beside requests. `FullLoadIsAlone` (`[]FullLoadReplaces`) and
  `IncrementalKeeps` (`IncrementalAppends`), for any graphs, directories,
  writers, failures and kills. Both are about names: every file is called
  `part-0` or has the number of its load (`FilesInv`), so an incremental load
  overwrites only what is its own, and where a full load has opened a file the
  directory was emptied before (`LoadInv`). Nothing is written between loads
  (`JobInv`).
- `TypeCorrect`, `EveryRowIsRead` (`[]NothingMissed`), `EveryMonthIsWanted`
  (`[]NothingInVain`): whatever graphs and files were loaded, with whatever failures, and
  whatever dates and epochs the request names, a row of a stock or a fund that the
  filter selects is in a directory that the query reads, unless two threads raced in
  `_make_partition` on its frame, and no month is read that the
  filter excludes. Three computations must agree: `MonthOf`, which names the
  directory of a row; `schema_range`, which plans months; and `_parse_date`,
  which bounds the filter. `HiveInv`: every stored row is in the directory of the month
  of its wall clock (`RowInv`), under the kind the reader looks up for its sid; so
  is a row that was converted twice, eight hours early as it is, since its
  directory is computed from the clock after the first conversion
  (`RowOfTable`). `FramesInv`: a frame is in the hands of one writer, and through
  `_make_partition` once, unless it is put twice. `PlanInv`: the
  `k`-th directory planned is the `k`-th month from that of the start, and the loop
  has not passed the month of the end. What joins the two is arithmetic of the
  Gregorian calendar, proved for all years from 1992 to 9999: months and years follow
  each other without gap or overlap (`MonthEnds`, `YearEnds`, `MonthsInOrder`),
  `GmTime` finds the month an instant is in (`GmTimeFacts`, `MonthOfClock`), and
  both bounds of a stamp, in the filter and in the plan, are in the same month
  (`BoundsInMonth`). Assumed: dates exist and instants lie in the years of the
  calendar (`StampsAssumption`, `ClocksAssumption`; a request for a 31 February
  fails in the database), and these are from 1992 on (`YearsAssumption`, see
  section 6).
- `TicksKeepTheirLag` (`[]TickLag`), for any order of a graph's nodes and with any of
  them missing. What a chain computes is a fold, whose function the library
  chooses: it exists, for the shortest chain without it would be one longer
  than a chain that has it (`FoldExists`), and so there is a value before the first
  node and after each (`ChainSteps`). Every node keeps the relation of tick and
  datetime (`NodeKeepsLag`), hence so does every frame (`FramesLag`), and a row is
  stored with it, or if its frame was put twice with one conversion more
  (`StoredLag` in `HiveInv`). Assumed: a graph has nodes for the format
  of its files (`NodesAssumption`).
- `EveryLineIsStored` (`[]ReadBack`), of loads that are `ReadableInput`: the chains of
  the shipped graphs, lines with a date, a minute and a price, no two files of a
  load for one security. It has two halves. Of one file: the four nodes of a
  chain make one row of each line (`FrameOfFile`), the clock made of a line's date and
  minute is read back as that date and minute (`GmTimeOfWall`, for every minute
  of the years of the calendar), two packed integers are unpacked as they were packed
  (`DatesOf`), and a price in cents is multiplied and truncated without loss
  (`WholeCents`); so the row of a line tells of that line (`LineOfRow`). Of the
  load: `ReadInv`, as long as nothing failed in it, follows every file whose
  frame is put once from the glob to a writer and to disk. Its writer has the whole
  frame, then the table, and of that file there is on disk exactly what the
  writer has opened (`Writing`); a closed file
  has the rows of its directory (`Written`); and when the load is over every
  directory has one (`Stored`). No writer of another file takes its directory: a
  directory is a security's, and of a security the load has one file (`LastInv`).
  Of a frame put twice the theorem says nothing, but such frames disturb no other.
  `ReadInv` and `LastInv` were checked on the states of `tick_partitions` first.
  `MCTickPartitions` assumes `ReadableInput` of its instance, where TLC evaluates it.

`Orders_proofs` has the lemmas several of these share: a set of numbers that is not empty
has a least element and, if it is bounded, a greatest; `Ascending` of a finite
set is an increasing sequence of its elements.

The constants are free but for the assumptions named in the modules: sizes
are natural numbers, positive where the code divides by them or would wait for
ever; sets that are counted are finite; the names for "nothing" are not members; and
the assumptions on data quoted above. No assumption says anything of an order of
events.

Left to TLC is what needs fairness, which TLAPS does not reason about: `Termination`,
`RequestsEnd`, `ConnectionsComeBack`, `RunsReturn`, `CriticalHeard`, `StopEnds`. Every
invariant and every other property of a run that passes is a theorem.

## 5. Disagreements with the code

Runs that TLC ends with a counterexample are in `PROJECT.json` as findings.

1. `to_graph.py:155`: results lost (`EveryResultPut`). Four items, window 2: while
   the producer waits for room, a task settles, its callback discards it from
   `pending_tasks`, and no later snapshot contains it. The comment on line 150
   says "core key --- one in one out".
2. `operator.py:159` of the DuckDB gateway: the connection of a cancelled
   request is returned while its thread works on it (`ReaderKeepsItsStatement`).
3. `operator.py:78`: 399006 matches the rule of the stocks first (`BenchmarksFound`).

Further departures are stated in the modules, with the sentence of the
repository they are about, and TLC refutes them when they are added to the
configuration of their module. They are kept out of the runs:

| Property | Module | What happens |
|---|---|---|
| `NoResultPutTwice` | `GraphEngine` | a task done but not yet discarded is in two snapshots; its result is put twice (and never three times: `PutAtMostTwice`) |
| `<>(pc \in Final)` without a writer | `GraphEngine` | the code warns and goes on (`to_graph.py:97`); the consumers are dead, the queue fills, the run hangs until a signal |
| `NoEarlyStop`, sequential with None | `GraphEngine` | a dropped item's None stops a consumer |
| `EveryRunWatched` | `GraphSession` | `_gc_event` stays set, later runs are not monitored |
| `PermitFindsConnection` | `DuckStreams` | an abandoned query frees its permit before its connection; the next request freezes the loop |
| `ShutdownClosesAll` | `DuckStreams` | connections of streams in flight come back after `close_all` |
| `CancelClosesSession` | `PgGateway` | `except Exception` lets `CancelledError` pass with the session open |
| `CleanupIsFinal` | `PgGateway` | a request after `cleanup()` installs a new engine |
| `ConvertedOnce` | `TickPartitions` | the comment at `writer.py:244` has Beijing time become UTC, once; a frame that the engine puts twice is changed in place twice, in a load without failures, and stored eight hours early: `TickLag` pins it to one conversion more, `ReadBack` shows that no other frame suffers |
| no lag of text rows | `TickPartitions` | `UniverseDateParser` (`format.py:71`) takes the wall clock in Shanghai for UTC: `TickLag` pins the eight hours |
| one loop, always | `MemoryWatch` | a stop gives up after 5 s, the loop sleeps 10 s and is revived by the next start: two loops, which repeat each other's alerts |

## 6. Exclusions the properties state

A property that holds with an exception names it. `AllPutUnlessBlocked` holds
as long as no `put` of a result suspended (otherwise see 5.1). `Termination`
and `RunsReturn` leave out graphs without a writer: the first names the one
way such a run hangs. `OneLoop` and `AlertedOnce` leave out what follows a
stop that gave up waiting (`timedOut`). `SessionsClosed` leaves out streams
that were cancelled (`CancelClosesSession`), and the model every cancellation
of a commit, rollback or close. `NothingLost` leaves out files that came
between the read and the glob of one compaction (`late`), and `NewerWins` and
`FoldedIsNewest` what follows a kill after some, not all, of the unlinks of a
compaction (`torn`); `FoldedIsNewest` leaves out `late` files too. These two
are real losses of `sync.py`, and the properties show that there are no
others. `ReadBack` is about loads in which nothing failed, and supposes one
file of a security per load (`ReadableInput`): with two that share a month the
later writer deletes what the earlier one wrote, or overwrites it, having the
same name. It is about the files of such a load whose frame the engine put
once: a frame put twice (`twice`) may be stored eight hours early, twice in
two months, or not at all, and `TickLag` allows its ticks one conversion more.
`NothingMissed` leaves out frames that two threads raced on (`raced`), whose
partition columns may be of two months. That TLC refutes each of the three
without its exception was checked. `FullLoadReplaces` and `IncrementalAppends`
have no exception. `NothingMissed` is about stocks and funds; the benchmarks
are finding 5.3.

The years are 1992 to 9999 (`YearsAssumption` of `Calendar`). The loader and
the writer ask pandas for the zone `Asia/Shanghai` (`format.py:45`,
`writer.py:245`), the reader adds a constant eight hours (`utils.pyx:42`,
`utils.pyx:81`). They differ in the summers from 1986 to 1991, when Shanghai
was nine hours ahead: a row of those months is stored an hour earlier than the
reader's bounds suppose, and pandas raises at the hours of the switch. Nothing
here is said of those years.

## 7. Plan

Done: the modules above, in this order: engine, session, streams, gateway,
frames, compaction, limiter, the composition of node chain, store and
partitions, the worker pool and its failures, the construction of nodes, the
memory monitor; proofs of the safety of every one of them.

Next, by weight:

1. `PgWriter`: the engine of the gateway belongs to the event loop of the first
   run, `Graph.run` makes a loop per call, and `PgWriter` swallows every
   exception of an insert.
2. A request that is planned while a load runs, and sees its directories empty.
3. A composition of `GraphSession` and `GraphEngine`.

## 8. Not modelled

- The reports of `MemoryMonitor` (trend, summary, diagnosis), which change nothing.
  Nothing in the service starts the monitor: `MemoryWatch` is about the class.
- The nodes no shipped graph of parquet files uses: `AvroUnpacker`, `AvroWriter`, `ProcessNa`,
  `ProcessInf`, `CsvWriter`, `WriterStringIO`; and `PgWriter`, whose gateway is
  `PgGateway`. Prices are exact in the model, so that floating point
  (0.29 times 100000 is truncated to 28999, `format.py:100`) is not seen.
- `auth.py` (one comparison, installed nowhere). The interceptor around the
  token bucket only turns a refusal into a status; `run_server.py:93` passes no
  interceptors.
- The parsing of GraphML by networkx, and `visualize.py`, which draws it.
- `utils/` but for the registry, `build_from_cfg` and `recursive_glob`: general
  helpers the service does not call. `dateintern.pyx` is imported and not called.
- The other scripts: sequential, by hand, pure I/O.
- What SQL and Arrow compute, the text of paths and messages, and the cost of
  calls (for instance that `start_date` = 0 is parsed as month 0 of the year 0,
  `utils.pyx:28-31`, and tests one directory per month from there on, on the event
  loop).

## 9. Running

    tlc -workers 2 -config GraphEngine.cfg MCGraphEngine
    tlapm GraphEngine_proofs.tla

and likewise for the other `MC` and `_proofs` modules. The largest runs
are `tick_partitions` (1 512 071 states), `graph_engine` (762 048) and `duck_streams`
(246 398); they take one to two minutes with two workers. The proofs of a
module take from half a minute to a few minutes.

---------------------------- MODULE GraphSession ----------------------------
(***************************************************************************)
(* The Graph singleton across calls of to_execute: what _build_graph       *)
(* leaves in it, the pool of worker processes that loky keeps from run to  *)
(* run and the chains of nodes these processes hold, the event _gc_event   *)
(* that is created once, the coroutine monitor_background of each run, and *)
(* the garbage-collection threads of GraphMemoryManager.  The run itself   *)
(* is one phase here; GraphEngine is its detail.                           *)
(***************************************************************************)
EXTENDS Integers, GraphNodes, SequencesExt

CONSTANTS
  Configs,    \* graph files: [dag |-> BOOLEAN, order |-> <<cfg, ...>>], a cfg
              \* is <<id of the node, its params>>
  Workers,    \* the worker processes of a pool
  MaxRuns,    \* bound: calls of to_execute
  MaxThreads, \* bound: collections started in one run
  None        \* no writer node, no pool, no chain

ASSUME RunsAssumption == MaxRuns \in Nat /\ MaxThreads \in Nat
(* No graph file makes a node a writer: its class does.                    *)
Cfgs == UNION {ToSet(g.order) : g \in Configs}
ASSUME ConfigsAssumption ==
  /\ \A g \in Configs : g.order \in Seq(Cfgs) /\ g.dag \in BOOLEAN
  /\ \A cfg \in Cfgs : cfg = <<cfg[1], cfg[2]>> /\ "is_writer" \notin DOMAIN cfg[2]

VARIABLES
  phase,     \* "idle", "running", "stopping": inside finally, awaiting monitor
  runs,      \* calls of to_execute so far
  config,    \* the graph file of the current call
  parallel,  \* its argument
  graph,     \* self.graph
  wnode,     \* self.w_node
  pool,      \* loky's reusable executor: its initargs, and is it broken?
  chain,     \* _WORKER_PIPELINE of each worker process, None before its start
  died,      \* history: a worker process died since the run began
  gcEvent,   \* self._gc_event.is_set()
  mon,       \* monitor_background of this run
  gcThreads  \* memory_mgr.gc_threads: for each, is it alive?

nodeVars == <<config, parallel, graph, wnode>>
poolVars == <<pool, chain, died>>
gcVars == <<gcEvent, mon, gcThreads>>
vars == <<phase, runs, nodeVars, poolVars, gcVars>>

MonState == {"none", "start", "checking", "sleeping", "ended", "cancelled"}
Nodes == {BuildCfg(cfg) : cfg \in {c \in Cfgs : Known(c)}}

TypeOK ==
  /\ phase \in {"idle", "running", "stopping"}
  /\ runs \in 0 .. MaxRuns
  /\ config \in Configs /\ parallel \in BOOLEAN
  /\ graph \in Seq(Nodes)
  /\ wnode \in Nodes \cup {None}
  /\ pool \in [args : Seq(Cfgs) \cup {None}, broken : BOOLEAN]
  /\ died \in BOOLEAN
  /\ chain \in [Workers -> Seq(Nodes) \cup {None}]
  /\ gcEvent \in BOOLEAN
  /\ mon \in MonState
  /\ gcThreads \in Seq(BOOLEAN) /\ Len(gcThreads) <= MaxThreads

NoChains == [w \in Workers |-> None]
NewPool(args) == [args |-> args, broken |-> FALSE]

Init ==
  /\ phase = "idle"
  /\ runs = 0
  /\ config \in Configs /\ parallel = TRUE
  /\ graph = <<>>
  /\ wnode = None
  /\ pool = NewPool(None)
  /\ chain = NoChains
  /\ died = FALSE
  /\ gcEvent = FALSE
  /\ mon = "none"
  /\ gcThreads = <<>>

-----------------------------------------------------------------------------
(* What reset() leaves of the previous graph; and a _build_graph that does *)
(* not call it.                                                            *)
KeepNodes == [graph |-> graph, wnode |-> wnode]
ResetNodes == [graph |-> <<>>, wnode |-> None]

IsWriter(node) == node.p["is_writer"] = "true"
Plain(node) == ~IsWriter(node)

(* The nodes in topological order: the others are appended, the last       *)
(* writer wins.                                                            *)
NodesOf(order) ==
  LET built   == [i \in DOMAIN order |-> BuildCfg(order[i])]
      written == Select(built, IsWriter)
  IN  [graph |-> ResetNodes.graph \o Select(built, Plain),
       wnode |-> IF written = <<>> THEN ResetNodes.wnode ELSE Last(written)]

(* _build_graph raises before the first node when the graph has a cycle,   *)
(* and at the first node that cannot be built: what came before it stays.  *)
Unknown(cfg) == ~Known(cfg)
Built(g) ==
  LET bad == SelectInSeq(g.order, Unknown)
  IN  IF ~g.dag THEN <<>>
      ELSE IF bad = 0 THEN g.order ELSE SubSeq(g.order, 1, bad - 1)
BuildRaises(g) == Built(g) # g.order

(* get_reusable_executor: the pool of an earlier run serves this one when  *)
(* its initargs are the same and it has lost no process.  And the same     *)
(* call with reuse=True.                                                   *)
ReuseAny(args) == pool.args # None
Reusable(args) == pool.args = args /\ ~pool.broken

Serialized(nodes) == [i \in DOMAIN nodes |-> Serializable(nodes[i])]
TakePool(args) ==
  IF Reusable(args) THEN UNCHANGED <<pool, chain>>
  ELSE pool' = NewPool(args) /\ chain' = NoChains

(* to_execute: _build_graph, then run, which starts the consumers and the  *)
(* monitor and, in a parallel run, gets the pool.                          *)
Execute(g, p) ==
  /\ phase = "idle" /\ runs < MaxRuns
  /\ runs' = runs + 1
  /\ config' = g /\ parallel' = p
  /\ graph' = NodesOf(Built(g)).graph
  /\ wnode' = NodesOf(Built(g)).wnode
  /\ died' = FALSE
  /\ IF BuildRaises(g)
     THEN UNCHANGED <<phase, mon, pool, chain>>
     ELSE /\ phase' = "running"
          /\ mon' = "start"
          /\ IF p THEN TakePool(Serialized(NodesOf(Built(g)).graph))
                  ELSE UNCHANGED <<pool, chain>>
  /\ UNCHANGED <<gcEvent, gcThreads>>

(* A worker process, spawned by a submission, runs the initializer.        *)
StartWorker(w) ==
  /\ pool.args # None /\ ~pool.broken /\ chain[w] = None
  /\ chain' = [chain EXCEPT ![w] = InitWorker(pool.args)]
  /\ UNCHANGED <<phase, runs, pool, died>>
  /\ UNCHANGED nodeVars /\ UNCHANGED gcVars

(* A worker process dies, in a run or between two: loky ends the others    *)
(* and marks the pool.                                                     *)
WorkerDies ==
  /\ \E w \in Workers : chain[w] # None
  /\ pool' = [pool EXCEPT !.broken = TRUE]
  /\ chain' = NoChains
  /\ died' = TRUE
  /\ UNCHANGED <<phase, runs>> /\ UNCHANGED nodeVars /\ UNCHANGED gcVars

(* The producer and the consumers are through, or one of them raised: the  *)
(* finally block sets the event and awaits the monitor.                    *)
StopMonitor ==
  /\ phase = "running"
  /\ phase' = "stopping"
  /\ gcEvent' = TRUE
  /\ UNCHANGED <<runs, mon, gcThreads>>
  /\ UNCHANGED nodeVars /\ UNCHANGED poolVars

MonitorOver == mon \in {"ended", "cancelled"}

Return ==
  /\ phase = "stopping" /\ MonitorOver
  /\ phase' = "idle"
  /\ UNCHANGED runs
  /\ UNCHANGED nodeVars /\ UNCHANGED poolVars /\ UNCHANGED gcVars

(* SIGINT, SIGTERM: all tasks of the loop, the monitor's too, are          *)
(* cancelled; the finally block still sets the event.                      *)
CancelAll ==
  /\ phase \in {"running", "stopping"}
  /\ phase' = "idle"
  /\ gcEvent' = TRUE
  /\ mon' = IF MonitorOver THEN mon ELSE "cancelled"
  /\ UNCHANGED <<runs, gcThreads>> /\ UNCHANGED nodeVars /\ UNCHANGED poolVars

-----------------------------------------------------------------------------
(* monitor_background: the event is looked at between two checks.  And a    *)
(* loop without the test.                                                  *)
NoEvent == FALSE
EventSet == gcEvent

MonitorLooks ==
  /\ mon \in {"start", "sleeping"}
  /\ IF EventSet
     THEN mon' = "ended" /\ gcThreads' = <<>>   \* cleanup_gc joins and clears
     ELSE mon' = "checking" /\ UNCHANGED gcThreads
  /\ UNCHANGED <<phase, runs, gcEvent>>
  /\ UNCHANGED nodeVars /\ UNCHANGED poolVars

(* check_memory_usage, in the executor: above the threshold it starts one  *)
(* more collecting thread; then sleep.                                     *)
MonitorChecks ==
  /\ mon = "checking"
  /\ \/ UNCHANGED gcThreads
     \/ Len(gcThreads) < MaxThreads /\ gcThreads' = Append(gcThreads, TRUE)
  /\ mon' = "sleeping"
  /\ UNCHANGED <<phase, runs, gcEvent>>
  /\ UNCHANGED nodeVars /\ UNCHANGED poolVars

Collected ==
  /\ \E k \in DOMAIN gcThreads :
       gcThreads[k] /\ gcThreads' = [gcThreads EXCEPT ![k] = FALSE]
  /\ UNCHANGED <<phase, runs, gcEvent, mon>>
  /\ UNCHANGED nodeVars /\ UNCHANGED poolVars

AllDone == phase = "idle" /\ runs = MaxRuns /\ UNCHANGED vars

Next ==
  \/ \E g \in Configs, p \in BOOLEAN : Execute(g, p)
  \/ \E w \in Workers : StartWorker(w)
  \/ WorkerDies
  \/ StopMonitor \/ Return \/ CancelAll
  \/ MonitorLooks \/ MonitorChecks \/ Collected
  \/ AllDone

Spec == Init /\ [][Next]_vars

(* A run with a writer comes to its end (GraphEngine!Termination), the     *)
(* loop runs what is ready, sleep returns.                                 *)
FairSpec ==
  /\ Spec
  /\ WF_vars(wnode # None /\ StopMonitor) /\ WF_vars(Return)
  /\ WF_vars(MonitorLooks) /\ WF_vars(MonitorChecks)

-----------------------------------------------------------------------------
(* Properties.                                                             *)

(* A run uses the nodes and the writer of its own graph file only, all of  *)
(* them and in its order: nothing of an earlier graph accumulates, not     *)
(* even the writer of an earlier graph when this one has none.  And every  *)
(* parameter of a node comes from the graph file, or else from its class,  *)
(* or else from Node.                                                      *)
LayeredParams(node) ==
  \A k \in DOMAIN node.p :
    node.p[k] = IF k \in DOMAIN node.params THEN node.params[k]
                ELSE IF k \in DOMAIN Own[node.type] THEN Own[node.type][k]
                ELSE RootOwn[k]
WritesByClass(cfg) == "is_writer" \in DOMAIN Own[cfg[1]]
ReadsByClass(cfg) == ~WritesByClass(cfg)
OnlyItsOwnNodes ==
  phase # "idle" =>
    /\ Serialized(graph) = Select(config.order, ReadsByClass)
    /\ \A i \in DOMAIN graph : LayeredParams(graph[i])
    /\ LET written == Select(config.order, WritesByClass)
       IN  IF written = <<>> THEN wnode = None
           ELSE Serializable(wnode) = Last(written) /\ LayeredParams(wnode)

(* The pool outlives the run that made it.  A parallel run never finds in  *)
(* it a process with the chain, or with the parameters, of another graph   *)
(* file, nor the damage of an earlier run.                                 *)
PoolFitsRun ==
  phase # "idle" /\ parallel =>
    /\ \A w \in Workers : chain[w] \in {None, graph}
    /\ pool.broken => died

(* to_execute returns: the monitor never keeps a finished run waiting for  *)
(* good.                                                                   *)
RunsReturn == phase # "idle" /\ wnode # None ~> phase = "idle"

(* "monitor and trigger GC" (to_graph.py:101), of every run.  The event    *)
(* that the first run sets is never cleared, and the next run's monitor    *)
(* returns at once.                                                        *)
EveryRunWatched == phase = "running" => ~MonitorOver
=============================================================================

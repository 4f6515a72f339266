---------------------------- MODULE GraphEngine ----------------------------
(***************************************************************************)
(* One run of the DAG ETL engine, rpc_feed/core/graph/to_graph.py: the     *)
(* producer coroutine (async_produce_parallel, or the sequential branch of *)
(* _run_engine), the asyncio tasks it creates around the process pool, the *)
(* bounded asyncio.Queue and the writer coroutines that drain it.          *)
(*                                                                         *)
(* Everything but the process pool and the writer threads lives on ONE     *)
(* event loop.  A coroutine runs without interruption until it suspends,   *)
(* so every action of a task, a callback or a consumer is guarded by       *)
(* Suspended: it can run only while the producer is suspended.  The ready  *)
(* queue of the loop is FIFO: a callback that was scheduled before the     *)
(* producer suspended has run before the producer resumes (variable due).  *)
(***************************************************************************)
EXTENDS Integers, Sequences, FiniteSets

CONSTANTS
  N,          \* number of items the iterable yields
  SemSize,    \* Graph.sem_size
  QSize,      \* Graph.q_size, the maxsize of the asyncio.Queue
  Consumers,  \* the writer coroutines; Graph.consumer_workers of them
  Outcomes    \* what processing an item may give, in a parallel run and in
              \* a sequential one: see Outcome below

ASSUME SizesAssumption ==
  /\ N \in Nat
  /\ SemSize \in Nat \ {0}
  /\ QSize \in Nat \ {0}
ASSUME ConsumersAssumption == IsFiniteSet(Consumers) /\ Consumers # {}

Items == 1 .. N

\* The None that tells a consumer to stop.
Pill == 0

(* "data": a value.  "none": the pipeline dropped the item (a node returned *)
(* None, or raised and was caught).  "error": the future raised: a value    *)
(* that cannot be pickled, a worker process that died.                      *)
Outcome == {"data", "none", "error"}

ASSUME OutcomesAssumption ==
  /\ Outcomes \in [BOOLEAN -> SUBSET Outcome]
  /\ \A p \in BOOLEAN : Outcomes[p] # {}

VARIABLES
  parallel,  \* the argument of to_execute
  writer,    \* the graph has a writer node: self.w_node is not None
  broken,    \* the pool has lost a worker process and refuses what comes
  pc,        \* where the producer is
  next,      \* the item the iterable yields next
  task,      \* state of the asyncio task of each item
  result,    \* outcome of each item
  waitset,   \* the snapshot given to asyncio.wait or asyncio.gather
  toput,     \* results in the producer's hands, still to be put
  blocked,   \* the producer is suspended inside queue.put
  everBlocked, \* history: it was, with a result in its hands
  due,       \* tasks whose done-callback was already scheduled when the
             \* producer last suspended
  queue,     \* self.queue
  pills,     \* stop markers still to be put
  cstate,    \* state of each consumer
  citem,     \* the item each consumer is writing
  puts       \* history: how often each item was put

producerVars == <<pc, next, waitset, toput, blocked, everBlocked, due, pills>>
taskVars     == <<task, result, broken>>
args         == <<parallel, writer>>
consumerVars == <<cstate, citem>>
vars == <<parallel, writer, broken, pc, next, task, result, waitset, toput,
          blocked, everBlocked, due, queue, pills, cstate, citem, puts>>

TaskState == {"none", "created", "running", "done", "discarded"}
Final     == {"finished", "raised", "cancelled"}
PcState   == {"loop", "wait", "handle", "gather", "flush", "pills", "join"}
               \cup Final

TypeOK ==
  /\ parallel \in BOOLEAN /\ writer \in BOOLEAN /\ broken \in BOOLEAN
  /\ pc \in PcState
  /\ next \in 1 .. N + 1
  /\ task \in [Items -> TaskState]
  /\ result \in [Items -> Outcome \cup {"unset"}]
  /\ waitset \subseteq Items
  /\ toput \subseteq Items
  /\ due \subseteq Items
  /\ blocked \in BOOLEAN
  /\ everBlocked \in BOOLEAN
  /\ queue \in Seq(Items \cup {Pill})
  /\ pills \in 0 .. Cardinality(Consumers)
  /\ cstate \in [Consumers -> {"idle", "writing", "stopped", "failed"}]
  /\ citem \in [Consumers -> Items \cup {Pill}]
  /\ puts \in [Items -> Nat]

-----------------------------------------------------------------------------
(* pending_tasks if no callback removed a task.                            *)
NeverDiscarded == {i \in Items : task[i] # "none"}

(* pending_tasks: a task leaves the set when its done-callback runs, which *)
(* is a step of the loop after the one that completes the task.            *)
Pending == {i \in Items : task[i] \in {"created", "running", "done"}}
Running == {i \in Items : task[i] = "running"}
Undiscarded == {i \in Items : task[i] = "done"}
Settled(S)  == {i \in S : task[i] \in {"done", "discarded"}}

(* len(pending_tasks) >= sem_size, and the same test off by one.           *)
AtLimitLate(n) == n > SemSize
AtLimit(n) == n >= SemSize

QueueFull(q) == Len(q) >= QSize

(* One stop marker per consumer; and one too many, one too few.            *)
PillCountHigh == Cardinality(Consumers) + 1
PillCountLow  == Cardinality(Consumers) - 1
PillCount == Cardinality(Consumers)

(* What is left to gather when the iterable is exhausted; and the same     *)
(* code without the final gather.                                          *)
GatherNothing == {}
ToGather == IF parallel THEN Pending ELSE {}

(* A parallel run drops a result that is None or an error; the sequential  *)
(* branch puts whatever the pipeline returned.  PutAnything is the parallel *)
(* branch without its None check.                               *)
PutAnything(i) == result[i] # "error"
NeedsPut(i) == result[i] = "data" \/ ~parallel
Payload(i)  == IF result[i] = "data" THEN i ELSE Pill

Suspended == blocked \/ pc \in {"wait", "gather", "join"}

(* The callbacks scheduled before the producer suspended have all run.     *)
LoopCaughtUp == \A i \in due : task[i] = "discarded"

Init ==
  /\ parallel \in BOOLEAN /\ writer \in BOOLEAN
  /\ broken = FALSE
  /\ pc = "loop"
  /\ next = 1
  /\ task = [i \in Items |-> "none"]
  /\ result = [i \in Items |-> "unset"]
  /\ waitset = {}
  /\ toput = {}
  /\ blocked = FALSE
  /\ everBlocked = FALSE
  /\ due = {}
  /\ queue = <<>>
  /\ pills = PillCount
  /\ cstate = [c \in Consumers |-> "idle"]
  /\ citem = [c \in Consumers |-> Pill]
  /\ puts = [i \in Items |-> 0]

-----------------------------------------------------------------------------
(* The producer of a parallel run.                                         *)

(* create_task, add to pending_tasks; at the limit, asyncio.wait on all of *)
(* pending_tasks as it is now.                                             *)
Submit ==
  /\ parallel /\ pc = "loop" /\ next <= N
  /\ task' = [task EXCEPT ![next] = "created"]
  /\ next' = next + 1
  /\ LET now == Pending \cup {next} IN
       IF AtLimit(Cardinality(now))
       THEN pc' = "wait" /\ waitset' = now /\ due' = Undiscarded
       ELSE UNCHANGED <<pc, waitset, due>>
  /\ UNCHANGED <<result, broken, toput, blocked, everBlocked, queue, pills,
                 puts>>
  /\ UNCHANGED consumerVars /\ UNCHANGED args

(* FIRST_COMPLETED: some task of the snapshot completed and its callbacks  *)
(* ran; "done" is every task of the snapshot that has completed by now,    *)
(* with its discard callback run or not.                                   *)
WaitReturns ==
  /\ pc = "wait"
  /\ LoopCaughtUp
  /\ \E i \in waitset : task[i] = "discarded"
  /\ toput' = Settled(waitset)
  /\ pc' = "handle"
  /\ UNCHANGED <<next, waitset, blocked, everBlocked, due, queue, pills, puts>>
  /\ UNCHANGED taskVars /\ UNCHANGED consumerVars /\ UNCHANGED args

(* The iterable is exhausted: gather what is still pending, if anything.   *)
EndOfItems ==
  /\ pc = "loop" /\ next = N + 1
  /\ IF ToGather # {}
     THEN pc' = "gather" /\ waitset' = ToGather /\ due' = Undiscarded
     ELSE pc' = "pills" /\ UNCHANGED <<waitset, due>>
  /\ UNCHANGED <<next, toput, blocked, everBlocked, queue, pills, puts>>
  /\ UNCHANGED taskVars /\ UNCHANGED consumerVars /\ UNCHANGED args

GatherReturns ==
  /\ pc = "gather"
  /\ LoopCaughtUp
  /\ \A i \in waitset : task[i] = "discarded"
  /\ toput' = waitset
  /\ pc' = "flush"
  /\ UNCHANGED <<next, waitset, blocked, everBlocked, due, queue, pills, puts>>
  /\ UNCHANGED taskVars /\ UNCHANGED consumerVars /\ UNCHANGED args

(* The sequential branch: run_sync_pipeline_local on the loop's own thread,*)
(* an exception of a node propagates out of _run_engine.                   *)
RunLocal ==
  /\ ~parallel /\ pc = "loop" /\ next <= N
  /\ \E r \in Outcomes[parallel] :
       /\ result' = [result EXCEPT ![next] = r]
       /\ pc' = IF r = "error" THEN "raised" ELSE "handle"
       /\ toput' = IF r = "error" THEN {} ELSE {next}
  /\ next' = next + 1
  /\ UNCHANGED <<task, broken, waitset, blocked, everBlocked, due, queue,
                 pills, puts>>
  /\ UNCHANGED consumerVars /\ UNCHANGED args

-----------------------------------------------------------------------------
(* Handing results to the queue, in both modes.                            *)

SkipResult(i) ==
  /\ pc \in {"handle", "flush"} /\ ~blocked
  /\ i \in toput /\ ~NeedsPut(i)
  /\ toput' = toput \ {i}
  /\ UNCHANGED <<pc, next, waitset, blocked, everBlocked, due, queue, pills,
                 puts>>
  /\ UNCHANGED taskVars /\ UNCHANGED consumerVars /\ UNCHANGED args

(* queue.put suspends only when the queue is full.                         *)
BlockOnPut ==
  /\ ~blocked /\ QueueFull(queue)
  /\ \/ pc \in {"handle", "flush"} /\ \E i \in toput : NeedsPut(i)
     \/ pc = "pills" /\ pills > 0
  /\ blocked' = TRUE
  /\ everBlocked' = (everBlocked \/ pc # "pills")
  /\ due' = Undiscarded
  /\ UNCHANGED <<pc, next, waitset, toput, queue, pills, puts>>
  /\ UNCHANGED taskVars /\ UNCHANGED consumerVars /\ UNCHANGED args

(* A put, at once or after a consumer made room.                           *)
MayPut == ~QueueFull(queue) /\ (blocked => LoopCaughtUp)

PutResult(i) ==
  /\ pc \in {"handle", "flush"} /\ MayPut
  /\ i \in toput /\ NeedsPut(i)
  /\ queue' = Append(queue, Payload(i))
  /\ puts' = [puts EXCEPT ![i] = @ + 1]
  /\ toput' = toput \ {i}
  /\ blocked' = FALSE
  /\ UNCHANGED <<pc, next, waitset, everBlocked, due, pills>>
  /\ UNCHANGED taskVars /\ UNCHANGED consumerVars /\ UNCHANGED args

AllHandled ==
  /\ pc \in {"handle", "flush"} /\ toput = {}
  /\ pc' = IF pc = "handle" THEN "loop" ELSE "pills"
  /\ UNCHANGED <<next, waitset, toput, blocked, everBlocked, due, queue, pills,
                 puts>>
  /\ UNCHANGED taskVars /\ UNCHANGED consumerVars /\ UNCHANGED args

PutPill ==
  /\ pc = "pills" /\ pills > 0 /\ MayPut
  /\ queue' = Append(queue, Pill)
  /\ pills' = pills - 1
  /\ blocked' = FALSE
  /\ UNCHANGED <<pc, next, waitset, toput, everBlocked, due, puts>>
  /\ UNCHANGED taskVars /\ UNCHANGED consumerVars /\ UNCHANGED args

(* Gather the consumers, then the finally block; gather raises what a       *)
(* consumer raised.                                                        *)
BeginJoin ==
  /\ pc = "pills" /\ pills = 0
  /\ pc' = "join"
  /\ UNCHANGED <<next, waitset, toput, blocked, everBlocked, due, queue, pills,
                 puts>>
  /\ UNCHANGED taskVars /\ UNCHANGED consumerVars /\ UNCHANGED args

Finish ==
  /\ pc = "join" /\ \A c \in Consumers : cstate[c] = "stopped"
  /\ pc' = "finished"
  /\ UNCHANGED <<next, waitset, toput, blocked, everBlocked, due, queue, pills,
                 puts>>
  /\ UNCHANGED taskVars /\ UNCHANGED consumerVars /\ UNCHANGED args

JoinRaises ==
  /\ pc = "join" /\ \E c \in Consumers : cstate[c] = "failed"
  /\ pc' = "raised"
  /\ UNCHANGED <<next, waitset, toput, blocked, everBlocked, due, queue, pills,
                 puts>>
  /\ UNCHANGED taskVars /\ UNCHANGED consumerVars /\ UNCHANGED args

-----------------------------------------------------------------------------
(* wrapped_task: async with sem, then the process pool, whose submit raises *)
(* once a worker process has died.                                         *)
StartTask(i) ==
  /\ Suspended /\ ~broken
  /\ task[i] = "created" /\ Cardinality(Running) < SemSize
  /\ task' = [task EXCEPT ![i] = "running"]
  /\ UNCHANGED <<result, broken, queue, puts>>
  /\ UNCHANGED producerVars /\ UNCHANGED consumerVars /\ UNCHANGED args

SubmitRefused(i) ==
  /\ Suspended /\ broken
  /\ task[i] = "created" /\ Cardinality(Running) < SemSize
  /\ task' = [task EXCEPT ![i] = "done"]
  /\ result' = [result EXCEPT ![i] = "error"]
  /\ UNCHANGED <<broken, queue, puts>>
  /\ UNCHANGED producerVars /\ UNCHANGED consumerVars /\ UNCHANGED args

(* The chain returned, or its worker process is reported as terminated.    *)
FinishTask(i) ==
  /\ Suspended /\ task[i] = "running"
  /\ task' = [task EXCEPT ![i] = "done"]
  /\ \E r \in Outcomes[TRUE] \cup (IF broken THEN {"error"} ELSE {}) :
       result' = [result EXCEPT ![i] = r]
  /\ UNCHANGED <<broken, queue, puts>>
  /\ UNCHANGED producerVars /\ UNCHANGED consumerVars /\ UNCHANGED args

(* A worker process dies, of its item or of the system's want of memory.   *)
WorkerDies ==
  /\ Suspended /\ ~broken
  /\ \E i \in Items : task[i] \notin {"none", "created"}
  /\ broken' = TRUE
  /\ UNCHANGED <<task, result, queue, puts>>
  /\ UNCHANGED producerVars /\ UNCHANGED consumerVars /\ UNCHANGED args

(* add_done_callback(pending_tasks.discard)                                *)
Discard(i) ==
  /\ Suspended /\ task[i] = "done"
  /\ task' = [task EXCEPT ![i] = "discarded"]
  /\ UNCHANGED <<result, broken, queue, puts>>
  /\ UNCHANGED producerVars /\ UNCHANGED consumerVars /\ UNCHANGED args

-----------------------------------------------------------------------------
(* async_consume_worker: without a writer node its first line raises.      *)

ConsumerFails(c) ==
  /\ Suspended /\ ~writer /\ cstate[c] = "idle"
  /\ cstate' = [cstate EXCEPT ![c] = "failed"]
  /\ UNCHANGED <<citem, queue, puts>>
  /\ UNCHANGED producerVars /\ UNCHANGED taskVars /\ UNCHANGED args

GetItem(c) ==
  /\ Suspended /\ writer /\ cstate[c] = "idle"
  /\ queue # <<>> /\ Head(queue) # Pill
  /\ cstate' = [cstate EXCEPT ![c] = "writing"]
  /\ citem' = [citem EXCEPT ![c] = Head(queue)]
  /\ queue' = Tail(queue)
  /\ UNCHANGED puts
  /\ UNCHANGED producerVars /\ UNCHANGED taskVars /\ UNCHANGED args

GetPill(c) ==
  /\ Suspended /\ writer /\ cstate[c] = "idle"
  /\ queue # <<>> /\ Head(queue) = Pill
  /\ cstate' = [cstate EXCEPT ![c] = "stopped"]
  /\ queue' = Tail(queue)
  /\ UNCHANGED <<citem, puts>>
  /\ UNCHANGED producerVars /\ UNCHANGED taskVars /\ UNCHANGED args

(* The writer returned or raised an Exception: both are caught, task_done  *)
(* is called, and the consumer goes on.                                    *)
WriteDone(c) ==
  /\ Suspended /\ cstate[c] = "writing"
  /\ cstate' = [cstate EXCEPT ![c] = "idle"]
  /\ citem' = [citem EXCEPT ![c] = Pill]
  /\ UNCHANGED <<queue, puts>>
  /\ UNCHANGED producerVars /\ UNCHANGED taskVars /\ UNCHANGED args

(* SIGINT or SIGTERM: every task of the loop is cancelled; CancelledError  *)
(* is no Exception, so no handler of the engine stops it.                  *)
Cancel ==
  /\ Suspended
  /\ pc' = "cancelled"
  /\ blocked' = FALSE
  /\ cstate' = [c \in Consumers |-> "stopped"]
  /\ UNCHANGED <<next, waitset, toput, everBlocked, due, queue, pills, citem,
                 puts>>
  /\ UNCHANGED taskVars /\ UNCHANGED args

Producer ==
  \/ Submit \/ WaitReturns \/ EndOfItems \/ GatherReturns \/ RunLocal
  \/ \E i \in Items : SkipResult(i)
  \/ \E i \in Items : PutResult(i)
  \/ BlockOnPut \/ AllHandled \/ PutPill \/ BeginJoin \/ Finish \/ JoinRaises

Task(i) == StartTask(i) \/ SubmitRefused(i) \/ FinishTask(i) \/ Discard(i)
Consumer(c) == ConsumerFails(c) \/ GetItem(c) \/ GetPill(c) \/ WriteDone(c)

(* The run has returned to to_execute; nothing of it is left on the loop.  *)
Returned == pc \in Final /\ UNCHANGED vars

Next ==
  \/ Producer
  \/ \E i \in Items : Task(i)
  \/ \E c \in Consumers : Consumer(c)
  \/ WorkerDies
  \/ Cancel
  \/ Returned

Spec == Init /\ [][Next]_vars

(* The loop runs every ready callback, a pool worker answers or is         *)
(* reported terminated, a writer returns or raises.                        *)
FairSpec ==
  /\ Spec
  /\ WF_vars(Producer)
  /\ \A i \in Items : WF_vars(Task(i))
  /\ \A c \in Consumers : WF_vars(Consumer(c))
-----------------------------------------------------------------------------
(* Properties.                                                             *)

(* The explicit semaphore of wrapped_task is never contended: the window   *)
(* kept by pending_tasks already bounds the tasks, so a created task can   *)
(* always enter it.  "control the number of concurrent tasks to avoid OOM".*)
SemaphoreNeverWaits ==
  \A i \in Items : task[i] = "created" => Cardinality(Running) < SemSize

(* A consumer stops only because the producer said so: no item may look    *)
(* like the stop marker, and no marker may precede an item.                *)
NoEarlyStop ==
  \A c \in Consumers :
    cstate[c] = "stopped" => pc \in {"pills", "join"} \cup Final

(* When a run returns normally nothing of it is left: no result sits in    *)
(* the queue behind the stop markers and no task is still in the pool.     *)
NothingLeftBehind ==
  pc = "finished" =>
    /\ queue = <<>>
    /\ \A i \in Items : task[i] \in {"none", "discarded"}

(* If no put of a result had to suspend the producer, every result has     *)
(* been handed to the writers by the time the stop markers are sent.       *)
AllPutUnlessBlocked ==
  pc \in {"pills", "join", "finished"} /\ ~everBlocked =>
    \A i \in Items : result[i] = "data" => puts[i] >= 1

(* "core key --- one in one out" (to_graph.py:150): what goes into the     *)
(* pool comes out of it.  The code loses a result that settles while the   *)
(* producer is suspended in queue.put.                                     *)
EveryResultPut ==
  pc = "finished" => \A i \in Items : result[i] = "data" => puts[i] >= 1

(* ... and comes out once.  The code puts a result twice when its task has *)
(* settled but its discard callback has not run when asyncio.wait returns. *)
NoResultPutTwice == \A i \in Items : puts[i] <= 1

(* Never more often: the callback runs while the producer waits the second *)
(* time, and no third snapshot holds the task.                             *)
PutAtMostTwice == \A i \in Items : puts[i] <= 2

(* A run returns: the producer is never left waiting for room that nobody  *)
(* makes, nor for a consumer that nobody stops.  The one exception is a    *)
(* graph without a writer, which the code only warns about (to_graph.py:97):*)
(* its consumers are dead, and once the queue is full the run hangs.       *)
HangsWithoutWriter == ~writer /\ blocked
Termination == <>(pc \in Final \/ HangsWithoutWriter)

(* The run refines the contract of BoundedPipeline.                        *)
HeldItems == Pending \cup toput
               \cup (IF pc \in {"wait", "gather"} THEN waitset ELSE {})
Copies(i) ==
  Cardinality({k \in DOMAIN queue : queue[k] = i})
    + Cardinality({c \in Consumers : cstate[c] = "writing" /\ citem[c] = i})
Phase ==
  CASE pc \in {"pills", "join"} -> "closed"
    [] pc = "finished" -> "finished"
    [] pc \in {"raised", "cancelled"} -> "aborted"
    [] OTHER -> "open"
Contract == INSTANCE BoundedPipeline
              WITH Window <- SemSize, phase <- Phase, held <- HeldItems,
                   out <- [i \in Items |-> Copies(i)]
ImplementsContract == Contract!Spec
=============================================================================

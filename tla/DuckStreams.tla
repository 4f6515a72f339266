---------------------------- MODULE DuckStreams ----------------------------
(***************************************************************************)
(* The streaming RPCs over DuckDB: the semaphore and _safe_stream of       *)
(* rpc/server.py, BtFeed.fetch and BaseDuckDBProvider.__call__, the        *)
(* generator DuckDBManager.query with its ConnectionPool, the executor     *)
(* threads it uses, cancellation by the client, and shutdown() of          *)
(* run_server.py.                                                          *)
(*                                                                         *)
(* One event loop runs all requests.  ConnectionPool.get_connection is a   *)
(* blocking queue.get(timeout=5) made ON the loop: while it waits (frozen) *)
(* no request, callback or signal handler can step; executor threads can.  *)
(* A chain of async generators that is dropped while suspended at a yield  *)
(* is closed later, by tasks that the loop's finalizer hook creates; until *)
(* then it keeps its connection, and the handler's generator its permit.   *)
(***************************************************************************)
EXTENDS Integers, FiniteSets

CONSTANTS
  Requests,    \* the RPCs made; each is made once
  Conns,       \* the DuckDB connections of the pool
  MaxStreams,  \* _MAX_CONCURRENT_STREAMS
  MaxBatches,  \* bound: record batches a query yields at most
  None         \* no request, no connection

ASSUME StreamsAssumption == MaxStreams \in Nat \ {0} /\ MaxBatches \in Nat
ASSUME FiniteAssumption  == IsFiniteSet(Requests) /\ IsFiniteSet(Conns)
ASSUME NoneAssumption    == None \notin Requests \cup Conns

VARIABLES
  req,      \* where each request is
  gone,     \* its client disconnected, or the server cancelled it
  conn,     \* the connection held by each request's query generator
  batches,  \* how many more batches each query may yield
  job,      \* what an executor thread does or did for each request
  jobConn,  \* the connection that job uses
  stmt,     \* the request whose statement each connection last executed
  pool,     \* ConnectionPool._pool
  closed,   \* connections on which close() was called
  permits,  \* free permits of _stream_semaphore
  frozen,   \* the request whose get_connection blocks the loop
  shut      \* progress of shutdown()

vars == <<req, gone, conn, batches, job, jobConn, stmt, pool, closed, permits,
          frozen, shut>>
jobVars == <<batches, job, jobConn, stmt>>
endVars == <<closed, shut>>

Ended    == {"finished", "failed", "cancelled"}
Awaiting == {"executing", "reading"}
Holding  == Awaiting \cup {"sending", "dropped", "orphan"}
Admitted == Awaiting \cup {"frozen", "sending", "dropped"}
ReqState == {"new", "queued"} \cup Holding \cup Admitted \cup Ended
JobState == {"none", "exec", "executed", "read", "batch", "exhausted", "broken"}

TypeOK ==
  /\ req \in [Requests -> ReqState]
  /\ gone \in [Requests -> BOOLEAN]
  /\ conn \in [Requests -> Conns \cup {None}]
  /\ batches \in [Requests -> 0 .. MaxBatches]
  /\ job \in [Requests -> JobState]
  /\ jobConn \in [Requests -> Conns \cup {None}]
  /\ stmt \in [Conns -> Requests \cup {None}]
  /\ pool \subseteq Conns
  /\ closed \subseteq Conns
  /\ permits \in 0 .. MaxStreams
  /\ frozen \in Requests \cup {None}
  /\ shut \in {"up", "cleaning", "stopping", "down"}

(* _initialize_pool: max_connections connections are opened.               *)
FullPool == Conns

(* serve() has built the DuckDB manager and started the server.            *)
Init ==
  /\ req = [r \in Requests |-> "new"]
  /\ gone = [r \in Requests |-> FALSE]
  /\ conn = [r \in Requests |-> None]
  /\ batches = [r \in Requests |-> MaxBatches]
  /\ job = [r \in Requests |-> "none"]
  /\ jobConn = [r \in Requests |-> None]
  /\ stmt = [c \in Conns |-> None]
  /\ pool = FullPool
  /\ closed = {}
  /\ permits = MaxStreams
  /\ frozen = None
  /\ shut = "up"

-----------------------------------------------------------------------------
(* The loop can run a step; and what it would be if get_connection were    *)
(* awaited off the loop.                                                   *)
LoopNeverBlocks == TRUE
LoopFree == frozen = None

Goto(r, s) == req' = [req EXCEPT ![r] = s]

(* return_connection in the finally of query: a pool that every connection *)
(* came from always has room, so the branch that closes the connection     *)
(* because the pool is full has no step.  And query without its finally.   *)
ForgetConnection(r) == conn' = [conn EXCEPT ![r] = None] /\ UNCHANGED pool
ReturnConnection(r) ==
  /\ pool' = pool \cup {conn[r]}
  /\ conn' = [conn EXCEPT ![r] = None]

(* Leaving "async with _stream_semaphore"; and without the release.         *)
KeepPermit == UNCHANGED permits
ReleasePermit == permits' = permits + 1

(* run_in_executor for request r on connection c.                          *)
Launch(r, c, what) ==
  /\ job' = [job EXCEPT ![r] = what]
  /\ jobConn' = [jobConn EXCEPT ![r] = c]
  /\ UNCHANGED <<batches, stmt>>

-----------------------------------------------------------------------------
(* A request on the loop.                                                  *)

Arrive(r) ==
  /\ LoopFree /\ shut \in {"up", "cleaning"} /\ req[r] = "new"
  /\ Goto(r, "queued")
  /\ UNCHANGED <<gone, conn, pool, permits, frozen>>
  /\ UNCHANGED jobVars /\ UNCHANGED endVars

(* From the semaphore to the first await of query there is no suspension:  *)
(* permit, connection and the call of _glob_path are one step.  The query  *)
(* goes on only if there are files and sids to look at.                    *)
MayStart(r) == LoopFree /\ req[r] = "queued" /\ permits > 0

StartQuery(r, c) ==
  /\ MayStart(r) /\ c \in pool
  /\ permits' = permits - 1
  /\ pool' = pool \ {c}
  /\ conn' = [conn EXCEPT ![r] = c]
  /\ Launch(r, c, "exec")
  /\ Goto(r, "executing")
  /\ UNCHANGED <<gone, frozen>> /\ UNCHANGED endVars

NothingToQuery(r) ==
  /\ MayStart(r) /\ pool # {}
  /\ Goto(r, "finished")
  /\ UNCHANGED <<gone, conn, pool, permits, frozen>>
  /\ UNCHANGED jobVars /\ UNCHANGED endVars

(* The pool is empty: the loop stops for five seconds ...                  *)
Freeze(r) ==
  /\ MayStart(r) /\ pool = {}
  /\ permits' = permits - 1
  /\ frozen' = r
  /\ Goto(r, "frozen")
  /\ UNCHANGED <<gone, conn, pool>> /\ UNCHANGED jobVars /\ UNCHANGED endVars

(* ... and "Connection pool exhausted" is raised out of the handler.       *)
PoolExhausted(r) ==
  /\ frozen = r /\ pool = {}
  /\ frozen' = None
  /\ ReleasePermit
  /\ Goto(r, "failed")
  /\ UNCHANGED <<gone, conn, pool>> /\ UNCHANGED jobVars /\ UNCHANGED endVars

(* The statement has run in its thread: ask for the first batch.           *)
ExecReturns(r) ==
  /\ LoopFree /\ req[r] = "executing" /\ job[r] = "executed"
  /\ Launch(r, conn[r], "read")
  /\ Goto(r, "reading")
  /\ UNCHANGED <<gone, conn, pool, permits, frozen>> /\ UNCHANGED endVars

(* The reader is exhausted, or the statement or the reader raised.         *)
QueryEnds(r) ==
  /\ LoopFree /\ req[r] \in Awaiting /\ job[r] \in {"exhausted", "broken"}
  /\ ReturnConnection(r)
  /\ ReleasePermit
  /\ Goto(r, IF job[r] = "exhausted" THEN "finished" ELSE "failed")
  /\ job' = [job EXCEPT ![r] = "none"]
  /\ UNCHANGED <<gone, batches, jobConn, stmt, frozen>> /\ UNCHANGED endVars

(* A batch: the provider and _safe_stream look at context.done(); either   *)
(* returns and leaves the query's generator suspended at its yield.  An    *)
(* empty batch is skipped, a segment of any other is sent.                 *)
GotBatch(r) ==
  /\ LoopFree /\ req[r] = "reading" /\ job[r] = "batch"
  /\ IF gone[r]
     THEN Goto(r, "orphan") /\ ReleasePermit
          /\ job' = [job EXCEPT ![r] = "none"]
     ELSE /\ UNCHANGED permits
          /\ \/ Goto(r, "sending") /\ job' = [job EXCEPT ![r] = "none"]
             \/ Goto(r, "reading") /\ job' = [job EXCEPT ![r] = "read"]
  /\ UNCHANGED <<gone, conn, pool, batches, jobConn, stmt, frozen>>
  /\ UNCHANGED endVars

(* gRPC has taken the last segment of the batch.                           *)
Sent(r) ==
  /\ LoopFree /\ req[r] = "sending" /\ ~gone[r]
  /\ Launch(r, conn[r], "read")
  /\ Goto(r, "reading")
  /\ UNCHANGED <<gone, conn, pool, permits, frozen>> /\ UNCHANGED endVars

-----------------------------------------------------------------------------
(* The client leaves; the handler's task is cancelled.                     *)

Live == {"queued", "sending"} \cup Awaiting

Disconnect(r) ==
  /\ LoopFree /\ req[r] \in Live /\ ~gone[r]
  /\ gone' = [gone EXCEPT ![r] = TRUE]
  /\ UNCHANGED <<req, conn, pool, permits, frozen>>
  /\ UNCHANGED jobVars /\ UNCHANGED endVars

CancelQueued(r) ==
  /\ LoopFree /\ gone[r] /\ req[r] = "queued"
  /\ Goto(r, "cancelled")
  /\ UNCHANGED <<gone, conn, pool, permits, frozen>>
  /\ UNCHANGED jobVars /\ UNCHANGED endVars

(* CancelledError at "await run_in_executor": finally returns the          *)
(* connection at once.  A job no thread has taken up is withdrawn, one     *)
(* that is running goes on, on the returned connection.                    *)
CancelAwaiting(r) ==
  /\ LoopFree /\ gone[r] /\ req[r] \in Awaiting
  /\ ReturnConnection(r)
  /\ ReleasePermit
  /\ Goto(r, "cancelled")
  /\ \/ UNCHANGED job
     \/ job' = [job EXCEPT ![r] = "none"]
  /\ UNCHANGED <<gone, batches, jobConn, stmt, frozen>> /\ UNCHANGED endVars

(* Cancelled, or failed, inside gRPC's send: the error is raised in gRPC,  *)
(* not at the yield, and the generators are dropped where they stand.      *)
DropSending(r) ==
  /\ LoopFree /\ gone[r] /\ req[r] = "sending"
  /\ Goto(r, "dropped")
  /\ UNCHANGED <<gone, conn, pool, permits, frozen>>
  /\ UNCHANGED jobVars /\ UNCHANGED endVars

(* aclose of the dropped handler generator, then of the query's.           *)
FinalizeHandler(r) ==
  /\ LoopFree /\ req[r] = "dropped"
  /\ ReleasePermit
  /\ Goto(r, "orphan")
  /\ UNCHANGED <<gone, conn, pool, frozen>>
  /\ UNCHANGED jobVars /\ UNCHANGED endVars

FinalizeQuery(r) ==
  /\ LoopFree /\ req[r] = "orphan"
  /\ ReturnConnection(r)
  /\ Goto(r, "cancelled")
  /\ UNCHANGED <<gone, permits, frozen>>
  /\ UNCHANGED jobVars /\ UNCHANGED endVars

-----------------------------------------------------------------------------
(* The executor threads; they run whatever the loop does.                  *)

(* conn.execute(...): from now on the connection's result is this one's.   *)
ThreadExecutes(r) ==
  /\ job[r] = "exec"
  /\ \/ job' = [job EXCEPT ![r] = "executed"]
        /\ stmt' = [stmt EXCEPT ![jobConn[r]] = r]
     \/ job' = [job EXCEPT ![r] = "broken"] /\ UNCHANGED stmt
  /\ UNCHANGED <<req, gone, conn, batches, jobConn, pool, permits, frozen>>
  /\ UNCHANGED endVars

(* _read_batch_safe: the reader streams from the connection's open result; *)
(* if another statement ran there it has none to read.                     *)
ThreadReads(r) ==
  /\ job[r] = "read"
  /\ IF stmt[jobConn[r]] # r
     THEN job' = [job EXCEPT ![r] = "broken"] /\ UNCHANGED batches
     ELSE \/ batches[r] > 0 /\ job' = [job EXCEPT ![r] = "batch"]
             /\ batches' = [batches EXCEPT ![r] = @ - 1]
          \/ job' = [job EXCEPT ![r] = "exhausted"] /\ UNCHANGED batches
  /\ UNCHANGED <<req, gone, conn, jobConn, stmt, pool, permits, frozen>>
  /\ UNCHANGED endVars

-----------------------------------------------------------------------------
(* shutdown().                                                             *)

(* A signal: shutdown() starts with the cleanup of the PG side.            *)
Signal ==
  /\ LoopFree /\ shut = "up"
  /\ shut' = "cleaning"
  /\ UNCHANGED <<req, gone, conn, pool, closed, permits, frozen>>
  /\ UNCHANGED jobVars

(* close_all() closes the connections that are in the pool now, then       *)
(* server.stop(grace) refuses new requests.                                *)
CloseAll ==
  /\ LoopFree /\ shut = "cleaning"
  /\ pool' = {}
  /\ closed' = closed \cup pool
  /\ shut' = "stopping"
  /\ UNCHANGED <<req, gone, conn, permits, frozen>> /\ UNCHANGED jobVars

(* The grace period is over: what still runs is cancelled.                 *)
GraceExpires ==
  /\ LoopFree /\ shut = "stopping"
  /\ \E r \in Requests : req[r] \in Live /\ ~gone[r]
  /\ gone' = [r \in Requests |-> gone[r] \/ req[r] \in Live]
  /\ UNCHANGED <<req, conn, pool, closed, permits, frozen, shut>>
  /\ UNCHANGED jobVars

Stopped ==
  /\ LoopFree /\ shut = "stopping"
  /\ \A r \in Requests : req[r] \notin Live
  /\ shut' = "down"
  /\ UNCHANGED <<req, gone, conn, pool, closed, permits, frozen>>
  /\ UNCHANGED jobVars

Handler(r) ==
  \/ \E c \in Conns : StartQuery(r, c)
  \/ NothingToQuery(r) \/ Freeze(r) \/ PoolExhausted(r)
  \/ ExecReturns(r) \/ QueryEnds(r) \/ GotBatch(r)
  \/ CancelQueued(r) \/ CancelAwaiting(r) \/ DropSending(r)
  \/ FinalizeHandler(r) \/ FinalizeQuery(r)
Client(r) == Sent(r) \/ Disconnect(r)
Thread(r) == ThreadExecutes(r) \/ ThreadReads(r)
Shutdown  == Signal \/ CloseAll \/ GraceExpires \/ Stopped

Quiet ==
  /\ \A r \in Requests : req[r] \in Ended \cup {"new"}
  /\ UNCHANGED vars

Next ==
  \/ \E r \in Requests : Arrive(r) \/ Handler(r) \/ Client(r) \/ Thread(r)
  \/ Shutdown
  \/ Quiet

Spec == Init /\ [][Next]_vars

(* The loop runs what is ready and its timeouts expire, a thread finishes  *)
(* its call, and a client that a segment is being sent to reads it or goes *)
(* away.  No client is bound to give up waiting for a permit.              *)
FairSpec ==
  /\ Spec
  /\ \A r \in Requests :
       /\ WF_vars(Handler(r)) /\ WF_vars(Thread(r))
       /\ WF_vars(req[r] = "sending" /\ Client(r))

-----------------------------------------------------------------------------
(* Properties.                                                             *)

(* Every connection is in the pool, closed, or held by one request: none   *)
(* leaks and none is handed out twice, whichever way a request ends.       *)
ConnectionsConserved ==
  /\ pool \cap closed = {}
  /\ \A r \in Requests : conn[r] # None =>
       /\ conn[r] \notin pool \cup closed
       /\ \A s \in Requests : conn[s] = conn[r] => s = r
  /\ \A c \in Conns : c \in pool \cup closed \/ \E r \in Requests : conn[r] = c
  /\ \A r \in Requests : conn[r] # None <=> req[r] \in Holding

(* The permits are those of the requests inside the "async with".          *)
PermitsConserved ==
  permits + Cardinality({r \in Requests : req[r] \in Admitted}) = MaxStreams

(* While get_connection waits nobody can return a connection, as only the  *)
(* frozen loop does that: its timeout is a certainty, not a chance.        *)
WaitIsHopeless == frozen # None => pool = {}

(* A request that was accepted comes to an end.                            *)
RequestsEnd == \A r \in Requests : req[r] = "queued" ~> req[r] \in Ended

(* A connection that a request took comes back, though the client left in  *)
(* the middle of it: "no connection leak" (implementation_plan.md:211).    *)
ConnectionsComeBack ==
  \A c \in Conns : c \notin pool ~> c \in pool \cup closed

(* "防止单客户端耗尽连接池" (README.md:99): who has a permit finds a       *)
(* connection.  Even with as many connections as permits it may not: an    *)
(* abandoned query gives its permit back before its connection.            *)
PermitFindsConnection == shut = "up" => frozen = None

(* A reader reads its own statement's result.  A cancelled request returns *)
(* its connection while its thread is still about to execute on it.        *)
ReaderKeepsItsStatement ==
  \A r \in Requests : req[r] = "reading" /\ job[r] = "read" => stmt[conn[r]] = r

(* "ConnectionPool.close_all() 释放所有连接" (run_server.py:110): when the  *)
(* server is down its connections are closed.                              *)
ShutdownClosesAll == shut = "down" => closed = Conns
=============================================================================

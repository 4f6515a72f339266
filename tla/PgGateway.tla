----------------------------- MODULE PgGateway -----------------------------
(***************************************************************************)
(* The PostgreSQL gateway, gateway/pg/operator.py: lazy initialisation of  *)
(* the AsyncOps singleton under an asyncio.Lock, the session of each       *)
(* streamed query and its hand-over to AsyncStreamProxy, the short         *)
(* sessions of get_db, cancellation, and cleanup() at shutdown.            *)
(*                                                                         *)
(* Coroutines of one event loop: each action runs from one await to the    *)
(* next.  What SQLAlchemy does is modelled from how this code uses it: an  *)
(* engine that was disposed still opens connections for its sessions.      *)
(***************************************************************************)
EXTENDS Integers, FiniteSets

CONSTANTS
  Requests,   \* calls of a provider or of on_query_obj, on_insert, ...
  Streamed,   \* those that stream (on_query); the others use get_db
  PoolSize,   \* connections an engine opens at most (pool_size + overflow)
  MaxEngines, \* bound: engines built; a request builds at most one, so the
              \* bound never bites with one engine per request
  MaxSignals, \* bound: signals, each starts a shutdown()
  None

ASSUME SizeAssumption ==
  PoolSize \in Nat \ {0} /\ MaxEngines \in Nat /\ MaxSignals \in Nat
ASSUME RequestsAssumption ==
  IsFiniteSet(Requests) /\ Streamed \subseteq Requests /\ None \notin Requests

Engines == 1 .. MaxEngines

VARIABLES
  req,         \* where each request is
  session,     \* the engine of each request's open session, 0 if none
  gone,        \* the request was cancelled
  initialized, \* AsyncOps._initialized
  engine,      \* AsyncOps.engine, 0 for None
  factory,     \* the engine _session_factory is bound to, 0 for None
  lock,        \* holder of _init_lock
  built,       \* engines created so far
  disposed,    \* engines that dispose() was called on since they were in use
  cleanups,    \* shutdown() tasks inside "await engine.dispose()"
  signals      \* signals so far

vars == <<req, session, gone, initialized, engine, factory, lock, built,
          disposed, cleanups, signals>>
initVars == <<initialized, engine, factory, lock, built>>
downVars == <<disposed, cleanups, signals>>

Ended == {"done", "failed", "cancelled"}
\* in "opening" and later the request has a session; from "streaming" on a
\* connection is checked out for it
Busy == {"streaming", "closing"}
ReqState == {"new", "waiting", "building", "opening"} \cup Busy \cup Ended

TypeOK ==
  /\ req \in [Requests -> ReqState]
  /\ session \in [Requests -> Engines \cup {0}]
  /\ gone \in [Requests -> BOOLEAN]
  /\ initialized \in BOOLEAN
  /\ engine \in Engines \cup {0}
  /\ factory \in Engines \cup {0}
  /\ lock \in {r \in Requests : req[r] = "building"} \cup {None}
  /\ built \in 0 .. MaxEngines
  /\ disposed \subseteq Engines
  /\ cleanups \in 0 .. MaxSignals
  /\ signals \in 0 .. MaxSignals

Init ==
  /\ req = [r \in Requests |-> "new"]
  /\ session = [r \in Requests |-> 0]
  /\ gone = [r \in Requests |-> FALSE]
  /\ initialized = FALSE
  /\ engine = 0
  /\ factory = 0
  /\ lock = None
  /\ built = 0
  /\ disposed = {}
  /\ cleanups = 0
  /\ signals = 0

Goto(r, s) == req' = [req EXCEPT ![r] = s]
CheckedOut(e) == Cardinality({r \in Requests : req[r] \in Busy /\ session[r] = e})

-----------------------------------------------------------------------------
(* _ensure_initialized.                                                    *)

(* Leaving "async with self._init_lock"; and a lock that stays taken when  *)
(* the initialisation fails.                                               *)
KeepLock == UNCHANGED lock
Unlock == lock' = None

(* The second look at _initialized, under the lock; and a version without. *)
NoSecondLook == FALSE
SecondLook == initialized

(* A session of the current factory, then "await session.begin()".         *)
OpenSession(r) ==
  /\ session' = [session EXCEPT ![r] = factory]
  /\ Goto(r, "opening")

(* Already initialised: no await before the session is opened.             *)
EnterInitialized(r) ==
  /\ req[r] = "new" /\ initialized
  /\ OpenSession(r)
  /\ UNCHANGED gone /\ UNCHANGED initVars /\ UNCHANGED downVars

EnterWaiting(r) ==
  /\ req[r] = "new" /\ ~initialized
  /\ Goto(r, "waiting")
  /\ UNCHANGED <<session, gone>> /\ UNCHANGED initVars /\ UNCHANGED downVars

(* The lock is free: look again, and initialise or go on.                  *)
LockAndSkip(r) ==
  /\ req[r] = "waiting" /\ lock = None /\ SecondLook
  /\ OpenSession(r)
  /\ UNCHANGED gone /\ UNCHANGED initVars /\ UNCHANGED downVars

LockAndBuild(r) ==
  /\ req[r] = "waiting" /\ lock = None /\ ~SecondLook
  /\ built < MaxEngines
  /\ lock' = r
  /\ built' = built + 1
  /\ Goto(r, "building")
  /\ UNCHANGED <<session, gone, initialized, engine, factory>>
  /\ UNCHANGED downVars

(* _build_engine is over; initialize, the lock and the session follow      *)
(* without another await.  The builder's engine is the last one created.   *)
Built(r) ==
  /\ req[r] = "building"
  /\ engine' = built
  /\ factory' = built
  /\ initialized' = TRUE
  /\ Unlock
  /\ session' = [session EXCEPT ![r] = built]
  /\ Goto(r, "opening")
  /\ UNCHANGED <<gone, built>> /\ UNCHANGED downVars

(* The schema could not be created or reflected: the exception leaves the  *)
(* lock, and the local engine is dropped.                                  *)
BuildFails(r) ==
  /\ req[r] = "building"
  /\ Unlock
  /\ Goto(r, "failed")
  /\ UNCHANGED <<session, gone, initialized, engine, factory, built>>
  /\ UNCHANGED downVars

-----------------------------------------------------------------------------
(* on_query and AsyncStreamProxy; get_db is the same with one batch.       *)

(* session.begin, session.stream: a connection of the pool is checked out. *)
Opened(r) ==
  /\ req[r] = "opening" /\ CheckedOut(session[r]) < PoolSize
  /\ Goto(r, "streaming")
  /\ UNCHANGED <<session, gone>> /\ UNCHANGED initVars /\ UNCHANGED downVars

(* session.close(); and an end of the request that forgets it.             *)
LeaveOpen(r) == UNCHANGED session
CloseSession(r) == session' = [session EXCEPT ![r] = 0]

(* The statement is refused, or pool_timeout expires: except closes.       *)
OpenFails(r) ==
  /\ req[r] = "opening"
  /\ CloseSession(r)
  /\ Goto(r, "failed")
  /\ UNCHANGED gone /\ UNCHANGED initVars /\ UNCHANGED downVars

(* The rows are exhausted, reading them raised, or context.done() holds:   *)
(* the "async with" around the proxy, or get_db, is left.                  *)
Leave(r) ==
  /\ req[r] = "streaming"
  /\ Goto(r, "closing")
  /\ UNCHANGED <<session, gone>> /\ UNCHANGED initVars /\ UNCHANGED downVars

(* commit, or rollback when that raises; in any case session.close().      *)
Closed(r) ==
  /\ req[r] = "closing"
  /\ CloseSession(r)
  /\ \/ gone[r] /\ Goto(r, "cancelled")
     \/ ~gone[r] /\ (Goto(r, "done") \/ Goto(r, "failed"))
  /\ UNCHANGED gone /\ UNCHANGED initVars /\ UNCHANGED downVars

-----------------------------------------------------------------------------
(* The client leaves: CancelledError at the await the request is at.  Not  *)
(* modelled is one that comes while the session commits, rolls back or     *)
(* closes ("closing"): what is left of it then is up to SQLAlchemy.        *)

CancelWaiting(r) ==
  /\ req[r] = "waiting" /\ ~gone[r]
  /\ gone' = [gone EXCEPT ![r] = TRUE]
  /\ Goto(r, "cancelled")
  /\ UNCHANGED session /\ UNCHANGED initVars /\ UNCHANGED downVars

CancelBuilding(r) ==
  /\ req[r] = "building" /\ ~gone[r]
  /\ gone' = [gone EXCEPT ![r] = TRUE]
  /\ Unlock
  /\ Goto(r, "cancelled")
  /\ UNCHANGED <<session, initialized, engine, factory, built>>
  /\ UNCHANGED downVars

(* on_query catches Exception, and CancelledError is none: its session is  *)
(* not closed.  get_db closes in a finally.                                *)
CancelOpening(r) ==
  /\ req[r] = "opening" /\ ~gone[r]
  /\ gone' = [gone EXCEPT ![r] = TRUE]
  /\ IF r \in Streamed THEN Goto(r, "cancelled")
                       ELSE Goto(r, "closing")
  /\ UNCHANGED session /\ UNCHANGED initVars /\ UNCHANGED downVars

CancelStreaming(r) ==
  /\ req[r] = "streaming" /\ ~gone[r]
  /\ gone' = [gone EXCEPT ![r] = TRUE]
  /\ Goto(r, "closing")
  /\ UNCHANGED session /\ UNCHANGED initVars /\ UNCHANGED downVars

-----------------------------------------------------------------------------
(* cleanup(), called by each shutdown().                                   *)

(* With no engine there is nothing to await.                               *)
CleanupNothing ==
  /\ signals < MaxSignals /\ engine = 0
  /\ signals' = signals + 1
  /\ initialized' = FALSE
  /\ UNCHANGED <<req, session, gone, engine, factory, lock, built, disposed,
                 cleanups>>

(* "await self.engine.dispose()" closes the connections that are idle.     *)
CleanupStarts ==
  /\ signals < MaxSignals /\ engine # 0
  /\ signals' = signals + 1
  /\ cleanups' = cleanups + 1
  /\ disposed' = disposed \cup {engine}
  /\ UNCHANGED <<req, session, gone>> /\ UNCHANGED initVars

(* engine = None; and a cleanup that keeps the disposed engine.            *)
KeepEngine == UNCHANGED engine
ForgetEngine == engine' = 0

CleanupEnds ==
  /\ cleanups > 0
  /\ cleanups' = cleanups - 1
  /\ ForgetEngine
  /\ initialized' = FALSE
  /\ UNCHANGED <<req, session, gone, factory, lock, built, disposed, signals>>

Request(r) ==
  \/ EnterInitialized(r) \/ EnterWaiting(r)
  \/ LockAndSkip(r) \/ LockAndBuild(r) \/ Built(r) \/ BuildFails(r)
  \/ Opened(r) \/ OpenFails(r) \/ Leave(r) \/ Closed(r)
Cancel(r) ==
  CancelWaiting(r) \/ CancelBuilding(r) \/ CancelOpening(r) \/ CancelStreaming(r)
Cleanup == CleanupNothing \/ CleanupStarts \/ CleanupEnds

AllEnded == \A r \in Requests : req[r] \in Ended
Quiet == AllEnded /\ UNCHANGED vars

Next == (\E r \in Requests : Request(r) \/ Cancel(r)) \/ Cleanup \/ Quiet

Spec == Init /\ [][Next]_vars

(* The database answers or times out; the loop runs what is ready.         *)
FairSpec == Spec /\ (\A r \in Requests : WF_vars(Request(r))) /\ WF_vars(CleanupEnds)
-----------------------------------------------------------------------------
(* Properties.                                                             *)

(* The flag and the engine change together, whatever initialisations and   *)
(* cleanups overlap: nobody finds the flag set and no engine behind it.    *)
FlagMeansEngine == initialized <=> engine # 0 /\ engine = factory

(* "防止并发初始化" (operator.py:60): until the first cleanup the engine that *)
(* was installed stays, however many requests raced to initialise.         *)
OneEngine ==
  [][factory # 0 /\ signals' = 0 => factory' = factory]_vars

(* A request that was not cancelled closes its session however it ends, a  *)
(* request of get_db even when cancelled.  Cancelled streams are excepted: *)
(* see CancelClosesSession.                                                *)
SessionsClosed ==
  \A r \in Requests :
    req[r] \in Ended /\ (gone[r] => r \notin Streamed) => session[r] = 0

(* A request that found the gateway uninitialised comes to an end, though  *)
(* the request that initialises it may fail or be cancelled.               *)
RequestsEnd == \A r \in Requests : req[r] = "waiting" ~> req[r] \in Ended

(* "客户端取消检测 ... 提前退出释放 DuckDB/PG 连接" (README.md:100).  A request  *)
(* cancelled while on_query opens its stream leaves the session open.      *)
CancelClosesSession ==
  \A r \in Requests : req[r] = "cancelled" => session[r] = 0

(* "shutdown() 时调用 async_ops.cleanup()" to clean up (README.md:101): when  *)
(* all shutdowns and requests are over, the engine in use was disposed.    *)
(* A request that comes after cleanup() installs a new one.                *)
CleanupIsFinal ==
  signals > 0 /\ cleanups = 0 /\ AllEnded /\ factory # 0 => factory \in disposed
=============================================================================

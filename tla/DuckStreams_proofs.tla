------------------------- MODULE DuckStreams_proofs -------------------------
(***************************************************************************)
(* Theorems about what the gRPC service admits: DuckStreams, for any       *)
(* requests, connections, permits and lengths of queries, and the rate     *)
(* limiter in front of it, TokenBucket, for any threads, rate, capacity    *)
(* and length of run: the bucket is exactly a limit on every interval.     *)
(***************************************************************************)
EXTENDS DuckStreams, TokenBucket, FiniteSetTheorems, TLAPS

\* The loop stands still in the get_connection of a request that is there.
FrozenInv == frozen # None => req[frozen] = "frozen"

IInv ==
  TypeOK /\ ConnectionsConserved /\ PermitsConserved /\ FrozenInv
    /\ WaitIsHopeless

Inside == {r \in Requests : req[r] \in Admitted}

-----------------------------------------------------------------------------
(* Permits: a step that moves one request.                                 *)

LEMMA InsideFinite ==
  IsFiniteSet(Inside) /\ Cardinality(Inside) \in Nat
<1>1. Inside \in SUBSET Requests
  BY DEF Inside
<1> QED  BY <1>1, FiniteAssumption, FS_Subset, FS_CardinalityType

LEMMA PermitTaken ==
  ASSUME TypeOK, PermitsConserved, NEW r \in Requests, NEW s \in Admitted,
         Goto(r, s), req[r] \notin Admitted, permits' = permits - 1, permits > 0
  PROVE  PermitsConserved' /\ permits' \in 0 .. MaxStreams
<1>1. Inside' = Inside \cup {r} /\ r \notin Inside
  BY DEF Inside, Goto, TypeOK
<1>2. Cardinality(Inside') = Cardinality(Inside) + 1
  BY <1>1, InsideFinite, FS_AddElement
<1> QED
  BY <1>2, InsideFinite, StreamsAssumption DEF PermitsConserved, Inside, TypeOK

LEMMA PermitReturned ==
  ASSUME TypeOK, PermitsConserved, NEW r \in Requests, NEW s, s \notin Admitted,
         Goto(r, s), req[r] \in Admitted, ReleasePermit
  PROVE  PermitsConserved' /\ permits' \in 0 .. MaxStreams
<1>1. Inside' = Inside \ {r} /\ r \in Inside
  BY DEF Inside, Goto, TypeOK
<1>2. Cardinality(Inside') = Cardinality(Inside) - 1 /\ Cardinality(Inside') \in Nat
  BY <1>1, InsideFinite, FS_RemoveElement, FS_CardinalityType
<1> QED
  BY <1>2, InsideFinite, StreamsAssumption
  DEF PermitsConserved, Inside, TypeOK, ReleasePermit

LEMMA PermitsKept ==
  ASSUME TypeOK, PermitsConserved, permits' = permits,
         \A r \in Requests : req[r] \in Admitted <=> req'[r] \in Admitted
  PROVE  PermitsConserved' /\ permits' \in 0 .. MaxStreams
<1>1. Inside' = Inside
  BY DEF Inside
<1> QED  BY <1>1 DEF PermitsConserved, Inside, TypeOK

-----------------------------------------------------------------------------
(* Connections: taken, returned, or left where they are.                   *)

LEMMA ConnectionTaken ==
  ASSUME TypeOK, ConnectionsConserved, NEW r \in Requests, NEW c \in pool,
         NEW s \in Holding, Goto(r, s), req[r] \notin Holding,
         pool' = pool \ {c}, conn' = [conn EXCEPT ![r] = c], closed' = closed
  PROVE  ConnectionsConserved' /\ pool' \subseteq Conns
                               /\ conn' \in [Requests -> Conns \cup {None}]
<1>1. c \in Conns /\ c # None /\ c \notin closed
  BY NoneAssumption DEF TypeOK, ConnectionsConserved
<1>2. conn[r] = None /\ \A q \in Requests : conn[q] # c
  BY <1>1 DEF ConnectionsConserved
<1>3. conn' \in [Requests -> Conns \cup {None}] /\ pool' \subseteq Conns
  BY <1>1 DEF TypeOK
<1>4. \A q \in Requests : conn'[q] # None <=> req'[q] \in Holding
  BY <1>1 DEF Goto, TypeOK, ConnectionsConserved
<1>5. \A q \in Requests : conn'[q] # None =>
        /\ conn'[q] \notin pool' \cup closed'
        /\ \A p \in Requests : conn'[p] = conn'[q] => p = q
  BY <1>1, <1>2 DEF TypeOK, ConnectionsConserved
<1>6. ASSUME NEW d \in Conns, d \notin pool' \cup closed'
      PROVE  \E q \in Requests : conn'[q] = d
  <2>1. CASE d = c
    BY <2>1 DEF TypeOK
  <2>2. CASE d # c
    <3>1. PICK q \in Requests : conn[q] = d
      BY <1>6, <2>2 DEF ConnectionsConserved
    <3>2. q # r
      BY <1>2, <3>1, NoneAssumption
    <3> QED  BY <3>1, <3>2 DEF TypeOK
  <2> QED  BY <2>1, <2>2
<1> QED  BY <1>3, <1>4, <1>5, <1>6 DEF ConnectionsConserved

LEMMA ConnectionReturned ==
  ASSUME TypeOK, ConnectionsConserved, NEW r \in Requests, NEW s,
         s \notin Holding, Goto(r, s), req[r] \in Holding,
         ReturnConnection(r), closed' = closed
  PROVE  ConnectionsConserved' /\ pool' \subseteq Conns
                               /\ conn' \in [Requests -> Conns \cup {None}]
<1>1. conn[r] # None /\ conn[r] \in Conns /\ conn[r] \notin closed
  BY DEF TypeOK, ConnectionsConserved
<1>2. conn' = [conn EXCEPT ![r] = None] /\ pool' = pool \cup {conn[r]}
  BY DEF ReturnConnection
<1>3. conn' \in [Requests -> Conns \cup {None}] /\ pool' \subseteq Conns
  BY <1>1, <1>2 DEF TypeOK
<1>4. \A q \in Requests : conn'[q] # None <=> req'[q] \in Holding
  BY <1>2 DEF Goto, TypeOK, ConnectionsConserved
<1>5. \A q \in Requests : conn'[q] # None =>
        /\ conn'[q] \notin pool' \cup closed'
        /\ \A p \in Requests : conn'[p] = conn'[q] => p = q
  BY <1>1, <1>2 DEF TypeOK, ConnectionsConserved
<1>6. \A d \in Conns : d \in pool' \cup closed' \/ \E q \in Requests : conn'[q] = d
  BY <1>1, <1>2 DEF TypeOK, ConnectionsConserved
<1> QED  BY <1>1, <1>2, <1>3, <1>4, <1>5, <1>6 DEF ConnectionsConserved

LEMMA ConnectionsKept ==
  ASSUME TypeOK, ConnectionsConserved,
         conn' = conn, pool' = pool, closed' = closed,
         \A r \in Requests : req[r] \in Holding <=> req'[r] \in Holding
  PROVE  ConnectionsConserved'
  BY DEF ConnectionsConserved

-----------------------------------------------------------------------------
(* The invariant, for the steps of the loop that move one request.         *)

LEMMA InitInv == Init => IInv
<1> SUFFICES ASSUME Init PROVE IInv
  OBVIOUS
<1>1. gone \in [Requests -> BOOLEAN]
  BY DEF Init
<1>2. TypeOK
  BY <1>1, StreamsAssumption
  DEF Init, TypeOK, ReqState, JobState, FullPool
<1>3. Inside = {}
  BY DEF Init, Inside, Admitted, Awaiting
<1>4. PermitsConserved
  BY <1>3, FS_EmptySet, StreamsAssumption DEF PermitsConserved, Inside, Init
<1>5. ConnectionsConserved
  BY NoneAssumption DEF Init, ConnectionsConserved, FullPool, Holding, Awaiting
<1> QED
  BY <1>2, <1>4, <1>5 DEF IInv, Init, FrozenInv, WaitIsHopeless

Rest ==
  /\ req \in [Requests -> ReqState]
  /\ gone \in [Requests -> BOOLEAN]
  /\ batches \in [Requests -> 0 .. MaxBatches]
  /\ job \in [Requests -> JobState]
  /\ jobConn \in [Requests -> Conns \cup {None}]
  /\ stmt \in [Conns -> Requests \cup {None}]
  /\ closed \subseteq Conns
  /\ frozen \in Requests \cup {None}
  /\ shut \in {"up", "cleaning", "stopping", "down"}

LEMMA RestMoves ==
  ASSUME TypeOK, NEW r \in Requests, NEW s \in ReqState, Goto(r, s),
         gone' = gone, batches' = batches, jobConn' = jobConn, stmt' = stmt,
         closed' = closed, shut' = shut,
         frozen' \in {frozen, r, None},
         \E j \in JobState : job' \in {job, [job EXCEPT ![r] = j]}
  PROVE  Rest'
<1>1. req' \in [Requests -> ReqState]
  BY DEF Goto, TypeOK
<1>2. job' \in [Requests -> JobState]
  BY DEF TypeOK
<1> QED  BY <1>1, <1>2 DEF Rest, TypeOK

LEMMA RestLaunches ==
  ASSUME TypeOK, NEW r \in Requests, NEW s \in ReqState, Goto(r, s),
         NEW c \in Conns \cup {None}, NEW j \in JobState, Launch(r, c, j),
         gone' = gone, closed' = closed, shut' = shut, frozen' = frozen
  PROVE  Rest'
<1>1. req' \in [Requests -> ReqState] /\ job' \in [Requests -> JobState]
  BY DEF Goto, Launch, TypeOK
<1>2. jobConn' \in [Requests -> Conns \cup {None}]
  BY DEF Launch, TypeOK
<1> QED  BY <1>1, <1>2 DEF Rest, TypeOK, Launch

LEMMA Assembled ==
  ASSUME Rest', conn' \in [Requests -> Conns \cup {None}], pool' \subseteq Conns,
         permits' \in 0 .. MaxStreams, ConnectionsConserved', PermitsConserved',
         FrozenInv', WaitIsHopeless'
  PROVE  IInv'
  BY DEF Rest, IInv, TypeOK

(* A request that does not freeze moves while the loop is free.            *)
LEMMA StillFree ==
  ASSUME IInv, LoopFree, frozen' = frozen
  PROVE  FrozenInv' /\ WaitIsHopeless'
  BY DEF LoopFree, FrozenInv, WaitIsHopeless

LEMMA StartStep ==
  ASSUME IInv, NEW r \in Requests, NEW c \in Conns, StartQuery(r, c)
  PROVE  IInv'
<1>0. TypeOK /\ ConnectionsConserved /\ PermitsConserved
  BY DEF IInv
<1>1. Rest'
  BY <1>0, RestLaunches DEF StartQuery, endVars, ReqState, Holding, Awaiting, JobState
<1>2. /\ ConnectionsConserved' /\ pool' \subseteq Conns
      /\ conn' \in [Requests -> Conns \cup {None}]
  BY <1>0, ConnectionTaken DEF StartQuery, MayStart, endVars, Holding, Awaiting
<1>3. PermitsConserved' /\ permits' \in 0 .. MaxStreams
  BY <1>0, PermitTaken DEF StartQuery, MayStart, Admitted, Awaiting
<1>4. FrozenInv' /\ WaitIsHopeless'
  BY StillFree DEF StartQuery, MayStart
<1> QED  BY <1>1, <1>2, <1>3, <1>4, Assembled

(* The steps that touch neither the permits nor the connections.           *)
LEMMA MoveStep ==
  ASSUME IInv, NEW r \in Requests, LoopFree, UNCHANGED <<conn, pool, permits, frozen>>,
         closed' = closed, Rest', 
         req[r] \in Holding <=> req'[r] \in Holding,
         req[r] \in Admitted <=> req'[r] \in Admitted,
         \A q \in Requests \ {r} : req'[q] = req[q]
  PROVE  IInv'
<1>0. TypeOK /\ ConnectionsConserved /\ PermitsConserved
  BY DEF IInv
<1>1. ConnectionsConserved'
  BY <1>0, ConnectionsKept
<1>2. PermitsConserved' /\ permits' \in 0 .. MaxStreams
  BY <1>0, PermitsKept
<1>3. FrozenInv' /\ WaitIsHopeless'
  BY StillFree
<1> QED  BY <1>0, <1>1, <1>2, <1>3, Assembled DEF TypeOK

LEMMA QuietMoves ==
  ASSUME IInv, NEW r \in Requests,
         \/ Arrive(r) \/ NothingToQuery(r) \/ ExecReturns(r) \/ Sent(r)
         \/ Disconnect(r) \/ CancelQueued(r) \/ DropSending(r)
  PROVE  IInv'
<1>0. TypeOK /\ LoopFree
  BY DEF IInv, Arrive, NothingToQuery, MayStart, ExecReturns, Sent, Disconnect,
         CancelQueued, DropSending
<1> USE DEF ReqState, Holding, Admitted, Awaiting, Ended
<1>1. CASE \/ Arrive(r) \/ NothingToQuery(r) \/ CancelQueued(r) \/ DropSending(r)
  <2>1. PICK s \in {"queued", "finished", "cancelled", "dropped"} :
          /\ Goto(r, s)
          /\ req[r] \in Holding <=> s \in Holding
          /\ req[r] \in Admitted <=> s \in Admitted
    BY <1>1 DEF Arrive, NothingToQuery, MayStart, CancelQueued, DropSending
  <2>2. UNCHANGED <<conn, pool, permits, frozen, gone, jobVars, endVars>>
    BY <1>1 DEF Arrive, NothingToQuery, CancelQueued, DropSending
  <2>3. job \in [Requests -> JobState] /\ "none" \in JobState
    BY <1>0 DEF TypeOK, JobState
  <2>4. Rest'
    BY <1>0, <2>1, <2>2, <2>3, RestMoves DEF jobVars, endVars
  <2> QED  BY <1>0, <2>1, <2>2, <2>4, MoveStep DEF Goto, TypeOK, endVars
<1>2. CASE ExecReturns(r) \/ Sent(r)
  <2>1. conn[r] \in Conns \cup {None}
    BY <1>0 DEF TypeOK
  <2>2. Rest'
    BY <1>0, <1>2, <2>1, RestLaunches DEF ExecReturns, Sent, endVars, JobState
  <2> QED  BY <1>0, <1>2, <2>2, MoveStep DEF ExecReturns, Sent, Goto, TypeOK, endVars
<1>3. CASE Disconnect(r)
  <2>1. gone' \in [Requests -> BOOLEAN]
    BY <1>0, <1>3 DEF Disconnect, TypeOK
  <2>2. Rest'
    BY <1>0, <1>3, <2>1 DEF Disconnect, Rest, TypeOK, jobVars, endVars
  <2> QED  BY <1>0, <1>3, <2>2, MoveStep DEF Disconnect, endVars
<1> QED  BY <1>1, <1>2, <1>3

-----------------------------------------------------------------------------
(* The frozen loop, and the ends of a request.                             *)

LEMMA FreezeStep ==
  ASSUME IInv, NEW r \in Requests, Freeze(r)
  PROVE  IInv'
<1>0. TypeOK /\ ConnectionsConserved /\ PermitsConserved
  BY DEF IInv
<1> USE DEF ReqState, Holding, Admitted, Awaiting
<1>1. Rest'
  BY <1>0 DEF Freeze, Goto, Rest, TypeOK, jobVars, endVars
<1>2. ConnectionsConserved'
  BY <1>0, ConnectionsKept DEF Freeze, MayStart, Goto, TypeOK, endVars
<1>3. PermitsConserved' /\ permits' \in 0 .. MaxStreams
  BY <1>0, PermitTaken DEF Freeze, MayStart
<1>4. FrozenInv' /\ WaitIsHopeless'
  BY <1>0 DEF Freeze, MayStart, Goto, TypeOK, FrozenInv, WaitIsHopeless
<1> QED
  BY <1>0, <1>1, <1>2, <1>3, <1>4, Assembled DEF Freeze, TypeOK

LEMMA ExhaustedStep ==
  ASSUME IInv, NEW r \in Requests, PoolExhausted(r)
  PROVE  IInv'
<1>0. TypeOK /\ ConnectionsConserved /\ PermitsConserved /\ req[r] = "frozen"
  BY NoneAssumption DEF IInv, FrozenInv, PoolExhausted
<1> USE DEF ReqState, Holding, Admitted, Awaiting, Ended
<1>1. Rest'
  BY <1>0 DEF PoolExhausted, Goto, Rest, TypeOK, jobVars, endVars
<1>2. ConnectionsConserved'
  BY <1>0, ConnectionsKept DEF PoolExhausted, Goto, TypeOK, endVars
<1>3. PermitsConserved' /\ permits' \in 0 .. MaxStreams
  BY <1>0, PermitReturned DEF PoolExhausted
<1>4. FrozenInv' /\ WaitIsHopeless'
  BY DEF PoolExhausted, FrozenInv, WaitIsHopeless
<1> QED
  BY <1>0, <1>1, <1>2, <1>3, <1>4, Assembled DEF PoolExhausted, TypeOK

(* The query's generator ends at an await, and the handler's with it.      *)
LEMMA EndStep ==
  ASSUME IInv, NEW r \in Requests, QueryEnds(r) \/ CancelAwaiting(r)
  PROVE  IInv'
<1>0. TypeOK /\ ConnectionsConserved /\ PermitsConserved /\ LoopFree
  BY DEF IInv, QueryEnds, CancelAwaiting
<1> USE DEF ReqState, Holding, Admitted, Awaiting, Ended
<1>1. PICK s \in {"finished", "failed", "cancelled"} :
        Goto(r, s) /\ ReturnConnection(r) /\ ReleasePermit
        /\ req[r] \in Awaiting /\ job' \in {job, [job EXCEPT ![r] = "none"]}
        /\ UNCHANGED <<gone, batches, jobConn, stmt, frozen, closed, shut>>
  BY DEF QueryEnds, CancelAwaiting, endVars
<1>2. Rest'
  BY <1>0, <1>1, RestMoves DEF JobState
<1>3. /\ ConnectionsConserved' /\ pool' \subseteq Conns
      /\ conn' \in [Requests -> Conns \cup {None}]
  BY <1>0, <1>1, ConnectionReturned
<1>4. PermitsConserved' /\ permits' \in 0 .. MaxStreams
  BY <1>0, <1>1, PermitReturned
<1> QED  BY <1>0, <1>1, <1>2, <1>3, <1>4, StillFree, Assembled

LEMMA FinalizeStep ==
  ASSUME IInv, NEW r \in Requests, FinalizeHandler(r) \/ FinalizeQuery(r)
  PROVE  IInv'
<1>0. TypeOK /\ ConnectionsConserved /\ PermitsConserved /\ LoopFree
      /\ UNCHANGED <<gone, frozen, job, batches, jobConn, stmt, closed, shut>>
  BY DEF IInv, FinalizeHandler, FinalizeQuery, jobVars, endVars
<1> USE DEF ReqState, Holding, Admitted, Awaiting, Ended
<1>1. CASE FinalizeHandler(r)
  <2>1. Goto(r, "orphan") /\ req[r] = "dropped" /\ ReleasePermit
        /\ UNCHANGED <<conn, pool>>
    BY <1>1 DEF FinalizeHandler
  <2>2. Rest'
    BY <1>0, <2>1, RestMoves DEF JobState
  <2>3. ConnectionsConserved'
    BY <1>0, <2>1, ConnectionsKept DEF Goto, TypeOK
  <2>4. PermitsConserved' /\ permits' \in 0 .. MaxStreams
    BY <1>0, <2>1, PermitReturned
  <2> QED  BY <1>0, <2>1, <2>2, <2>3, <2>4, StillFree, Assembled DEF TypeOK
<1>2. CASE FinalizeQuery(r)
  <2>1. Goto(r, "cancelled") /\ req[r] = "orphan" /\ ReturnConnection(r)
        /\ permits' = permits
    BY <1>2 DEF FinalizeQuery
  <2>2. Rest'
    BY <1>0, <2>1, RestMoves DEF JobState
  <2>3. /\ ConnectionsConserved' /\ pool' \subseteq Conns
        /\ conn' \in [Requests -> Conns \cup {None}]
    BY <1>0, <2>1, ConnectionReturned
  <2>4. PermitsConserved' /\ permits' \in 0 .. MaxStreams
    BY <1>0, <2>1, PermitsKept DEF Goto, TypeOK
  <2> QED  BY <1>0, <2>2, <2>3, <2>4, StillFree, Assembled
<1> QED  BY <1>1, <1>2

LEMMA BatchStep ==
  ASSUME IInv, NEW r \in Requests, GotBatch(r)
  PROVE  IInv'
<1>0. TypeOK /\ ConnectionsConserved /\ PermitsConserved /\ LoopFree
      /\ UNCHANGED <<gone, frozen, batches, jobConn, stmt, conn, pool, closed, shut>>
      /\ req[r] = "reading"
  BY DEF IInv, GotBatch, endVars
<1> USE DEF ReqState, Holding, Admitted, Awaiting
<1>1. PICK s \in {"orphan", "sending", "reading"}, j \in {"none", "read"} :
        /\ Goto(r, s) /\ job' = [job EXCEPT ![r] = j]
        /\ IF s = "orphan" THEN ReleasePermit ELSE permits' = permits
  BY DEF GotBatch
<1>2. Rest'
  BY <1>0, <1>1, RestMoves DEF JobState
<1>3. ConnectionsConserved'
  BY <1>0, <1>1, ConnectionsKept DEF Goto, TypeOK
<1>4. PermitsConserved' /\ permits' \in 0 .. MaxStreams
  <2>1. CASE s = "orphan"
    BY <1>0, <1>1, <2>1, PermitReturned
  <2>2. CASE s # "orphan"
    BY <1>0, <1>1, <2>2, PermitsKept DEF Goto, TypeOK
  <2> QED  BY <2>1, <2>2
<1> QED  BY <1>0, <1>2, <1>3, <1>4, StillFree, Assembled DEF TypeOK

-----------------------------------------------------------------------------
(* Threads and shutdown.                                                   *)

LEMMA ThreadStep ==
  ASSUME IInv, NEW r \in Requests, Thread(r)
  PROVE  IInv'
<1>0. TypeOK /\ UNCHANGED <<req, gone, conn, jobConn, pool, closed, permits,
                            frozen, shut>>
  BY DEF IInv, Thread, ThreadExecutes, ThreadReads, endVars
<1>1. PICK j \in JobState : job' = [job EXCEPT ![r] = j]
  BY DEF Thread, ThreadExecutes, ThreadReads, JobState
<1>2. job' \in [Requests -> JobState]
  BY <1>0, <1>1 DEF TypeOK
<1>3. stmt' \in [Conns -> Requests \cup {None}]
  BY <1>0 DEF Thread, ThreadExecutes, ThreadReads, TypeOK
<1>4. batches' \in [Requests -> 0 .. MaxBatches]
  BY <1>0, StreamsAssumption DEF Thread, ThreadExecutes, ThreadReads, TypeOK
<1> QED
  BY <1>0, <1>2, <1>3, <1>4 DEF IInv, TypeOK, ConnectionsConserved,
       PermitsConserved, FrozenInv, WaitIsHopeless

LEMMA ShutdownStep ==
  ASSUME IInv, Shutdown
  PROVE  IInv'
<1>0. TypeOK /\ ConnectionsConserved /\ LoopFree
      /\ UNCHANGED <<req, conn, batches, job, jobConn, stmt, permits, frozen>>
  BY DEF IInv, Shutdown, Signal, CloseAll, GraceExpires, Stopped, jobVars
<1>1. gone' \in [Requests -> BOOLEAN]
  BY <1>0 DEF Shutdown, Signal, CloseAll, GraceExpires, Stopped, TypeOK
<1>2. shut' \in {"up", "cleaning", "stopping", "down"}
  BY <1>0 DEF Shutdown, Signal, CloseAll, GraceExpires, Stopped, TypeOK
<1>3. pool' \subseteq Conns /\ closed' \subseteq Conns /\ ConnectionsConserved'
  <2>1. CASE CloseAll
    <3>1. pool' = {} /\ closed' = closed \cup pool
      BY <2>1 DEF CloseAll
    <3> QED  BY <1>0, <3>1 DEF TypeOK, ConnectionsConserved
  <2>2. CASE Signal \/ GraceExpires \/ Stopped
    BY <1>0, <2>2 DEF Signal, GraceExpires, Stopped, TypeOK, ConnectionsConserved
  <2> QED  BY <2>1, <2>2 DEF Shutdown
<1> QED
  BY <1>0, <1>1, <1>2, <1>3 DEF IInv, TypeOK, PermitsConserved, FrozenInv,
       WaitIsHopeless, LoopFree

LEMMA Inductive == Spec => []IInv
<1>1. IInv /\ [Next]_vars => IInv'
  <2> SUFFICES ASSUME IInv, [Next]_vars PROVE IInv'
    OBVIOUS
  <2>1. CASE UNCHANGED vars
    BY <2>1 DEF vars, IInv, TypeOK, ConnectionsConserved, PermitsConserved,
                FrozenInv, WaitIsHopeless
  <2>2. ASSUME NEW r \in Requests, Handler(r) PROVE IInv'
    BY <2>2, StartStep, QuietMoves, FreezeStep, ExhaustedStep, EndStep,
       BatchStep, FinalizeStep DEF Handler
  <2>3. ASSUME NEW r \in Requests, Arrive(r) \/ Client(r) PROVE IInv'
    BY <2>3, QuietMoves DEF Client
  <2> QED  BY <2>1, <2>2, <2>3, ThreadStep, ShutdownStep DEF Next, Quiet
<1> QED  BY <1>1, InitInv, PTL DEF Spec

-----------------------------------------------------------------------------
(* Every variable keeps its type.                                          *)
THEOREM TypeCorrect == Spec => []TypeOK
<1>1. IInv => TypeOK
  BY DEF IInv
<1> QED  BY <1>1, Inductive, PTL

(* No connection of the pool leaks and none is given out twice, however    *)
(* requests end (operator.py:158-159) and whenever the server is shut down *)
(* (operator.py:54-60).                                                    *)
THEOREM NoConnectionLost == Spec => []ConnectionsConserved
<1>1. IInv => ConnectionsConserved
  BY DEF IInv
<1> QED  BY <1>1, Inductive, PTL

(* The permits of the server's semaphore are conserved (server.py:73-151). *)
THEOREM NoPermitLost == Spec => []PermitsConserved
<1>1. IInv => PermitsConserved
  BY DEF IInv
<1> QED  BY <1>1, Inductive, PTL

(* get_connection on the loop never gets what it waits for                 *)
(* (operator.py:41-45).                                                    *)
THEOREM TheWaitIsHopeless == Spec => []WaitIsHopeless
<1>1. IInv => WaitIsHopeless
  BY DEF IInv
<1> QED  BY <1>1, Inductive, PTL

-----------------------------------------------------------------------------
(* The rate limiter.                                                       *)

\* Only the holder of the lock is inside allow_request.
Exclusive == \A t \in Threads : pc[t] # "out" => lock = t

\* The reading of the call inside is not older than the last refill, and is
\* the time of the last refill once the call has refilled.
Ordered ==
    /\ lastRefill <= clock
    /\ \A t \in Threads :
          /\ pc[t] = "timed" => lastRefill <= now[t] /\ now[t] <= clock
          /\ pc[t] = "refilled" => now[t] = lastRefill

\* No call that read a clock later than the last refill was granted anything.
Recorded ==
    \A s \in lastRefill + 1 .. MaxTime + 1 :
        spentBefore[s] = spentBefore[lastRefill + 1]

\* What the bucket holds can still be granted in any interval that ends at the
\* last refill, and in one of them it is all that can.
Covered ==
    \A s \in 0 .. lastRefill :
        Spent(s, lastRefill) + tokens <= Capacity + Rate * (lastRefill - s)
Exact ==
    \E s \in 0 .. lastRefill :
        Spent(s, lastRefill) + tokens = Capacity + Rate * (lastRefill - s)

BucketInv ==
    /\ BucketOK
    /\ Exclusive
    /\ Ordered
    /\ Recorded
    /\ Covered
    /\ Exact
    /\ RateBound
    /\ DenialsJustified

-----------------------------------------------------------------------------

LEMMA EarnedIsNat == ASSUME NEW a \in Nat PROVE Rate * a \in Nat
  BY BucketAssumption

LEMMA EarnedAddsUp ==
  ASSUME NEW a \in Int, NEW b \in Int, NEW c \in Int
  PROVE  Rate * (b - a) + (c - b) * Rate = Rate * (c - a)
  BY BucketAssumption

LEMMA EarnedGrows ==
  ASSUME NEW a \in Int, NEW b \in Int, NEW c \in Int, b <= c
  PROVE  Rate * (b - a) <= Rate * (c - a)
<1>1. Rate * (b - a) + (c - b) * Rate = Rate * (c - a)
  BY EarnedAddsUp
<1>2. c - b \in Nat
  OBVIOUS
<1>3. (c - b) * Rate \in Nat
  BY <1>2, BucketAssumption
<1>4. Rate * (b - a) \in Int
  BY BucketAssumption
<1> QED  BY <1>1, <1>3, <1>4

(***************************************************************************)
(* The invariant holds at the start: a full bucket and nothing granted.    *)
(***************************************************************************)
LEMMA BucketInvInit == BucketInit => BucketInv
<1> SUFFICES ASSUME BucketInit PROVE BucketInv
  OBVIOUS
<1> USE BucketAssumption
<1>1. BucketOK /\ Exclusive /\ Ordered /\ Recorded
  BY DEF BucketInit, BucketOK, Time, Exclusive, Ordered, Recorded
<1>2. Covered /\ Exact
  BY DEF BucketInit, Covered, Exact, Spent
<1>3. RateBound
  <2> SUFFICES ASSUME NEW s \in Time, NEW e \in s .. MaxTime
               PROVE  Spent(s, e) <= Capacity + Rate * (e - s)
    BY DEF RateBound
  <2>1. Spent(s, e) = 0
    BY DEF BucketInit, Spent, Time
  <2>2. Rate * (e - s) \in Nat
    BY EarnedIsNat DEF Time
  <2> QED  BY <2>1, <2>2
<1>4. DenialsJustified
  BY DEF BucketInit, DenialsJustified
<1> QED  BY <1>1, <1>2, <1>3, <1>4 DEF BucketInv

(***************************************************************************)
(* A refill to a reading n that is not older than the last one keeps the   *)
(* bucket within its bounds, covered and exact.                            *)
(***************************************************************************)
LEMMA RefillKeeps ==
  ASSUME BucketOK, Recorded, Covered, Exact,
         NEW n \in Time, lastRefill <= n,
         tokens' = Refilled(n), lastRefill' = n, spentBefore' = spentBefore
  PROVE  /\ tokens' \in 0 .. Capacity
         /\ Recorded' /\ Covered' /\ Exact'
<1> USE BucketAssumption
<1> DEFINE earned == (n - lastRefill) * Rate
<1>1. /\ lastRefill \in Nat /\ n \in Nat /\ n <= MaxTime
      /\ tokens \in 0 .. Capacity
      /\ spentBefore \in [0 .. MaxTime + 1 -> Nat]
  BY DEF BucketOK, Time
<1>2. n - lastRefill \in Nat
  BY <1>1
<1>3. earned \in Nat
  BY <1>2
<1>4. tokens' = IF Capacity <= tokens + earned THEN Capacity ELSE tokens + earned
  BY DEF Refilled, Least
<1> HIDE DEF earned
<1>5. tokens' \in 0 .. Capacity /\ tokens' <= tokens + earned
  BY <1>1, <1>3, <1>4
<1>6. \A s \in 0 .. lastRefill :
         /\ Rate * (lastRefill - s) \in Nat
         /\ Rate * (n - s) = Rate * (lastRefill - s) + earned
  BY <1>1, EarnedAddsUp, EarnedIsNat DEF earned
<1>7. \A s \in lastRefill + 1 .. MaxTime + 1 :
         spentBefore[s] = spentBefore[lastRefill + 1]
  BY DEF Recorded
<1>8. spentBefore[n + 1] = spentBefore[lastRefill + 1]
  BY <1>1, <1>7
<1>9. Recorded'
  <2> SUFFICES ASSUME NEW s \in n + 1 .. MaxTime + 1
               PROVE  spentBefore[s] = spentBefore[n + 1]
    BY DEF Recorded
  <2> QED  BY <1>1, <1>7, <1>8
<1>10. Covered'
  <2> SUFFICES ASSUME NEW s \in 0 .. n
               PROVE  spentBefore[n + 1] - spentBefore[s] + tokens'
                         <= Capacity + Rate * (n - s)
    BY DEF Covered, Spent
  <2> /\ spentBefore[n + 1] \in Nat /\ spentBefore[s] \in Nat
      /\ spentBefore[lastRefill + 1] \in Nat
    BY <1>1
  <2>1. CASE s <= lastRefill
    <3>1. spentBefore[lastRefill + 1] - spentBefore[s] + tokens
             <= Capacity + Rate * (lastRefill - s)
      BY <1>1, <2>1 DEF Covered, Spent
    <3>2. /\ Rate * (lastRefill - s) \in Nat
          /\ Rate * (n - s) = Rate * (lastRefill - s) + earned
      BY <1>1, <1>6, <2>1
    <3> HIDE BucketAssumption
    <3>3. /\ tokens \in Int /\ tokens' \in Int /\ Capacity \in Int
      BY <1>1, <1>5, BucketAssumption
    <3> QED  BY <1>3, <1>5, <1>8, <3>1, <3>2, <3>3
  <2>2. CASE s > lastRefill
    <3>1. spentBefore[s] = spentBefore[lastRefill + 1]
      BY <1>1, <1>7, <2>2
    <3>2. n - s \in Nat
      BY <1>1
    <3>3. Rate * (n - s) \in Nat
      BY <3>2, EarnedIsNat
    <3>4. spentBefore[n + 1] - spentBefore[s] = 0
      BY <1>8, <3>1
    <3> QED  BY <1>5, <3>3, <3>4
  <2> QED  BY <1>1, <2>1, <2>2
<1>11. Exact'
  <2> SUFFICES \E s \in 0 .. n :
                  spentBefore[n + 1] - spentBefore[s] + tokens'
                     = Capacity + Rate * (n - s)
    BY DEF Exact, Spent
  <2>1. CASE tokens' = tokens + earned
    <3>1. PICK s \in 0 .. lastRefill :
             spentBefore[lastRefill + 1] - spentBefore[s] + tokens
                = Capacity + Rate * (lastRefill - s)
      BY DEF Exact, Spent
    <3>2. s \in 0 .. n
      BY <1>1
    <3>3. /\ spentBefore[n + 1] \in Nat /\ spentBefore[s] \in Nat
          /\ spentBefore[lastRefill + 1] \in Nat
      BY <1>1
    <3>4. /\ Rate * (lastRefill - s) \in Nat
          /\ Rate * (n - s) = Rate * (lastRefill - s) + earned
      BY <1>6
    <3>5. spentBefore[n + 1] - spentBefore[s] + tokens'
             = Capacity + Rate * (n - s)
      <4> HIDE BucketAssumption
      <4>1. tokens \in Int /\ Capacity \in Int
        BY <1>1, BucketAssumption
      <4> QED  BY <1>3, <1>8, <2>1, <3>1, <3>3, <3>4, <4>1
    <3> QED  BY <3>2, <3>5
  <2>2. CASE tokens' # tokens + earned
    <3>1. tokens' = Capacity
      BY <1>4, <2>2
    <3>2. n # lastRefill
      <4> SUFFICES ASSUME n = lastRefill PROVE FALSE
        OBVIOUS
      <4>1. earned = 0
        BY <1>1 DEF earned
      <4> QED  BY <1>1, <1>4, <2>2, <4>1
    <3>3. spentBefore[n] = spentBefore[lastRefill + 1]
      BY <1>1, <1>7, <3>2
    <3>4. Rate * (n - n) = 0
      BY <1>1
    <3>5. n \in 0 .. n
      BY <1>1
    <3> QED  BY <1>1, <1>8, <3>1, <3>3, <3>4, <3>5
  <2> QED  BY <2>1, <2>2
<1> QED  BY <1>5, <1>9, <1>10, <1>11

(***************************************************************************)
(* A grant of Cost to a call whose reading is the last refill: the bucket  *)
(* pays for it in every interval it falls into.                            *)
(***************************************************************************)
LEMMA GrantKeeps ==
  ASSUME BucketOK, Recorded, Covered, Exact, RateBound, DenialsJustified,
         tokens >= Cost, tokens' = tokens - Cost,
         spentBefore' = [s \in DOMAIN spentBefore |->
                           spentBefore[s] + (IF s > lastRefill THEN Cost ELSE 0)],
         lastRefill' = lastRefill, denied' = denied
  PROVE  /\ tokens' \in 0 .. Capacity
         /\ spentBefore' \in [0 .. MaxTime + 1 -> Nat]
         /\ Recorded' /\ Covered' /\ Exact' /\ RateBound' /\ DenialsJustified'
<1>1. /\ lastRefill \in Nat /\ lastRefill <= MaxTime /\ MaxTime \in Nat
      /\ tokens \in 0 .. Capacity /\ Capacity \in Nat
      /\ Cost \in Nat /\ Cost > 0
      /\ spentBefore \in [0 .. MaxTime + 1 -> Nat]
      /\ denied \subseteq 0 .. MaxTime
  BY BucketAssumption DEF BucketOK, Time
<1>2. tokens' \in 0 .. Capacity
  BY <1>1
<1>3. \A s \in 0 .. MaxTime + 1 :
         spentBefore'[s] = spentBefore[s] + (IF s > lastRefill THEN Cost ELSE 0)
  BY <1>1
<1>4. spentBefore' \in [0 .. MaxTime + 1 -> Nat]
  BY <1>1
<1>5. \A s \in lastRefill + 1 .. MaxTime + 1 :
         spentBefore[s] = spentBefore[lastRefill + 1]
  BY DEF Recorded
<1>6. Recorded'
  BY <1>1, <1>3, <1>5 DEF Recorded
<1>7. \A s \in 0 .. lastRefill :
         Spent(s, lastRefill)' = Spent(s, lastRefill) + Cost
  BY <1>1, <1>3 DEF Spent
<1>8. \A s \in 0 .. lastRefill : Spent(s, lastRefill) \in Int
  BY <1>1 DEF Spent
<1>9. \A s \in 0 .. lastRefill :
         Spent(s, lastRefill)' + tokens' = Spent(s, lastRefill) + tokens
  BY <1>1, <1>7, <1>8
<1>10. Covered'
  BY <1>9 DEF Covered
<1>11. Exact'
  BY <1>9 DEF Exact
<1>12. \A e \in 0 .. MaxTime : \A s \in 0 .. e : Spent(s, e)' >= Spent(s, e)
  BY <1>1, <1>3 DEF Spent
<1>13. RateBound'
  <2> SUFFICES ASSUME NEW s \in 0 .. MaxTime, NEW e \in s .. MaxTime
               PROVE  Spent(s, e)' <= Capacity + Rate * (e - s)
    BY DEF RateBound, Time
  <2>1. Spent(s, e) <= Capacity + Rate * (e - s)
    BY DEF RateBound, Time
  <2>2. CASE e < lastRefill \/ s > lastRefill
    <3>1. Spent(s, e)' = Spent(s, e)
      BY <1>1, <1>3, <2>2 DEF Spent
    <3> QED  BY <2>1, <3>1
  <2>3. CASE s <= lastRefill /\ lastRefill <= e
    <3>1. s \in 0 .. lastRefill
      BY <1>1, <2>3
    <3>2. Spent(s, e)' = Spent(s, lastRefill)'
      <4>1. e + 1 \in lastRefill + 1 .. MaxTime + 1
        BY <1>1, <2>3
      <4>2. spentBefore[e + 1] = spentBefore[lastRefill + 1]
        BY <1>5, <4>1
      <4>3. spentBefore'[e + 1] = spentBefore'[lastRefill + 1]
        BY <1>1, <1>3, <4>1, <4>2
      <4> QED  BY <4>3 DEF Spent
    <3>3. Spent(s, lastRefill)' + tokens' <= Capacity + Rate * (lastRefill - s)
      BY <1>9, <3>1 DEF Covered
    <3>4. Rate * (lastRefill - s) <= Rate * (e - s)
      <4>1. s \in Int /\ e \in Int /\ lastRefill \in Int /\ lastRefill <= e
        BY <1>1, <2>3
      <4> QED  BY <4>1, EarnedGrows
    <3>5. Rate * (lastRefill - s) \in Int /\ Rate * (e - s) \in Int
      BY <1>1, BucketAssumption
    <3>6. Spent(s, lastRefill)' \in Int
      BY <1>7, <1>8, <1>1, <3>1
    <3>7. tokens' \in Nat /\ Capacity \in Int
      BY <1>1, <1>2
    <3> QED  BY <3>2, <3>3, <3>4, <3>5, <3>6, <3>7
  <2> QED  BY <1>1, <2>2, <2>3
<1>14. DenialsJustified'
  <2> SUFFICES ASSUME NEW e \in denied
               PROVE  \E s \in 0 .. e :
                         Capacity + Rate * (e - s) - Spent(s, e)' < Cost
    BY DEF DenialsJustified
  <2>1. PICK s \in 0 .. e : Capacity + Rate * (e - s) - Spent(s, e) < Cost
    BY DEF DenialsJustified
  <2>2. e \in 0 .. MaxTime
    BY <1>1
  <2>3. Spent(s, e)' >= Spent(s, e)
    BY <1>12, <2>2
  <2>4. Spent(s, e) \in Int /\ Spent(s, e)' \in Int
    BY <1>1, <1>4, <2>2, SMTT(20) DEF Spent
  <2>5. Rate * (e - s) \in Int
    BY <2>2, BucketAssumption
  <2>6. Capacity + Rate * (e - s) - Spent(s, e)' < Cost
    BY <1>1, <2>1, <2>3, <2>4, <2>5
  <2> QED  BY <2>6
<1> QED  BY <1>2, <1>4, <1>6, <1>10, <1>11, <1>13, <1>14

(***************************************************************************)
(* A denial happens when the bucket is short, and Exact names the interval *)
(* that used it up.                                                        *)
(***************************************************************************)
LEMMA DenialKeeps ==
  ASSUME BucketOK, Exact, DenialsJustified, tokens < Cost,
         denied' = denied \cup {lastRefill}, spentBefore' = spentBefore
  PROVE  denied' \subseteq Time /\ DenialsJustified'
<1>1. /\ lastRefill \in 0 .. MaxTime /\ MaxTime \in Nat
      /\ tokens \in Int /\ Capacity \in Int /\ Cost \in Int
      /\ spentBefore \in [0 .. MaxTime + 1 -> Nat]
  BY BucketAssumption DEF BucketOK, Time
<1>2. PICK s \in 0 .. lastRefill :
         Spent(s, lastRefill) + tokens = Capacity + Rate * (lastRefill - s)
  BY DEF Exact
<1>3. Spent(s, lastRefill) \in Int /\ Rate * (lastRefill - s) \in Int
  BY <1>1, BucketAssumption DEF Spent
<1>4. Capacity + Rate * (lastRefill - s) - Spent(s, lastRefill) < Cost
  BY <1>1, <1>2, <1>3
<1>5. \A a, b : Spent(a, b)' = Spent(a, b)
  BY DEF Spent
<1> QED  BY <1>1, <1>4, <1>5 DEF DenialsJustified, BucketOK, Time

(***************************************************************************)
(* Every step keeps the invariant.                                         *)
(***************************************************************************)
LEMMA BucketInvStep == BucketInv /\ [BucketNext]_bucketVars => BucketInv'
<1> SUFFICES ASSUME BucketInv, [BucketNext]_bucketVars PROVE BucketInv'
  OBVIOUS
<1> USE BucketAssumption
<1> DEFINE Metered == /\ Recorded /\ Covered /\ Exact
                      /\ RateBound /\ DenialsJustified
<1>0. BucketOK /\ Exclusive /\ Ordered /\ Metered
  BY DEF BucketInv
<1>1. ASSUME UNCHANGED <<tokens, lastRefill, history>> PROVE Metered'
  BY <1>0, <1>1 DEF history, Recorded, Covered, Exact, RateBound,
                    DenialsJustified, Spent
<1>2. CASE Tick
  <2>1. Metered'
    BY <1>1, <1>2 DEF Tick
  <2>2. BucketOK' /\ Exclusive' /\ Ordered'
    BY <1>0, <1>2 DEF Tick, BucketOK, Time, Exclusive, Ordered, history
  <2> QED  BY <2>1, <2>2 DEF BucketInv
<1>3. ASSUME NEW t \in Threads, Enter(t) PROVE BucketInv'
  <2>1. Metered'
    BY <1>1, <1>3 DEF Enter
  <2>2. BucketOK' /\ Exclusive' /\ Ordered'
    BY <1>0, <1>3 DEF Enter, LockFree, BucketOK, Exclusive, Ordered, history
  <2> QED  BY <2>1, <2>2 DEF BucketInv
<1>4. ASSUME NEW t \in Threads, ReadClock(t) PROVE BucketInv'
  <2>1. Metered'
    BY <1>1, <1>4 DEF ReadClock
  <2>2. BucketOK' /\ Exclusive' /\ Ordered'
    BY <1>0, <1>4 DEF ReadClock, BucketOK, Time, Exclusive, Ordered, history
  <2> QED  BY <2>1, <2>2 DEF BucketInv
<1>5. ASSUME NEW t \in Threads, Refill(t) PROVE BucketInv'
  <2>1. /\ now[t] \in Time /\ lastRefill <= now[t] /\ now[t] <= clock
        /\ \A u \in Threads \ {t} : pc[u] = "out"
    BY <1>0, <1>5 DEF Refill, BucketOK, Exclusive, Ordered
  <2>2. tokens' = Refilled(now[t]) /\ lastRefill' = now[t] /\ UNCHANGED history
    BY <1>5 DEF Refill, RefillTime
  <2>3. tokens' \in 0 .. Capacity /\ Recorded' /\ Covered' /\ Exact'
    BY <1>0, <2>1, <2>2, RefillKeeps DEF history
  <2>4. RateBound' /\ DenialsJustified'
    BY <1>0, <2>2 DEF history, RateBound, DenialsJustified, Spent
  <2>5. BucketOK'
    BY <1>0, <1>5, <2>1, <2>2, <2>3 DEF Refill, BucketOK, history
  <2>6. Exclusive' /\ Ordered'
    BY <1>0, <1>5, <2>1, <2>2 DEF Refill, BucketOK, Exclusive, Ordered
  <2> QED  BY <2>3, <2>4, <2>5, <2>6 DEF BucketInv
<1>6. ASSUME NEW t \in Threads, Allow(t) PROVE BucketInv'
  <2>1. now[t] = lastRefill /\ \A u \in Threads \ {t} : pc[u] = "out"
    BY <1>0, <1>6 DEF Allow, Exclusive, Ordered
  <2>2. /\ tokens' \in 0 .. Capacity
        /\ spentBefore' \in [0 .. MaxTime + 1 -> Nat]
        /\ Metered'
    BY <1>0, <1>6, <2>1, GrantKeeps DEF Allow, Leave
  <2>3. BucketOK' /\ Exclusive' /\ Ordered'
    BY <1>0, <1>6, <2>1, <2>2 DEF Allow, Leave, BucketOK, Exclusive, Ordered
  <2> QED  BY <2>2, <2>3 DEF BucketInv
<1>7. ASSUME NEW t \in Threads, Deny(t) PROVE BucketInv'
  <2>1. now[t] = lastRefill /\ \A u \in Threads \ {t} : pc[u] = "out"
    BY <1>0, <1>7 DEF Deny, Exclusive, Ordered
  <2>2. denied' \subseteq Time /\ DenialsJustified'
    BY <1>0, <1>7, <2>1, DenialKeeps DEF Deny
  <2>3. Recorded' /\ Covered' /\ Exact' /\ RateBound'
    BY <1>0, <1>7 DEF Deny, Leave, Recorded, Covered, Exact, RateBound, Spent
  <2>4. BucketOK' /\ Exclusive' /\ Ordered'
    BY <1>0, <1>7, <2>1, <2>2 DEF Deny, Leave, BucketOK, Exclusive, Ordered
  <2> QED  BY <2>2, <2>3, <2>4 DEF BucketInv
<1>8. CASE UNCHANGED bucketVars
  <2>1. Metered'
    BY <1>1, <1>8 DEF bucketVars, history
  <2>2. BucketOK' /\ Exclusive' /\ Ordered'
    BY <1>0, <1>8 DEF bucketVars, BucketOK, Exclusive, Ordered
  <2> QED  BY <2>1, <2>2 DEF BucketInv
<1> QED
  BY <1>2, <1>3, <1>4, <1>5, <1>6, <1>7, <1>8 DEF BucketNext

LEMMA BucketInductive == BucketSpec => []BucketInv
<1>1. BucketInit => BucketInv
  BY BucketInvInit
<1>2. BucketInv /\ [BucketNext]_bucketVars => BucketInv'
  BY BucketInvStep
<1> QED  BY <1>1, <1>2, PTL DEF BucketSpec

(***************************************************************************)
(* Every variable keeps its type; in particular the bucket never holds     *)
(* more than Capacity and never goes into debt.                            *)
(***************************************************************************)
THEOREM BucketTypeCorrect == BucketSpec => []BucketOK
<1>1. BucketInv => BucketOK
  BY DEF BucketInv
<1> QED  BY <1>1, BucketInductive, PTL

(***************************************************************************)
(* allow_request never grants more than a full bucket and what the         *)
(* interval earns, in any interval of time.                                *)
(***************************************************************************)
THEOREM NeverTooMuch == BucketSpec => []RateBound
<1>1. BucketInv => RateBound
  BY DEF BucketInv
<1> QED  BY <1>1, BucketInductive, PTL

(***************************************************************************)
(* allow_request never denies a request that every interval could afford.  *)
(***************************************************************************)
THEOREM NeverTooLittle == BucketSpec => []DenialsJustified
<1>1. BucketInv => DenialsJustified
  BY DEF BucketInv
<1> QED  BY <1>1, BucketInductive, PTL

=============================================================================

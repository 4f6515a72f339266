-------------------------- MODULE PgGateway_proofs --------------------------
(***************************************************************************)
(* Theorems about PgGateway, for any requests, engines and signals.        *)
(***************************************************************************)
EXTENDS PgGateway, TLAPS

\* Only the holder of the lock builds; until the first cleanup, it does so only
\* if nothing was installed.
LockInv ==
  /\ \A r \in Requests : req[r] = "building" => lock = r
  /\ lock # None => built > 0 /\ (signals = 0 => factory = 0)

\* What the second look under the lock relies on: until the first cleanup an
\* engine that was installed is found by everybody who gets the lock.
InstalledInv == factory # 0 /\ signals = 0 => initialized

\* A request has a session only while it uses one, or after it was cancelled
\* where on_query does not close it.
SessionInv ==
  \A r \in Requests :
    session[r] # 0 =>
      \/ req[r] \in {"opening"} \cup Busy
      \/ req[r] = "cancelled" /\ gone[r] /\ r \in Streamed

\* Every cleanup in progress was started by a signal of its own.
CleanupInv == cleanups <= signals

IInv == TypeOK /\ CleanupInv /\ LockInv /\ FlagMeansEngine /\ InstalledInv /\ SessionInv

LEMMA TypeInit == Init => TypeOK
<1> SUFFICES ASSUME Init PROVE TypeOK
  OBVIOUS
<1>1. initialized \in BOOLEAN /\ gone \in [Requests -> BOOLEAN]
  BY DEF Init
<1>2. req \in [Requests -> ReqState] /\ session \in [Requests -> Engines \cup {0}]
  BY DEF Init, ReqState
<1>3. /\ engine \in Engines \cup {0} /\ factory \in Engines \cup {0}
      /\ lock \in {r \in Requests : req[r] = "building"} \cup {None}
      /\ built \in 0 .. MaxEngines /\ disposed \subseteq Engines
      /\ cleanups \in 0 .. MaxSignals /\ signals \in 0 .. MaxSignals
  BY SizeAssumption DEF Init
<1> QED  BY <1>1, <1>2, <1>3 DEF TypeOK

LEMMA IInvInit == Init => IInv
  BY TypeInit
  DEF Init, IInv, CleanupInv, LockInv, FlagMeansEngine, InstalledInv, SessionInv, Busy

LEMMA TypeStep == TypeOK /\ LockInv /\ CleanupInv /\ [Next]_vars => TypeOK'
<1> SUFFICES ASSUME TypeOK, LockInv, CleanupInv, [Next]_vars PROVE TypeOK'
  OBVIOUS
<1> USE SizeAssumption, RequestsAssumption DEF TypeOK, Engines, ReqState, Busy, Ended
<1>1. ASSUME NEW r \in Requests, EnterInitialized(r) \/ EnterWaiting(r)
      PROVE  TypeOK'
  BY <1>1, ZenonT(30) DEF EnterInitialized, EnterWaiting, OpenSession, Goto, initVars, downVars
<1>2. ASSUME NEW r \in Requests, LockAndSkip(r)
      PROVE  TypeOK'
  BY <1>2 DEF LockAndSkip, OpenSession, Goto, initVars, downVars
<1>3. ASSUME NEW r \in Requests, LockAndBuild(r)
      PROVE  TypeOK'
  <2>1. built' \in 0 .. MaxEngines
    BY <1>3 DEF LockAndBuild
  <2>2. req' \in [Requests -> ReqState] /\ req'[r] = "building" /\ lock' = r
    BY <1>3 DEF LockAndBuild, Goto
  <2> QED  BY <1>3, <2>1, <2>2 DEF LockAndBuild, downVars
<1>8. ASSUME NEW r \in Requests, Built(r)
      PROVE  TypeOK'
  <2>1. built \in Engines
    BY <1>8 DEF Built, LockInv
  <2> QED  BY <1>8, <2>1 DEF Built, Unlock, Goto, downVars
<1>9. ASSUME NEW r \in Requests, BuildFails(r)
      PROVE  TypeOK'
  BY <1>9 DEF BuildFails, Unlock, Goto, downVars
<1>4. ASSUME NEW r \in Requests, Opened(r) \/ OpenFails(r) \/ Leave(r) \/ Closed(r)
      PROVE  TypeOK'
  <2>1. CASE Opened(r) \/ Leave(r)
    BY <2>1, ZenonT(30) DEF Opened, Leave, Goto, initVars, downVars
  <2>2. CASE OpenFails(r)
    BY <2>2 DEF OpenFails, CloseSession, Goto, initVars, downVars
  <2>3. CASE Closed(r)
    <3>1. PICK s \in Ended : Goto(r, s)
      BY <2>3 DEF Closed
    <3>2. /\ req' \in [Requests -> ReqState]
          /\ session' \in [Requests -> Engines \cup {0}]
          /\ \A q \in Requests : req[q] = "building" => req'[q] = "building"
      BY <2>3, <3>1 DEF Closed, CloseSession, Goto
    <3> QED  BY <2>3, <3>2 DEF Closed, initVars, downVars
  <2> QED  BY <1>4, <2>1, <2>2, <2>3
<1>5. ASSUME NEW r \in Requests, Cancel(r)
      PROVE  TypeOK'
  <2>1. PICK s \in {"cancelled", "closing"} : Goto(r, s)
    BY <1>5 DEF Cancel, CancelWaiting, CancelBuilding, CancelOpening, CancelStreaming
  <2>2. /\ gone' = [gone EXCEPT ![r] = TRUE]
        /\ UNCHANGED <<session, initialized, engine, factory, built, disposed,
                       cleanups, signals>>
        /\ lock' = None \/ (lock' = lock /\ req[r] # "building")
    BY <1>5 DEF Cancel, CancelWaiting, CancelBuilding, CancelOpening,
                CancelStreaming, Unlock, initVars, downVars
  <2>3. gone' \in [Requests -> BOOLEAN]
    BY <2>2
  <2>4. req' \in [Requests -> ReqState]
        /\ \A q \in Requests : req[q] = "building" /\ q # r => req'[q] = "building"
    BY <2>1 DEF Goto
  <2> QED  BY <2>2, <2>3, <2>4
<1>6. CASE CleanupNothing \/ CleanupEnds
  <2>1. initialized' \in BOOLEAN
    BY <1>6 DEF CleanupNothing, CleanupEnds
  <2>2. CASE CleanupNothing
    BY <2>1, <2>2 DEF CleanupNothing
  <2>3. CASE CleanupEnds
    BY <2>1, <2>3 DEF CleanupEnds, ForgetEngine
  <2> QED  BY <1>6, <2>2, <2>3
<1>10. CASE CleanupStarts
  <2>1. disposed' \subseteq Engines
    BY <1>10 DEF CleanupStarts
  <2>2. signals' \in 0 .. MaxSignals /\ cleanups' \in 0 .. MaxSignals
    BY <1>10 DEF CleanupStarts, CleanupInv
  <2> QED  BY <1>10, <2>1, <2>2 DEF CleanupStarts, initVars
<1>7. CASE UNCHANGED vars
  BY <1>7 DEF vars
<1> QED
  BY <1>1, <1>2, <1>3, <1>4, <1>5, <1>6, <1>7, <1>8, <1>9, <1>10
  DEF Next, Request, Quiet, Cleanup

LEMMA CleanupStep == TypeOK /\ CleanupInv /\ [Next]_vars => CleanupInv'
<1> SUFFICES ASSUME TypeOK, CleanupInv, [Next]_vars PROVE CleanupInv'
  OBVIOUS
<1>1. \/ UNCHANGED <<cleanups, signals>>
      \/ cleanups' \in {cleanups, cleanups + 1} /\ signals' = signals + 1
      \/ cleanups' = cleanups - 1 /\ signals' = signals
  BY DEF Next, Request, Cancel, Cleanup, Quiet, vars, downVars, EnterInitialized,
         EnterWaiting, LockAndSkip, LockAndBuild, Built, BuildFails, Opened,
         OpenFails, Leave, Closed, CancelWaiting, CancelBuilding, CancelOpening,
         CancelStreaming, CleanupNothing, CleanupStarts, CleanupEnds
<1>2. cleanups \in Int /\ signals \in Int
  BY DEF TypeOK
<1> QED  BY <1>1, <1>2 DEF CleanupInv

(* A step changes the lock, the flag and the engines together, or none.    *)
LEMMA InstallStep ==
  ASSUME TypeOK, [Next]_vars
  PROVE  \/ UNCHANGED <<initialized, engine, factory, lock>>
         \/ \E r \in Requests : LockAndBuild(r)
         \/ \E r \in Requests : Built(r)
         \/ \E r \in Requests :
              /\ req[r] = "building" /\ lock' = None
              /\ UNCHANGED <<initialized, engine, factory>>
         \/ CleanupNothing \/ CleanupEnds
  BY DEF Next, Request, Cancel, Cleanup, Quiet, vars, initVars, EnterInitialized,
         EnterWaiting, LockAndSkip, BuildFails, Opened, OpenFails, Leave,
         Closed, CancelWaiting, CancelBuilding, CancelOpening, CancelStreaming,
         CleanupStarts, Unlock

LEMMA FlagStep ==
  TypeOK /\ LockInv /\ FlagMeansEngine /\ [Next]_vars => FlagMeansEngine'
<1> SUFFICES ASSUME TypeOK, LockInv, FlagMeansEngine, [Next]_vars
             PROVE  FlagMeansEngine'
  OBVIOUS
<1>1. ASSUME NEW r \in Requests, LockAndBuild(r) PROVE FlagMeansEngine'
  BY <1>1 DEF LockAndBuild, FlagMeansEngine
<1>2. ASSUME NEW r \in Requests, Built(r) PROVE FlagMeansEngine'
  <2>1. lock # None
    BY <1>2, RequestsAssumption DEF Built, LockInv
  <2>2. built # 0
    BY <2>1 DEF LockInv, TypeOK
  <2> QED  BY <1>2, <2>2 DEF Built, FlagMeansEngine
<1>3. CASE CleanupNothing
  BY <1>3 DEF CleanupNothing, FlagMeansEngine
<1>4. CASE CleanupEnds
  BY <1>4 DEF CleanupEnds, ForgetEngine, FlagMeansEngine
<1>5. CASE UNCHANGED <<initialized, engine, factory>>
  BY <1>5 DEF FlagMeansEngine
<1> QED  BY <1>1, <1>2, <1>3, <1>4, <1>5, InstallStep
LEMMA InstalledStep ==
  TypeOK /\ CleanupInv /\ LockInv /\ InstalledInv /\ [Next]_vars
    => InstalledInv' /\ (factory # 0 /\ signals' = 0 => factory' = factory)
<1> SUFFICES ASSUME TypeOK, CleanupInv, LockInv, InstalledInv, [Next]_vars
             PROVE  InstalledInv' /\ (factory # 0 /\ signals' = 0
                                        => factory' = factory)
  OBVIOUS
<1>1. signals' = 0 => signals = 0 /\ ~CleanupNothing /\ ~CleanupStarts
  BY DEF TypeOK, Next, Request, Cancel, Cleanup, Quiet, vars, downVars,
         EnterInitialized, EnterWaiting, LockAndSkip, LockAndBuild, Built,
         BuildFails, Opened, OpenFails, Leave, Closed, CancelWaiting,
         CancelBuilding, CancelOpening, CancelStreaming, CleanupNothing,
         CleanupStarts, CleanupEnds
<1>2. ASSUME NEW r \in Requests, LockAndBuild(r)
      PROVE  UNCHANGED <<initialized, factory>>
  BY <1>2 DEF LockAndBuild
<1>3. ASSUME NEW r \in Requests, Built(r), signals = 0
      PROVE  initialized' /\ factory = 0
  BY <1>3, RequestsAssumption DEF Built, LockInv
<1>4. CleanupEnds => signals' # 0
  BY DEF CleanupEnds, CleanupInv, TypeOK
<1> QED  BY <1>1, <1>2, <1>3, <1>4, InstallStep DEF InstalledInv

LEMMA LockStep ==
  TypeOK /\ LockInv /\ InstalledInv /\ [Next]_vars => LockInv'
<1> SUFFICES ASSUME TypeOK, LockInv, InstalledInv, [Next]_vars PROVE LockInv'
  OBVIOUS
<1> USE RequestsAssumption
<1>1. \A r \in Requests : req'[r] = "building" =>
        req[r] = "building" \/ LockAndBuild(r)
  BY DEF Next, Request, Cancel, Cleanup, Quiet, vars, Goto, OpenSession,
         EnterInitialized, EnterWaiting, LockAndSkip, LockAndBuild, Built,
         BuildFails, Opened, OpenFails, Leave, Closed, CancelWaiting,
         CancelBuilding, CancelOpening, CancelStreaming, CleanupNothing,
         CleanupStarts, CleanupEnds, TypeOK
<1>2. ASSUME NEW r \in Requests, LockAndBuild(r) PROVE LockInv'
  <2>1. lock = None /\ lock' = r /\ built' = built + 1 /\ built \in Nat
        /\ ~initialized /\ factory' = factory /\ signals' = signals
    BY <1>2 DEF LockAndBuild, SecondLook, downVars, TypeOK
  <2>2. signals' = 0 => factory' = 0
    BY <2>1 DEF InstalledInv
  <2>3. \A q \in Requests : req'[q] = "building" => q = r
    BY <1>1, <1>2, <2>1 DEF LockInv, LockAndBuild, Goto
  <2> QED  BY <2>1, <2>2, <2>3 DEF LockInv
<1>3. ASSUME NEW r \in Requests, req[r] = "building", lock' = None,
             req'[r] # "building", ~ \E q \in Requests : LockAndBuild(q)
      PROVE  LockInv'
  BY <1>1, <1>3 DEF LockInv
<1>4. ASSUME UNCHANGED <<factory, lock, built>>, signals' = 0 => signals = 0,
             ~ \E q \in Requests : LockAndBuild(q)
      PROVE  LockInv'
  BY <1>1, <1>4 DEF LockInv
<1>5. ASSUME NEW r \in Requests, Built(r) \/ BuildFails(r) \/ CancelBuilding(r)
      PROVE  LockInv'
  BY <1>3, <1>5 DEF Built, BuildFails, CancelBuilding, LockAndBuild, Unlock,
                    Goto, TypeOK
<1>6. ASSUME NEW r \in Requests,
             \/ EnterInitialized(r) \/ EnterWaiting(r) \/ LockAndSkip(r)
             \/ Opened(r) \/ OpenFails(r) \/ Leave(r) \/ Closed(r)
             \/ CancelWaiting(r) \/ CancelOpening(r) \/ CancelStreaming(r)
      PROVE  LockInv'
  BY <1>4, <1>6 DEF EnterInitialized, EnterWaiting, LockAndSkip, Opened,
       OpenFails, Leave, Closed, CancelWaiting, CancelOpening, CancelStreaming,
       initVars, downVars, LockAndBuild
<1>7. CASE Cleanup \/ UNCHANGED vars
  BY <1>4, <1>7 DEF Cleanup, CleanupNothing, CleanupStarts, CleanupEnds, vars,
       initVars, LockAndBuild, TypeOK
<1> QED  BY <1>2, <1>5, <1>6, <1>7 DEF Next, Request, Cancel, Quiet
LEMMA SessionStep == TypeOK /\ SessionInv /\ [Next]_vars => SessionInv'
<1> SUFFICES ASSUME TypeOK, SessionInv, [Next]_vars PROVE SessionInv'
  OBVIOUS
<1> DEFINE Good(r) == session[r] # 0 =>
                        \/ req[r] \in {"opening"} \cup Busy
                        \/ req[r] = "cancelled" /\ gone[r] /\ r \in Streamed
<1>0. \A r \in Requests : Good(r)
  BY DEF SessionInv
<1>1. ASSUME NEW r \in Requests,
             \A q \in Requests \ {r} :
               req'[q] = req[q] /\ session'[q] = session[q] /\ gone'[q] = gone[q],
             Good(r)'
      PROVE  SessionInv'
  BY <1>0, <1>1 DEF SessionInv
<1>2. ASSUME NEW r \in Requests,
             EnterInitialized(r) \/ LockAndSkip(r) \/ Built(r)
      PROVE  SessionInv'
  BY <1>1, <1>2 DEF EnterInitialized, LockAndSkip, Built, OpenSession, Goto, TypeOK
<1>3. ASSUME NEW r \in Requests,
             EnterWaiting(r) \/ LockAndBuild(r) \/ BuildFails(r)
      PROVE  SessionInv'
  BY <1>0, <1>1, <1>3 DEF EnterWaiting, LockAndBuild, BuildFails, Goto, TypeOK, Busy
<1>4. ASSUME NEW r \in Requests, Opened(r) \/ Leave(r)
      PROVE  SessionInv'
  BY <1>1, <1>4 DEF Opened, Leave, Goto, TypeOK, Busy
<1>5. ASSUME NEW r \in Requests, OpenFails(r) \/ Closed(r)
      PROVE  SessionInv'
  BY <1>1, <1>5 DEF OpenFails, Closed, CloseSession, Goto, TypeOK
<1>6. ASSUME NEW r \in Requests,
             CancelWaiting(r) \/ CancelBuilding(r) \/ CancelStreaming(r)
      PROVE  SessionInv'
  BY <1>0, <1>1, <1>6 DEF CancelWaiting, CancelBuilding, CancelStreaming, Goto,
       TypeOK, Busy
<1>7. ASSUME NEW r \in Requests, CancelOpening(r) PROVE SessionInv'
  BY <1>1, <1>7 DEF CancelOpening, Goto, TypeOK, Busy
<1>8. CASE Cleanup \/ UNCHANGED vars
  BY <1>8 DEF Cleanup, CleanupNothing, CleanupStarts, CleanupEnds, vars, SessionInv
<1> QED
  BY <1>2, <1>3, <1>4, <1>5, <1>6, <1>7, <1>8 DEF Next, Request, Cancel, Quiet

-----------------------------------------------------------------------------
LEMMA Inductive == Spec => []IInv
<1>1. IInv /\ [Next]_vars => IInv'
  BY TypeStep, CleanupStep, LockStep, FlagStep, InstalledStep, SessionStep DEF IInv
<1> QED  BY <1>1, IInvInit, PTL DEF Spec

(* Every variable keeps its type: the lock is free or held by the request  *)
(* that builds, and no cleanup ends that was not started.                  *)
THEOREM TypeCorrect == Spec => []TypeOK
<1>1. IInv => TypeOK
  BY DEF IInv
<1> QED  BY <1>1, Inductive, PTL

(* Nobody finds the flag set without the engine (operator.py:70-77,        *)
(* 203-208), whatever initialisations and cleanups overlap.                *)
THEOREM FlagAndEngine == Spec => []FlagMeansEngine
<1>1. IInv => FlagMeansEngine
  BY DEF IInv
<1> QED  BY <1>1, Inductive, PTL

(* Requests that race to initialise install one engine (operator.py:70-77). *)
THEOREM FirstEngineStays == Spec => OneEngine
<1>1. IInv /\ [Next]_vars => [factory # 0 /\ signals' = 0 => factory' = factory]_vars
  BY InstalledStep DEF IInv
<1> QED  BY <1>1, Inductive, PTL DEF Spec, OneEngine

(* A request that has ended well or with an error has closed its session,  *)
(* and one of get_db also when it was cancelled (before it closes: a       *)
(* cancellation of the close is not modelled).  Nothing is said of a       *)
(* stream of on_query that was cancelled: cancelled while it opens, it     *)
(* leaves its session open (operator.py:142-148, CancelClosesSession).     *)
THEOREM NoSessionLeft == Spec => []SessionsClosed
<1>1. IInv => SessionsClosed
  BY DEF IInv, SessionInv, SessionsClosed, Ended, Busy
<1> QED  BY <1>1, Inductive, PTL
=============================================================================

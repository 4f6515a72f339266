------------------------ MODULE GraphEngine_proofs ------------------------
(***************************************************************************)
(* Theorems about GraphEngine, for every number of items and consumers and *)
(* every window and queue size: types and the window, the stop markers,    *)
(* how often a result is put and when it may be lost, and last that the    *)
(* engine implements BoundedPipeline.                                      *)
(***************************************************************************)
EXTENDS GraphEngine, FiniteSetTheorems, TLAPS

USE DEF Outcome, Final, PcState, TaskState

LEMMA PillCountIsNat == Cardinality(Consumers) \in Nat
  BY ConsumersAssumption, FS_CardinalityType

(***************************************************************************)
(* Every variable keeps its type: in particular only items and the stop    *)
(* marker are ever in the queue, and never more markers are owed than      *)
(* there are consumers.                                                    *)
(***************************************************************************)
LEMMA TypeInit == Init => TypeOK
<1> SUFFICES ASSUME Init PROVE TypeOK
  OBVIOUS
<1>1. queue \in Seq(Items \cup {Pill})
  BY DEF Init
<1>2. pills \in 0 .. Cardinality(Consumers)
  BY PillCountIsNat DEF Init, PillCount
<1>3. next \in 1 .. N + 1
  BY SizesAssumption DEF Init
<1> QED
  BY <1>1, <1>2, <1>3 DEF Init, TypeOK

LEMMA TypeStep == TypeOK /\ [Next]_vars => TypeOK'
<1> USE SizesAssumption, ConsumersAssumption, OutcomesAssumption,
        PillCountIsNat
<1> SUFFICES ASSUME TypeOK, [Next]_vars PROVE TypeOK'
  OBVIOUS
<1> USE DEF TypeOK, producerVars, taskVars, consumerVars, args
<1>1. CASE Submit
  <2>1. next \in Items /\ next + 1 \in 1 .. N + 1
    BY <1>1 DEF Submit, Items
  <2>2. task' \in [Items -> TaskState]
    BY <1>1, <2>1 DEF Submit
  <2>3. pc' \in PcState /\ waitset' \subseteq Items /\ due' \subseteq Items
    BY <1>1, <2>1 DEF Submit, Pending, Undiscarded
  <2> QED  BY <1>1, <2>1, <2>2, <2>3 DEF Submit
<1>2. CASE WaitReturns
  BY <1>2 DEF WaitReturns, Settled
<1>3. CASE EndOfItems
  BY <1>3 DEF EndOfItems, ToGather, Pending, Undiscarded
<1>4. CASE GatherReturns
  BY <1>4 DEF GatherReturns
<1>5. CASE RunLocal
  <2>1. next \in Items /\ next + 1 \in 1 .. N + 1
    BY <1>5 DEF RunLocal, Items
  <2>2. PICK r \in Outcomes[parallel] :
          /\ result' = [result EXCEPT ![next] = r]
          /\ pc' = IF r = "error" THEN "raised" ELSE "handle"
          /\ toput' = IF r = "error" THEN {} ELSE {next}
    BY <1>5 DEF RunLocal
  <2>3. result' \in [Items -> Outcome \cup {"unset"}]
    BY <2>1, <2>2
  <2>4. toput' \subseteq Items /\ pc' \in PcState
    BY <2>1, <2>2
  <2> QED  BY <1>5, <2>1, <2>3, <2>4 DEF RunLocal
<1>6. ASSUME NEW i \in Items, SkipResult(i) PROVE TypeOK'
  BY <1>6 DEF SkipResult
<1>7. ASSUME NEW i \in Items, PutResult(i) PROVE TypeOK'
  <2>1. Payload(i) \in Items \cup {Pill}
    BY DEF Payload
  <2>2. queue' \in Seq(Items \cup {Pill})
    BY <1>7, <2>1 DEF PutResult
  <2>3. puts' \in [Items -> Nat]
    BY <1>7 DEF PutResult
  <2> QED  BY <1>7, <2>2, <2>3 DEF PutResult
<1>8. CASE BlockOnPut
  BY <1>8 DEF BlockOnPut, Undiscarded
<1>9. CASE AllHandled
  BY <1>9 DEF AllHandled
<1>10. CASE PutPill
  <2>1. queue' \in Seq(Items \cup {Pill})
    BY <1>10 DEF PutPill
  <2>2. pills' \in 0 .. Cardinality(Consumers)
    BY <1>10 DEF PutPill
  <2> QED  BY <1>10, <2>1, <2>2 DEF PutPill
<1>11. CASE BeginJoin
  BY <1>11 DEF BeginJoin
<1>12. CASE Finish
  BY <1>12 DEF Finish
<1>13. ASSUME NEW i \in Items, Task(i) PROVE TypeOK'
  <2>1. CASE StartTask(i)
    BY <2>1 DEF StartTask
  <2>2. CASE SubmitRefused(i)
    BY <2>2 DEF SubmitRefused
  <2>3. CASE FinishTask(i)
    <3>1. PICK r \in Outcome : result' = [result EXCEPT ![i] = r]
      BY <2>3 DEF FinishTask
    <3> QED  BY <2>3, <3>1 DEF FinishTask
  <2>4. CASE Discard(i)
    BY <2>4 DEF Discard
  <2> QED  BY <1>13, <2>1, <2>2, <2>3, <2>4 DEF Task
<1>14. ASSUME NEW c \in Consumers, Consumer(c) PROVE TypeOK'
  <2>1. CASE GetItem(c)
    <3>1. /\ Head(queue) \in Items \cup {Pill}
          /\ Tail(queue) \in Seq(Items \cup {Pill})
      BY <2>1 DEF GetItem
    <3> QED  BY <2>1, <3>1 DEF GetItem
  <2>2. CASE GetPill(c)
    BY <2>2 DEF GetPill
  <2>3. CASE WriteDone(c)
    BY <2>3 DEF WriteDone
  <2>4. CASE ConsumerFails(c)
    BY <2>4 DEF ConsumerFails
  <2> QED  BY <1>14, <2>1, <2>2, <2>3, <2>4 DEF Consumer
<1>15. CASE Cancel
  BY <1>15 DEF Cancel
<1>16. CASE UNCHANGED vars
  BY <1>16 DEF vars
<1>17. CASE JoinRaises
  BY <1>17 DEF JoinRaises
<1>18. CASE WorkerDies
  BY <1>18 DEF WorkerDies
<1> QED
  BY <1>1, <1>2, <1>3, <1>4, <1>5, <1>6, <1>7, <1>8, <1>9, <1>10, <1>11,
     <1>12, <1>13, <1>14, <1>15, <1>16, <1>17, <1>18
  DEF Next, Producer, Returned

THEOREM TypeCorrect == Spec => []TypeOK
  BY TypeInit, TypeStep, PTL DEF Spec
-----------------------------------------------------------------------------
(***************************************************************************)
(* The window kept by pending_tasks.  The strengthening says what the      *)
(* producer knows at each of its points: strictly below the limit whenever *)
(* it may submit, at the limit only inside asyncio.wait, whose snapshot    *)
(* covers every pending task.                                              *)
(***************************************************************************)
WindowInv ==
  /\ Cardinality(Pending) <= SemSize
  /\ pc \in {"loop", "handle"} => Cardinality(Pending) < SemSize
  /\ pc = "wait" => Pending \subseteq waitset /\ Cardinality(waitset) <= SemSize

LEMMA ItemsFinite ==
  ASSUME NEW S \in SUBSET Items
  PROVE  IsFiniteSet(S) /\ Cardinality(S) \in Nat
<1>1. IsFiniteSet(Items)
  BY SizesAssumption, FS_Interval DEF Items
<1> QED  BY <1>1, FS_Subset, FS_CardinalityType

LEMMA SmallerSet ==
  ASSUME NEW S \in SUBSET Items, NEW T \in SUBSET S
  PROVE  /\ Cardinality(T) <= Cardinality(S)
         /\ T # S => Cardinality(T) < Cardinality(S)
<1>1. IsFiniteSet(S) /\ Cardinality(S) \in Nat /\ Cardinality(T) \in Nat
  BY ItemsFinite
<1>2. Cardinality(T) <= Cardinality(S)
      /\ (Cardinality(S) = Cardinality(T) => S = T)
  BY <1>1, FS_Subset
<1> QED  BY <1>1, <1>2

(* A step that lets no new task in keeps the window.                       *)
LEMMA WindowShrinks ==
  ASSUME TypeOK, WindowInv, Pending' \subseteq Pending, waitset' = waitset,
         pc' = "wait" => pc = "wait",
         pc' \in {"loop", "handle"} => pc \in {"loop", "handle"}
  PROVE  WindowInv'
<1>1. Pending \subseteq Items
  BY DEF Pending
<1>2. /\ Cardinality(Pending') <= Cardinality(Pending)
      /\ Cardinality(Pending) \in Nat /\ Cardinality(Pending') \in Nat
  BY <1>1, SmallerSet, ItemsFinite
<1> QED  BY <1>2, SizesAssumption DEF WindowInv

LEMMA WindowInit == Init => WindowInv
<1> SUFFICES ASSUME Init PROVE WindowInv
  OBVIOUS
<1>1. Pending = {}
  BY DEF Init, Pending
<1>2. Cardinality(Pending) = 0
  BY <1>1, FS_EmptySet
<1> QED  BY <1>2, SizesAssumption DEF WindowInv, Init

LEMMA WindowStep == TypeOK /\ WindowInv /\ [Next]_vars => WindowInv'
<1> SUFFICES ASSUME TypeOK, WindowInv, [Next]_vars PROVE WindowInv'
  OBVIOUS
<1> USE DEF producerVars, taskVars, consumerVars, args
<1>1. CASE Submit
  <2> DEFINE now == Pending \cup {next}
  <2>1. next \in Items
    BY <1>1 DEF TypeOK, Submit, Items
  <2>2. Pending' = now /\ now \subseteq Items
    BY <1>1, <2>1 DEF TypeOK, Submit, Pending
  <2>3. /\ Cardinality(now) <= Cardinality(Pending) + 1
        /\ Cardinality(now) \in Nat /\ Cardinality(Pending) \in Nat
    <3>1. Pending \in SUBSET Items /\ now \in SUBSET Items
      BY <2>2 DEF Pending
    <3>2. IsFiniteSet(Pending) /\ Cardinality(Pending) \in Nat
          /\ Cardinality(now) \in Nat
      BY <3>1, ItemsFinite
    <3>3. Cardinality(now) =
            IF next \in Pending THEN Cardinality(Pending)
                               ELSE Cardinality(Pending) + 1
      BY <3>2, FS_AddElement
    <3> QED  BY <3>2, <3>3
  <2>4. Cardinality(now) <= SemSize
    BY <1>1, <2>3, SizesAssumption DEF WindowInv, Submit
  <2>5. CASE AtLimit(Cardinality(now))
    BY <1>1, <2>2, <2>4, <2>5 DEF Submit, WindowInv
  <2>6. CASE ~AtLimit(Cardinality(now))
    <3>1. Cardinality(now) < SemSize
      BY <2>3, <2>6, SizesAssumption DEF AtLimit
    <3> QED  BY <1>1, <2>2, <2>4, <2>6, <3>1 DEF Submit, WindowInv
  <2> QED  BY <2>5, <2>6
<1>2. CASE WaitReturns
  <2>1. Pending' = Pending /\ Pending \in SUBSET waitset /\ pc' = "handle"
    BY <1>2 DEF WaitReturns, Pending, WindowInv
  <2>2. Pending # waitset /\ waitset \in SUBSET Items
    BY <1>2 DEF WaitReturns, Pending, TypeOK
  <2>3. Cardinality(Pending) < Cardinality(waitset)
    BY <2>1, <2>2, SmallerSet
  <2>4. Cardinality(Pending) \in Nat /\ Cardinality(waitset) \in Nat
    BY <2>1, <2>2, ItemsFinite
  <2> QED  BY <1>2, <2>1, <2>3, <2>4, SizesAssumption DEF WaitReturns, WindowInv
<1>3. CASE EndOfItems
  BY <1>3 DEF EndOfItems, WindowInv, Pending
<1>4. CASE GatherReturns
  BY <1>4, WindowShrinks DEF GatherReturns, Pending
<1>5. CASE RunLocal
  BY <1>5, WindowShrinks DEF RunLocal, Pending
<1>6. ASSUME NEW i \in Items, SkipResult(i) PROVE WindowInv'
  BY <1>6, WindowShrinks DEF SkipResult, Pending
<1>7. ASSUME NEW i \in Items, PutResult(i) PROVE WindowInv'
  BY <1>7, WindowShrinks DEF PutResult, Pending
<1>8. CASE BlockOnPut
  BY <1>8, WindowShrinks DEF BlockOnPut, Pending
<1>9. CASE AllHandled
  BY <1>9, WindowShrinks DEF AllHandled, Pending
<1>10. CASE PutPill
  BY <1>10, WindowShrinks DEF PutPill, Pending
<1>11. CASE BeginJoin
  BY <1>11, WindowShrinks DEF BeginJoin, Pending
<1>12. CASE Finish
  <2>1. /\ Pending' \subseteq Pending /\ waitset' = waitset
        /\ pc' = "wait" => pc = "wait"
        /\ pc' \in {"loop", "handle"} => pc \in {"loop", "handle"}
    BY <1>12 DEF Finish, Pending
  <2> QED  BY <2>1, WindowShrinks
<1>13. ASSUME NEW i \in Items, Task(i) PROVE WindowInv'
  <2>1. Pending' \subseteq Pending
    BY <1>13 DEF Task, StartTask, SubmitRefused, FinishTask, Discard, Pending,
                 TypeOK
  <2>2. pc' = pc /\ waitset' = waitset
    BY <1>13 DEF Task, StartTask, SubmitRefused, FinishTask, Discard
  <2> QED  BY <2>1, <2>2, WindowShrinks
<1>14. ASSUME NEW c \in Consumers, Consumer(c) PROVE WindowInv'
  <2>1. /\ Pending' \subseteq Pending /\ waitset' = waitset
        /\ pc' = "wait" => pc = "wait"
        /\ pc' \in {"loop", "handle"} => pc \in {"loop", "handle"}
    BY <1>14 DEF Consumer, ConsumerFails, GetItem, GetPill, WriteDone, Pending
  <2> QED  BY <2>1, WindowShrinks
<1>15. CASE Cancel
  <2>1. /\ Pending' \subseteq Pending /\ waitset' = waitset
        /\ pc' = "wait" => pc = "wait"
        /\ pc' \in {"loop", "handle"} => pc \in {"loop", "handle"}
    BY <1>15 DEF Cancel, Pending
  <2> QED  BY <2>1, WindowShrinks
<1>16. CASE UNCHANGED vars
  <2>1. /\ Pending' \subseteq Pending /\ waitset' = waitset
        /\ pc' = "wait" => pc = "wait"
        /\ pc' \in {"loop", "handle"} => pc \in {"loop", "handle"}
    BY <1>16 DEF vars, Pending
  <2> QED  BY <2>1, WindowShrinks
<1>17. CASE JoinRaises \/ WorkerDies
  <2>1. /\ Pending' \subseteq Pending /\ waitset' = waitset
        /\ pc' = "wait" => pc = "wait"
        /\ pc' \in {"loop", "handle"} => pc \in {"loop", "handle"}
    BY <1>17 DEF JoinRaises, WorkerDies, Pending
  <2> QED  BY <2>1, WindowShrinks
<1> QED
  BY <1>1, <1>2, <1>3, <1>4, <1>5, <1>6, <1>7, <1>8, <1>9, <1>10, <1>11,
     <1>12, <1>13, <1>14, <1>15, <1>16, <1>17 DEF Next, Producer, Returned

LEMMA WindowBoundsRunning == TypeOK /\ WindowInv => SemaphoreNeverWaits
<1> SUFFICES ASSUME TypeOK, WindowInv, NEW i \in Items, task[i] = "created"
             PROVE  Cardinality(Running) < SemSize
  BY DEF SemaphoreNeverWaits
<1>1. /\ Pending \in SUBSET Items /\ Running \in SUBSET Pending
      /\ Running # Pending
  BY DEF Pending, Running
<1>2. Cardinality(Running) < Cardinality(Pending)
  BY <1>1, SmallerSet
<1>3. Cardinality(Running) \in Nat /\ Cardinality(Pending) \in Nat
  BY <1>1, ItemsFinite
<1> QED  BY <1>2, <1>3, SizesAssumption DEF WindowInv

(* No task ever waits at the inner semaphore: the window of pending_tasks  *)
(* is what bounds the work in the pool (to_graph.py:139-156).              *)
THEOREM WindowBound == Spec => []SemaphoreNeverWaits
<1>1. Init => TypeOK /\ WindowInv
  BY TypeInit, WindowInit
<1>2. TypeOK /\ WindowInv /\ [Next]_vars => TypeOK' /\ WindowInv'
  BY TypeStep, WindowStep
<1>3. TypeOK /\ WindowInv => SemaphoreNeverWaits
  BY WindowBoundsRunning
<1> QED  BY <1>1, <1>2, <1>3, PTL DEF Spec
-----------------------------------------------------------------------------
(***************************************************************************)
(* The stop markers.  Owed counts the markers that are in the queue, as    *)
(* those that were put and that no consumer took.  They are the last Owed  *)
(* elements of the queue; once a consumer has stopped there is nothing     *)
(* else in it.  This needs that no result looks like a marker, which a     *)
(* sequential run does not ensure when a node may return None.             *)
(***************************************************************************)
NoFalsePill == "none" \notin Outcomes[FALSE]

Stopped == {c \in Consumers : cstate[c] = "stopped"}
Owed == Cardinality(Consumers) - pills - Cardinality(Stopped)

LocalInv == ~parallel => \A i \in Items : task[i] = "none"
ResultInv ==
  LocalInv /\ (~parallel => \A i \in toput : result[i] = "data")

PillInv ==
  pc \notin {"raised", "cancelled"} =>
    /\ Owed \in 0 .. Len(queue)
    /\ \A k \in 1 .. Len(queue) : queue[k] = Pill <=> k > Len(queue) - Owed
    /\ Stopped # {} => Owed = Len(queue)
    /\ pc \notin {"pills", "join", "finished"} =>
         pills = Cardinality(Consumers)
    /\ pc \in {"join", "finished"} => pills = 0
    /\ pc = "finished" => Stopped = Consumers

DrainInv ==
  /\ pc = "gather" => Pending \subseteq waitset
  /\ pc \in {"flush", "pills", "join", "finished"} => Pending = {}

(* The arguments of a run do not change.                                   *)
LEMMA ArgsFixed == [Next]_vars => args' = args
<1> SUFFICES ASSUME [Next]_vars PROVE args' = args
  OBVIOUS
<1>1. CASE Producer
  BY <1>1 DEF Producer, Submit, WaitReturns, EndOfItems, GatherReturns, RunLocal,
              SkipResult, PutResult, BlockOnPut, AllHandled, PutPill, BeginJoin,
              Finish, JoinRaises
<1>2. ASSUME NEW i \in Items, Task(i) PROVE args' = args
  BY <1>2 DEF Task, StartTask, SubmitRefused, FinishTask, Discard
<1>3. ASSUME NEW c \in Consumers, Consumer(c) PROVE args' = args
  BY <1>3 DEF Consumer, ConsumerFails, GetItem, GetPill, WriteDone
<1>4. CASE WorkerDies \/ Cancel \/ UNCHANGED vars
  BY <1>4 DEF WorkerDies, Cancel, vars, args
<1> QED  BY <1>1, <1>2, <1>3, <1>4 DEF Next, Returned

(* A result in the hands of the sequential producer is a value.            *)
LEMMA ResultStep ==
  ASSUME NoFalsePill, TypeOK, ResultInv, [Next]_vars
  PROVE  ResultInv'
<1>0. parallel' = parallel
  BY ArgsFixed DEF args
<1> SUFFICES ASSUME ~parallel PROVE ResultInv'
  BY <1>0 DEF ResultInv, LocalInv
<1> USE DEF producerVars, taskVars, consumerVars, args
<1>a. /\ \A i \in Items : task[i] = "none"
      /\ \A i \in toput : result[i] = "data"
  BY DEF ResultInv, LocalInv
<1>1. CASE RunLocal
  <2>1. next \in Items
    BY <1>1 DEF TypeOK, RunLocal, Items
  <2>2. PICK r \in Outcomes[parallel] :
          /\ result' = [result EXCEPT ![next] = r]
          /\ toput' = IF r = "error" THEN {} ELSE {next}
    BY <1>1 DEF RunLocal
  <2>3. task' = task
    BY <1>1 DEF RunLocal
  <2>4. r # "error" => r = "data"
    BY <2>2, OutcomesAssumption DEF NoFalsePill, TypeOK
  <2>5. r # "error" => result'[next] = "data"
    BY <2>1, <2>2, <2>4 DEF TypeOK
  <2> QED  BY <1>a, <2>2, <2>3, <2>5 DEF ResultInv, LocalInv
<1>2. CASE WaitReturns
  BY <1>2, <1>a DEF WaitReturns, Settled, TypeOK, ResultInv, LocalInv
<1>3. CASE GatherReturns
  BY <1>3, <1>a DEF GatherReturns, TypeOK, ResultInv, LocalInv
<1>4. ASSUME NEW i \in Items, SkipResult(i) \/ PutResult(i) PROVE ResultInv'
  BY <1>4, <1>a DEF SkipResult, PutResult, ResultInv, LocalInv
<1>5. ASSUME NEW i \in Items, Task(i) PROVE ResultInv'
  BY <1>5, <1>a DEF Task, StartTask, SubmitRefused, FinishTask, Discard
<1>6. ASSUME UNCHANGED <<task, result, toput>> PROVE ResultInv'
  BY <1>6, <1>a DEF ResultInv, LocalInv
<1>7. CASE Submit
  BY <1>7 DEF Submit
<1>8. CASE EndOfItems \/ BlockOnPut \/ AllHandled \/ PutPill \/ BeginJoin
             \/ Finish \/ JoinRaises \/ WorkerDies \/ Cancel
  BY <1>6, <1>8 DEF EndOfItems, BlockOnPut, AllHandled, PutPill, BeginJoin,
                    Finish, JoinRaises, WorkerDies, Cancel
<1>9. ASSUME NEW c \in Consumers, Consumer(c) PROVE ResultInv'
  BY <1>6, <1>9 DEF Consumer, ConsumerFails, GetItem, GetPill, WriteDone
<1>10. CASE UNCHANGED vars
  BY <1>6, <1>10 DEF vars
<1> QED
  BY <1>1, <1>2, <1>3, <1>4, <1>5, <1>7, <1>8, <1>9, <1>10
  DEF Next, Producer, Returned

LEMMA LocalStep ==
  ASSUME TypeOK, LocalInv, [Next]_vars
  PROVE  LocalInv'
<1>1. parallel' = parallel
  BY ArgsFixed DEF args
<1>2. parallel \/ task' = task
  BY DEF Next, Producer, Returned, vars, Submit, WaitReturns, EndOfItems,
         GatherReturns, RunLocal, SkipResult, PutResult, BlockOnPut, AllHandled,
         PutPill, BeginJoin, Finish, JoinRaises, Task, StartTask, SubmitRefused,
         FinishTask, Discard, Consumer, ConsumerFails, GetItem, GetPill,
         WriteDone, WorkerDies, Cancel, LocalInv, taskVars
<1> QED  BY <1>1, <1>2 DEF LocalInv

(* When the producer stops waiting for tasks there is none left.           *)
LEMMA DrainStep == TypeOK /\ LocalInv /\ DrainInv /\ [Next]_vars => DrainInv'
<1> SUFFICES ASSUME TypeOK, LocalInv, DrainInv, [Next]_vars PROVE DrainInv'
  OBVIOUS
<1> USE DEF producerVars, taskVars, consumerVars, args
<1>1. CASE EndOfItems
  <2>1. Pending' = Pending
    BY <1>1 DEF EndOfItems, Pending
  <2>2. ~parallel => Pending = {}
    BY DEF LocalInv, Pending
  <2> QED  BY <1>1, <2>1, <2>2 DEF EndOfItems, ToGather, DrainInv
<1>2. CASE GatherReturns
  <2>1. Pending' = Pending
    BY <1>2 DEF GatherReturns, Pending
  <2>2. Pending = {}
    BY <1>2 DEF GatherReturns, DrainInv, Pending
  <2> QED  BY <1>2, <2>1, <2>2 DEF GatherReturns, DrainInv
<1>3. ASSUME NEW i \in Items, Task(i) PROVE DrainInv'
  <2>1. Pending' \subseteq Pending
    BY <1>3 DEF Task, StartTask, SubmitRefused, FinishTask, Discard, Pending,
                TypeOK
  <2>2. pc' = pc /\ waitset' = waitset
    BY <1>3 DEF Task, StartTask, SubmitRefused, FinishTask, Discard
  <2> QED  BY <2>1, <2>2 DEF DrainInv
<1>4. CASE Submit \/ WaitReturns \/ RunLocal \/ Cancel
  BY <1>4 DEF Submit, WaitReturns, RunLocal, Cancel, DrainInv
<1>5. ASSUME task' = task, waitset' = waitset,
             pc' = "gather" => pc = "gather",
             pc' \in {"flush", "pills", "join", "finished"} =>
               pc \in {"flush", "pills", "join", "finished"}
      PROVE  DrainInv'
  BY <1>5 DEF DrainInv, Pending
<1>6. ASSUME NEW i \in Items, SkipResult(i) \/ PutResult(i) PROVE DrainInv'
  BY <1>5, <1>6 DEF SkipResult, PutResult
<1>7. CASE BlockOnPut \/ AllHandled \/ PutPill \/ BeginJoin \/ Finish
             \/ JoinRaises \/ WorkerDies
  BY <1>5, <1>7 DEF BlockOnPut, AllHandled, PutPill, BeginJoin, Finish,
                    JoinRaises, WorkerDies
<1>8. ASSUME NEW c \in Consumers, Consumer(c) PROVE DrainInv'
  BY <1>5, <1>8 DEF Consumer, ConsumerFails, GetItem, GetPill, WriteDone
<1>9. CASE UNCHANGED vars
  BY <1>5, <1>9 DEF vars
<1> QED
  BY <1>1, <1>2, <1>3, <1>4, <1>6, <1>7, <1>8, <1>9
  DEF Next, Producer, Returned
LEMMA StoppedFinite ==
  ASSUME NEW S \in SUBSET Consumers
  PROVE  IsFiniteSet(S) /\ Cardinality(S) \in Nat
         /\ (Cardinality(S) = Cardinality(Consumers) => S = Consumers)
         /\ Cardinality(S) <= Cardinality(Consumers)
  BY ConsumersAssumption, FS_Subset, FS_CardinalityType

LEMMA OwedIsInt == TypeOK => Owed \in Int
<1>1. Stopped \in SUBSET Consumers
  BY DEF Stopped
<1> QED  BY <1>1, StoppedFinite, PillCountIsNat DEF TypeOK, Owed

LEMMA PillInit == Init => PillInv
<1> SUFFICES ASSUME Init PROVE PillInv
  OBVIOUS
<1>1. Stopped = {} /\ Cardinality(Stopped) = 0
  BY FS_EmptySet DEF Init, Stopped
<1>2. Owed = 0
  BY <1>1, PillCountIsNat DEF Owed, Init, PillCount
<1>3. Len(queue) = 0
  BY DEF Init
<1> QED  BY <1>1, <1>2, <1>3 DEF PillInv, Init, PillCount

(* A step that touches neither the queue nor the consumers.                *)
LEMMA PillStutter ==
  ASSUME PillInv, queue' = queue, cstate' = cstate, pills' = pills,
         \/ pc' = pc
         \/ pc' \in {"raised", "cancelled"}
         \/ pc \notin {"raised", "cancelled", "finished", "join", "pills"}
            /\ pc' \notin {"finished", "join"}
         \/ pc = "pills" /\ pc' = "join" /\ pills = 0
         \/ pc = "join" /\ pc' = "finished" /\ Stopped = Consumers
  PROVE  PillInv'
<1>1. Stopped' = Stopped /\ Owed' = Owed
  BY DEF Stopped, Owed
<1> QED  BY <1>1 DEF PillInv

LEMMA PillStep ==
  ASSUME NoFalsePill, TypeOK, ResultInv, PillInv, [Next]_vars
  PROVE  PillInv'
<1> USE DEF producerVars, taskVars, consumerVars, args
<1>1. ASSUME NEW i \in Items, PutResult(i) PROVE PillInv'
  <2>1. Payload(i) = i /\ i # Pill
    BY <1>1 DEF PutResult, NeedsPut, Payload, ResultInv, LocalInv, Items, Pill
  <2>2. /\ pc \in {"handle", "flush"} /\ pc' = pc /\ pills' = pills
        /\ cstate' = cstate /\ queue' = Append(queue, i)
    BY <1>1, <2>1 DEF PutResult
  <2>3. Stopped' = Stopped /\ Owed' = Owed
    BY <2>2 DEF Stopped, Owed
  <2>4. pills = Cardinality(Consumers) /\ Owed \in 0 .. Len(queue)
    BY <2>2 DEF PillInv
  <2>5. Stopped \in SUBSET Consumers
    BY DEF Stopped
  <2>6. Cardinality(Stopped) = 0 /\ Owed = 0
    BY <2>4, <2>5, StoppedFinite, PillCountIsNat DEF Owed
  <2>7. Stopped = {}
    BY <2>5, <2>6, StoppedFinite, FS_EmptySet
  <2>8. /\ queue \in Seq(Items \cup {Pill}) /\ Len(queue') = Len(queue) + 1
        /\ \A k \in 1 .. Len(queue) : queue'[k] = queue[k]
        /\ queue'[Len(queue) + 1] = i
    BY <2>2 DEF TypeOK
  <2>9. \A k \in 1 .. Len(queue') : queue'[k] = Pill <=> k > Len(queue') - Owed'
    BY <2>1, <2>2, <2>3, <2>6, <2>8 DEF PillInv
  <2> QED  BY <2>2, <2>3, <2>4, <2>6, <2>7, <2>8, <2>9 DEF PillInv
<1>2. CASE PutPill
  <2>1. /\ pc = "pills" /\ pc' = pc /\ pills > 0 /\ pills' = pills - 1
        /\ cstate' = cstate /\ queue' = Append(queue, Pill)
    BY <1>2 DEF PutPill
  <2>2. Stopped' = Stopped /\ Owed' = Owed + 1
    <3>1. Stopped' = Stopped
      BY <2>1 DEF Stopped
    <3>2. Stopped \in SUBSET Consumers
      BY DEF Stopped
    <3>3. Cardinality(Stopped) \in Nat
      BY <3>2, StoppedFinite
    <3>4. Cardinality(Stopped') = Cardinality(Stopped)
      BY <3>1
    <3>5. pills \in Int
      BY PillCountIsNat DEF TypeOK
    <3> QED  BY <2>1, <3>1, <3>3, <3>4, <3>5, PillCountIsNat DEF Owed
  <2>3. /\ queue \in Seq(Items \cup {Pill}) /\ Len(queue') = Len(queue) + 1
        /\ \A k \in 1 .. Len(queue) : queue'[k] = queue[k]
        /\ queue'[Len(queue) + 1] = Pill
    BY <2>1 DEF TypeOK
  <2>4. /\ Owed \in 0 .. Len(queue)
        /\ \A k \in 1 .. Len(queue) : queue[k] = Pill <=> k > Len(queue) - Owed
        /\ Stopped # {} => Owed = Len(queue)
    BY <2>1 DEF PillInv
  <2>5. \A k \in 1 .. Len(queue') : queue'[k] = Pill <=> k > Len(queue') - Owed'
    BY <2>2, <2>3, <2>4
  <2>6. Owed' \in 0 .. Len(queue') /\ (Stopped' # {} => Owed' = Len(queue'))
    BY <2>2, <2>3, <2>4
  <2> QED  BY <2>1, <2>5, <2>6 DEF PillInv
<1>3. ASSUME NEW c \in Consumers, GetItem(c) PROVE PillInv'
  <2> SUFFICES ASSUME pc \notin {"raised", "cancelled"} PROVE PillInv'
    BY <1>3 DEF GetItem, PillInv
  <2>1. /\ pc' = pc /\ pills' = pills /\ queue # <<>> /\ Head(queue) # Pill
        /\ queue' = Tail(queue) /\ cstate[c] = "idle"
        /\ cstate' = [cstate EXCEPT ![c] = "writing"]
    BY <1>3 DEF GetItem
  <2>2. Stopped' = Stopped
    BY <2>1 DEF Stopped, TypeOK
  <2>3. Owed' = Owed
    BY <2>1, <2>2 DEF Owed
  <2>4. /\ Len(queue) \in Nat /\ Len(queue) > 0
        /\ Len(queue') = Len(queue) - 1 /\ queue[1] = Head(queue)
        /\ \A k \in 1 .. Len(queue') : queue'[k] = queue[k + 1]
    BY <2>1 DEF TypeOK
  <2>5. /\ Owed \in 0 .. Len(queue)
        /\ \A k \in 1 .. Len(queue) : queue[k] = Pill <=> k > Len(queue) - Owed
        /\ Stopped # {} => Owed = Len(queue)
    BY DEF PillInv
  <2>6. Owed < Len(queue) /\ Stopped = {}
    <3>1. 1 \in 1 .. Len(queue) /\ queue[1] # Pill
      BY <2>1, <2>4
    <3>2. ~(1 > Len(queue) - Owed)
      BY <2>5, <3>1
    <3> QED  BY <2>4, <2>5, <3>2
  <2>7. \A k \in 1 .. Len(queue') : queue'[k] = Pill <=> k > Len(queue') - Owed'
    BY <2>3, <2>4, <2>5
  <2>8. Owed' \in 0 .. Len(queue') /\ (Stopped' # {} => Owed' = Len(queue'))
    BY <2>2, <2>3, <2>4, <2>5, <2>6
  <2> QED  BY <2>1, <2>2, <2>7, <2>8 DEF PillInv
<1>4. ASSUME NEW c \in Consumers, GetPill(c) PROVE PillInv'
  <2> SUFFICES ASSUME pc \notin {"raised", "cancelled"} PROVE PillInv'
    BY <1>4 DEF GetPill, PillInv
  <2>1. /\ pc' = pc /\ pills' = pills /\ queue # <<>> /\ Head(queue) = Pill
        /\ queue' = Tail(queue) /\ cstate[c] = "idle"
        /\ cstate' = [cstate EXCEPT ![c] = "stopped"]
    BY <1>4 DEF GetPill
  <2>2. Stopped' = Stopped \cup {c} /\ c \notin Stopped
    BY <2>1 DEF Stopped, TypeOK
  <2>3. Stopped \in SUBSET Consumers /\ Stopped' \in SUBSET Consumers
    BY <2>2 DEF Stopped
  <2>4. Cardinality(Stopped') = Cardinality(Stopped) + 1
    BY <2>2, <2>3, StoppedFinite, FS_AddElement
  <2>5. Owed' = Owed - 1
    BY <2>1, <2>3, <2>4, StoppedFinite, PillCountIsNat DEF Owed, TypeOK
  <2>6. /\ Len(queue) \in Nat /\ Len(queue) > 0
        /\ Len(queue') = Len(queue) - 1 /\ queue[1] = Head(queue)
        /\ \A k \in 1 .. Len(queue') : queue'[k] = queue[k + 1]
    BY <2>1 DEF TypeOK
  <2>7. /\ Owed \in 0 .. Len(queue)
        /\ \A k \in 1 .. Len(queue) : queue[k] = Pill <=> k > Len(queue) - Owed
    BY DEF PillInv
  <2>8. Owed = Len(queue)
    <3>1. 1 \in 1 .. Len(queue) /\ queue[1] = Pill
      BY <2>1, <2>6
    <3>2. 1 > Len(queue) - Owed
      BY <2>7, <3>1
    <3> QED  BY <2>6, <2>7, <3>2
  <2>9. Owed' = Len(queue') /\ Owed' \in 0 .. Len(queue')
    BY <2>5, <2>6, <2>8
  <2>10. \A k \in 1 .. Len(queue') : queue'[k] = Pill <=> k > Len(queue') - Owed'
    BY <2>6, <2>7, <2>8, <2>9
  <2>11. pc = "finished" => FALSE
    BY <2>1 DEF PillInv, Stopped
  <2> QED  BY <2>1, <2>9, <2>10, <2>11 DEF PillInv
<1>5. ASSUME NEW c \in Consumers, WriteDone(c) PROVE PillInv'
  <2>1. /\ pc' = pc /\ pills' = pills /\ queue' = queue
        /\ cstate[c] = "writing" /\ cstate' = [cstate EXCEPT ![c] = "idle"]
    BY <1>5 DEF WriteDone
  <2>2. Stopped' = Stopped
    BY <2>1 DEF Stopped, TypeOK
  <2>3. Owed' = Owed
    BY <2>1, <2>2 DEF Owed
  <2> QED  BY <2>1, <2>2, <2>3 DEF PillInv
<1>6. CASE Cancel
  BY <1>6 DEF Cancel, PillInv
<1>7. CASE Submit \/ WaitReturns \/ EndOfItems \/ GatherReturns \/ RunLocal
  BY <1>7, PillStutter DEF Submit, WaitReturns, EndOfItems, GatherReturns, RunLocal
<1>8. ASSUME NEW i \in Items, SkipResult(i) \/ Task(i) PROVE PillInv'
  BY <1>8, PillStutter DEF SkipResult, Task, StartTask, SubmitRefused, FinishTask,
                                 Discard
<1>9. CASE BlockOnPut \/ AllHandled \/ BeginJoin \/ JoinRaises \/ WorkerDies
  BY <1>9, PillStutter DEF BlockOnPut, AllHandled, BeginJoin, JoinRaises,
                           WorkerDies
<1>10. CASE Finish
  <2>1. Stopped = Consumers
    BY <1>10 DEF Finish, Stopped
  <2> QED  BY <1>10, <2>1, PillStutter DEF Finish
<1>11. CASE UNCHANGED vars
  BY <1>11, PillStutter DEF vars
<1>12. ASSUME NEW c \in Consumers, ConsumerFails(c) PROVE PillInv'
  <2>1. /\ pc' = pc /\ pills' = pills /\ queue' = queue
        /\ cstate[c] = "idle" /\ cstate' = [cstate EXCEPT ![c] = "failed"]
    BY <1>12 DEF ConsumerFails
  <2>2. Stopped' = Stopped
    BY <2>1 DEF Stopped, TypeOK
  <2>3. Owed' = Owed
    BY <2>1, <2>2 DEF Owed
  <2> QED  BY <2>1, <2>2, <2>3 DEF PillInv
<1> QED
  BY <1>1, <1>2, <1>3, <1>4, <1>5, <1>6, <1>7, <1>8, <1>9, <1>10, <1>11, <1>12
  DEF Next, Producer, Consumer, Returned
LEMMA OrderlyInit == Init => ResultInv /\ DrainInv
  BY DEF Init, ResultInv, LocalInv, DrainInv, Pending

LEMMA NothingLeft ==
  TypeOK /\ PillInv /\ DrainInv => NothingLeftBehind
<1> SUFFICES ASSUME TypeOK, PillInv, DrainInv, pc = "finished"
             PROVE  queue = <<>>
                    /\ \A i \in Items : task[i] \in {"none", "discarded"}
  BY DEF NothingLeftBehind
<1>1. Stopped = Consumers /\ pills = 0
  BY DEF PillInv
<1>2. Owed = 0 /\ Owed = Len(queue)
  BY <1>1, PillCountIsNat, ConsumersAssumption DEF PillInv, Owed
<1>3. queue = <<>>
  BY <1>2 DEF TypeOK
<1>4. \A i \in Items : task[i] \in {"none", "discarded"}
  BY DEF DrainInv, Pending, TypeOK
<1> QED  BY <1>3, <1>4

LEMMA EarlyStop == TypeOK /\ PillInv => NoEarlyStop
<1> SUFFICES ASSUME TypeOK, PillInv, NEW c \in Consumers, cstate[c] = "stopped",
                    pc \notin {"pills", "join"} \cup Final
             PROVE  FALSE
  BY DEF NoEarlyStop
<1>1. Stopped \in SUBSET Consumers /\ Stopped # {}
  BY DEF Stopped
<1>2. pills = Cardinality(Consumers) /\ Owed \in 0 .. Len(queue)
  BY DEF PillInv
<1>3. Cardinality(Stopped) \in Nat
  BY <1>1, StoppedFinite
<1>4. Cardinality(Stopped) = 0
  BY <1>2, <1>3, PillCountIsNat DEF Owed
<1>5. Stopped = {}
  BY <1>1, <1>4, StoppedFinite, FS_EmptySet
<1> QED  BY <1>1, <1>5

(* The invariant that the two theorems below follow from.                  *)
THEOREM OrderlyShutdown ==
  ASSUME NoFalsePill
  PROVE  Spec => [](TypeOK /\ ResultInv /\ DrainInv /\ PillInv)
<1>1. Init => TypeOK /\ ResultInv /\ DrainInv /\ PillInv
  BY TypeInit, OrderlyInit, PillInit
<1>2. TypeOK /\ ResultInv /\ DrainInv /\ PillInv /\ [Next]_vars
        => (TypeOK /\ ResultInv /\ DrainInv /\ PillInv)'
  BY NoFalsePill, TypeStep, ResultStep, DrainStep, PillStep DEF ResultInv
<1> QED  BY <1>1, <1>2, PTL DEF Spec

(* No consumer stops while the producer may still hand it work: the stop   *)
(* markers are the last thing in the queue (to_graph.py:113-115, 168-169). *)
THEOREM ConsumersStopLast ==
  ASSUME NoFalsePill
  PROVE  Spec => []NoEarlyStop
<1>1. TypeOK /\ ResultInv /\ DrainInv /\ PillInv => NoEarlyStop
  BY EarlyStop
<1>2. Spec => [](TypeOK /\ ResultInv /\ DrainInv /\ PillInv)
  BY OrderlyShutdown, NoFalsePill
<1> QED  BY <1>1, <1>2, PTL

(* A run that returns normally has delivered all it put and left no task   *)
(* in the pool (to_graph.py:160-169, 186).                                 *)
THEOREM CleanReturn ==
  ASSUME NoFalsePill
  PROVE  Spec => []NothingLeftBehind
<1>1. TypeOK /\ ResultInv /\ DrainInv /\ PillInv => NothingLeftBehind
  BY NothingLeft
<1>2. Spec => [](TypeOK /\ ResultInv /\ DrainInv /\ PillInv)
  BY OrderlyShutdown, NoFalsePill
<1> QED  BY <1>1, <1>2, PTL
-----------------------------------------------------------------------------
(***************************************************************************)
(* How often a result can be put.  Chances counts the puts an item had and *)
(* the one it is about to have.  An item that has had one and whose task   *)
(* is still not discarded is in due whenever the producer waits: its       *)
(* callback runs before the wait returns, and no later snapshot holds it.  *)
(***************************************************************************)
Chances(i) == puts[i] + (IF i \in toput THEN 1 ELSE 0)
Waiting == pc \in {"wait", "gather"}

PutsInv ==
  /\ pc \in {"loop", "wait", "gather"} => toput = {}
  /\ parallel => \A i \in Items :
       /\ i >= next => task[i] = "none"
       /\ task[i] \notin {"done", "discarded"} => Chances(i) = 0
       /\ Chances(i) \in 0 .. 2
       /\ Chances(i) = 2 => task[i] = "discarded" /\ (Waiting => i \notin waitset)
       /\ Chances(i) = 1 /\ task[i] = "done" /\ Waiting => i \in due
  /\ ~parallel =>
       /\ ~Waiting /\ pc # "flush"
       /\ \A i \in Items : Chances(i) \in 0 .. 1 /\ (i >= next => Chances(i) = 0)

LEMMA PutsInit == Init => PutsInv
  BY DEF Init, PutsInv, Chances, Waiting

(* A step that leaves alone what the invariant reads, and does not begin to *)
(* wait, to flush or to submit.                                            *)
LEMMA PutsStutter ==
  ASSUME PutsInv, task' = task, toput' = toput, puts' = puts, next' = next,
         parallel' = parallel, waitset' = waitset,
         \/ pc' = pc /\ (due' = due \/ due' = Undiscarded)
         \/ pc' \in {"pills", "join"} \cup Final
         \/ pc' = "loop" /\ toput = {}
  PROVE  PutsInv'
<1>1. \A i \in Items : Chances(i)' = Chances(i)
  BY DEF Chances
<1>2. CASE pc' = pc /\ (due' = due \/ due' = Undiscarded)
  BY <1>1, <1>2 DEF PutsInv, Waiting, Undiscarded
<1>3. CASE pc' \in {"pills", "join"} \cup Final
  BY <1>1, <1>3 DEF PutsInv, Waiting
<1>4. CASE pc' = "loop" /\ toput = {}
  BY <1>1, <1>4 DEF PutsInv, Waiting
<1> QED  BY <1>2, <1>3, <1>4

(* The results of a finished wait: at most the second chance of each.      *)
LEMMA PutsCollect ==
  ASSUME TypeOK, PutsInv, Waiting, LoopCaughtUp, toput' \subseteq waitset,
         \A i \in toput' : task[i] \in {"done", "discarded"},
         task' = task, puts' = puts, next' = next, parallel' = parallel,
         pc' \in {"handle", "flush"}
  PROVE  PutsInv'
<1>1. toput = {} /\ parallel
  BY DEF PutsInv, Waiting, TypeOK
<1>2. ASSUME NEW i \in Items
      PROVE  /\ i >= next => task[i] = "none"
             /\ task[i] \notin {"done", "discarded"} => Chances(i)' = 0
             /\ Chances(i)' \in 0 .. 2
             /\ Chances(i)' = 2 => task[i] = "discarded"
  <2>1. Chances(i) = puts[i] /\ puts[i] \in Nat
    BY <1>1 DEF Chances, TypeOK
  <2>2. CASE i \notin toput'
    <3>1. Chances(i)' = Chances(i)
      BY <2>1, <2>2 DEF Chances
    <3> QED  BY <1>1, <3>1 DEF PutsInv
  <2>3. CASE i \in toput'
    <3>1. Chances(i)' = Chances(i) + 1
      BY <2>1, <2>3 DEF Chances
    <3>2. Chances(i) # 2 /\ (Chances(i) = 1 => task[i] = "discarded")
      BY <1>1, <2>3 DEF PutsInv, LoopCaughtUp
    <3> QED  BY <1>1, <2>3, <3>1, <3>2 DEF PutsInv
  <2> QED  BY <2>2, <2>3
<1> QED  BY <1>1, <1>2 DEF PutsInv, Waiting

LEMMA PutsStep == TypeOK /\ PutsInv /\ [Next]_vars => PutsInv'
<1> SUFFICES ASSUME TypeOK, PutsInv, [Next]_vars PROVE PutsInv'
  OBVIOUS
<1> USE DEF producerVars, taskVars, consumerVars, args
<1>0. parallel' = parallel
  BY ArgsFixed
<1>1. CASE Submit
  <2>1. next \in Items /\ next' = next + 1 /\ parallel /\ toput = {}
    BY <1>1 DEF Submit, Items, TypeOK, PutsInv
  <2>2. \A i \in Items : Chances(i)' = Chances(i)
    BY <1>1 DEF Submit, Chances
  <2>3. task' = [task EXCEPT ![next] = "created"] /\ toput' = {}
    BY <1>1, <2>1 DEF Submit
  <2>4. \/ pc' = "loop"
        \/ pc' = "wait" /\ waitset' = Pending \cup {next} /\ due' = Undiscarded
    BY <1>1 DEF Submit
  <2>5. ASSUME NEW i \in Items
        PROVE  /\ i >= next' => task'[i] = "none"
               /\ task'[i] \notin {"done", "discarded"} => Chances(i)' = 0
               /\ Chances(i)' \in 0 .. 2
               /\ Chances(i)' = 2 =>
                    task'[i] = "discarded" /\ (pc' = "wait" => i \notin waitset')
               /\ Chances(i)' = 1 /\ task'[i] = "done" /\ pc' = "wait" =>
                    i \in due'
    <3>1. CASE i = next
      <4>1. task[i] = "none" /\ Chances(i) = 0
        BY <2>1, <3>1 DEF PutsInv, Items
      <4>2. task'[i] = "created"
        BY <2>3, <3>1, <2>1 DEF TypeOK
      <4> QED  BY <2>1, <2>2, <3>1, <4>1, <4>2 DEF Items, TypeOK
    <3>2. CASE i # next
      <4>1. task'[i] = task[i]
        BY <2>3, <3>2 DEF TypeOK
      <4>2. i >= next' => i >= next
        BY <2>1 DEF Items
      <4> QED
        BY <2>1, <2>2, <2>4, <3>2, <4>1, <4>2 DEF PutsInv, Pending, Undiscarded
    <3> QED  BY <3>1, <3>2
  <2> QED  BY <1>0, <2>1, <2>3, <2>4, <2>5 DEF PutsInv, Waiting
<1>2. CASE WaitReturns
  <2>1. toput' \subseteq waitset
        /\ \A i \in toput' : task[i] \in {"done", "discarded"}
    BY <1>2 DEF WaitReturns, Settled
  <2> QED  BY <1>0, <1>2, <2>1, PutsCollect DEF WaitReturns, Waiting
<1>3. CASE GatherReturns
  BY <1>0, <1>3, PutsCollect DEF GatherReturns, Waiting
<1>4. CASE EndOfItems
  <2>1. CASE ToGather = {}
    <3>1. pc' = "pills" /\ waitset' = waitset
      BY <1>4, <2>1 DEF EndOfItems
    <3> QED  BY <1>0, <1>4, <3>1, PutsStutter DEF EndOfItems
  <2>2. CASE ToGather # {}
    <3>1. pc' = "gather" /\ waitset' = Pending /\ due' = Undiscarded /\ parallel
          /\ toput = {} /\ toput' = {}
      BY <1>4, <2>2 DEF EndOfItems, ToGather, PutsInv
    <3>2. task' = task /\ next' = next
          /\ \A i \in Items : Chances(i)' = Chances(i)
      BY <1>4 DEF EndOfItems, Chances
    <3> QED
      BY <1>0, <3>1, <3>2 DEF PutsInv, Waiting, Pending, Undiscarded
  <2> QED  BY <2>1, <2>2
<1>5. CASE RunLocal
  <2>1. next \in Items /\ next' = next + 1 /\ ~parallel /\ toput = {}
        /\ toput' \subseteq {next} /\ puts' = puts /\ pc' \in {"raised", "handle"}
    BY <1>5 DEF RunLocal, Items, TypeOK, PutsInv
  <2>2. ASSUME NEW i \in Items
        PROVE  Chances(i)' \in 0 .. 1 /\ (i >= next' => Chances(i)' = 0)
    <3>1. Chances(i) = puts[i] /\ Chances(i) \in 0 .. 1
          /\ (i >= next => Chances(i) = 0)
      BY <2>1 DEF Chances, PutsInv, TypeOK
    <3>2. Chances(i)' = Chances(i) + (IF i \in toput' THEN 1 ELSE 0)
      BY <2>1, <3>1 DEF Chances
    <3> QED  BY <2>1, <3>1, <3>2 DEF Items
  <2> QED  BY <1>0, <2>1, <2>2 DEF PutsInv, Waiting
<1>6. ASSUME NEW j \in Items, SkipResult(j) \/ PutResult(j) PROVE PutsInv'
  <2>1. /\ toput' = toput \ {j} /\ j \in toput /\ pc' = pc
        /\ pc \in {"handle", "flush"} /\ task' = task /\ next' = next
        /\ puts' = puts \/ puts' = [puts EXCEPT ![j] = @ + 1]
    BY <1>6 DEF SkipResult, PutResult
  <2>2. ASSUME NEW i \in Items
        PROVE  Chances(i)' \in {Chances(i), Chances(i) - 1} /\ Chances(i) \in Nat
               /\ Chances(i)' \in Nat
    BY <2>1 DEF Chances, TypeOK
  <2>3. CASE parallel
    BY <1>0, <2>1, <2>2, <2>3 DEF PutsInv, Waiting
  <2>4. CASE ~parallel
    BY <1>0, <2>1, <2>2, <2>4 DEF PutsInv, Waiting
  <2> QED  BY <2>3, <2>4
<1>7. CASE AllHandled
  BY <1>0, <1>7, PutsStutter DEF AllHandled
<1>8. CASE BlockOnPut \/ PutPill
  BY <1>0, <1>8, PutsStutter DEF BlockOnPut, PutPill
<1>9. CASE BeginJoin \/ Finish \/ JoinRaises \/ Cancel
  BY <1>0, <1>9, PutsStutter DEF BeginJoin, Finish, JoinRaises, Cancel
<1>10. CASE WorkerDies \/ UNCHANGED vars
  BY <1>0, <1>10, PutsStutter DEF WorkerDies, vars
<1>11. ASSUME NEW c \in Consumers, Consumer(c) PROVE PutsInv'
  BY <1>0, <1>11, PutsStutter
  DEF Consumer, ConsumerFails, GetItem, GetPill, WriteDone
<1>12. ASSUME NEW j \in Items, Task(j) PROVE PutsInv'
  <2>1. /\ pc' = pc /\ toput' = toput /\ next' = next /\ waitset' = waitset
        /\ due' = due /\ \A i \in Items : Chances(i)' = Chances(i)
    BY <1>12 DEF Task, StartTask, SubmitRefused, FinishTask, Discard, Chances
  <2>2. \A i \in Items : \/ task'[i] = task[i]
                         \/ task[i] = "created" /\ task'[i] \in {"running", "done"}
                         \/ task[i] = "running" /\ task'[i] = "done"
                         \/ task[i] = "done" /\ task'[i] = "discarded"
    BY <1>12 DEF Task, StartTask, SubmitRefused, FinishTask, Discard, TypeOK
  <2>3. CASE parallel
    BY <1>0, <2>1, <2>2, <2>3 DEF PutsInv, Waiting
  <2>4. CASE ~parallel
    BY <1>0, <2>1, <2>4 DEF PutsInv, Waiting
  <2> QED  BY <2>3, <2>4
<1> QED
  BY <1>1, <1>2, <1>3, <1>4, <1>5, <1>6, <1>7, <1>8, <1>9, <1>10, <1>11, <1>12
  DEF Next, Producer, Returned

(* No result is put a third time (to_graph.py:147-155).                    *)
THEOREM NoThirdPut == Spec => []PutAtMostTwice
<1>1. Init => TypeOK /\ PutsInv
  BY TypeInit, PutsInit
<1>2. TypeOK /\ PutsInv /\ [Next]_vars => TypeOK' /\ PutsInv'
  BY TypeStep, PutsStep
<1>3. TypeOK /\ PutsInv => PutAtMostTwice
  <2> SUFFICES ASSUME TypeOK, PutsInv, NEW i \in Items PROVE puts[i] <= 2
    BY DEF PutAtMostTwice
  <2>1. puts[i] \in Nat /\ puts[i] <= Chances(i)
    BY DEF TypeOK, Chances
  <2>2. Chances(i) \in 0 .. 2
    BY DEF PutsInv, TypeOK
  <2> QED  BY <2>1, <2>2
<1> QED  BY <1>1, <1>2, <1>3, PTL DEF Spec
-----------------------------------------------------------------------------
(***************************************************************************)
(* What the producer holds: nothing once it sends the stop markers; it is  *)
(* suspended in put only with something to put, and waits for tasks that   *)
(* exist; what a consumer writes is an item.                               *)
(***************************************************************************)
HandsInv ==
  /\ pc \in {"pills", "join", "finished"} => toput = {}
  /\ blocked => \/ pc \in {"handle", "flush"} /\ toput # {}
                \/ pc = "pills" /\ pills > 0
  /\ Waiting => \A i \in waitset : task[i] # "none"
  /\ \A c \in Consumers : cstate[c] = "writing" => citem[c] # Pill

LEMMA HandsInit == Init => HandsInv
  BY DEF Init, HandsInv, Waiting

LEMMA HandsStep ==
  ASSUME TypeOK, PutsInv, HandsInv, [Next]_vars
  PROVE  HandsInv'
<1> USE DEF producerVars, taskVars, consumerVars, args
<1>1. CASE Submit
  <2>1. next \in Items /\ ~blocked
    BY <1>1 DEF Submit, Items, TypeOK, HandsInv
  <2>2. Waiting' => \A i \in waitset' : task'[i] # "none"
    BY <1>1, <2>1 DEF Submit, Waiting, Pending, TypeOK
  <2> QED  BY <1>1, <2>1, <2>2 DEF Submit, HandsInv
<1>2. CASE EndOfItems
  <2>1. toput = {} /\ ~blocked
    BY <1>2 DEF EndOfItems, PutsInv, HandsInv
  <2>2. Waiting' => \A i \in waitset' : task'[i] # "none"
    BY <1>2 DEF EndOfItems, Waiting, ToGather, Pending
  <2> QED  BY <1>2, <2>1, <2>2 DEF EndOfItems, HandsInv
<1>3. CASE WaitReturns \/ GatherReturns
  BY <1>3 DEF WaitReturns, GatherReturns, HandsInv, Waiting
<1>4. CASE RunLocal
  BY <1>4 DEF RunLocal, HandsInv, Waiting
<1>5. ASSUME NEW i \in Items, SkipResult(i) \/ PutResult(i) PROVE HandsInv'
  BY <1>5 DEF SkipResult, PutResult, HandsInv, Waiting
<1>6. CASE BlockOnPut
  BY <1>6 DEF BlockOnPut, HandsInv, Waiting
<1>7. CASE AllHandled
  BY <1>7 DEF AllHandled, HandsInv, Waiting
<1>8. CASE PutPill \/ BeginJoin \/ Finish \/ JoinRaises
  BY <1>8 DEF PutPill, BeginJoin, Finish, JoinRaises, HandsInv, Waiting
<1>9. ASSUME NEW i \in Items, Task(i) PROVE HandsInv'
  <2>1. \A j \in Items : task[j] # "none" => task'[j] # "none"
    BY <1>9 DEF Task, StartTask, SubmitRefused, FinishTask, Discard, TypeOK
  <2>2. UNCHANGED <<producerVars, consumerVars>>
    BY <1>9 DEF Task, StartTask, SubmitRefused, FinishTask, Discard
  <2> QED  BY <2>1, <2>2 DEF HandsInv, Waiting, TypeOK
<1>10. ASSUME NEW c \in Consumers, Consumer(c) PROVE HandsInv'
  <2>1. UNCHANGED <<pc, toput, blocked, pills, waitset, task>>
    BY <1>10 DEF Consumer, ConsumerFails, GetItem, GetPill, WriteDone
  <2>2. \A d \in Consumers : cstate'[d] = "writing" => citem'[d] # Pill
    <3>1. CASE ConsumerFails(c)
      BY <3>1 DEF ConsumerFails, HandsInv, TypeOK
    <3>2. CASE GetItem(c)
      BY <3>2 DEF GetItem, HandsInv, TypeOK
    <3>3. CASE GetPill(c)
      BY <3>3 DEF GetPill, HandsInv, TypeOK
    <3>4. CASE WriteDone(c)
      BY <3>4 DEF WriteDone, HandsInv, TypeOK
    <3> QED  BY <1>10, <3>1, <3>2, <3>3, <3>4 DEF Consumer
  <2> QED  BY <2>1, <2>2 DEF HandsInv, Waiting
<1>11. CASE WorkerDies \/ UNCHANGED vars
  BY <1>11 DEF WorkerDies, vars, HandsInv, Waiting
<1>12. CASE Cancel
  BY <1>12 DEF Cancel, HandsInv, Waiting
<1> QED
  BY <1>1, <1>2, <1>3, <1>4, <1>5, <1>6, <1>7, <1>8, <1>9, <1>10, <1>11, <1>12
  DEF Next, Producer, Returned

-----------------------------------------------------------------------------
(***************************************************************************)
(* Where a result is until it is put.  As long as no put of a result       *)
(* suspended, tasks settle and callbacks run only while the producer waits *)
(* for a snapshot that holds them: a result is in a settled task that is   *)
(* still pending, in that snapshot, or in the producer's hands.            *)
(***************************************************************************)
PlaceInv ==
  ~everBlocked /\ pc \notin {"raised", "cancelled"} =>
    /\ blocked => pc \notin {"handle", "flush"}
    /\ \A i \in Items :
         result[i] = "data" /\ puts[i] = 0 =>
           \/ i \in toput
           \/ task[i] = "done"
           \/ Waiting /\ i \in waitset /\ task[i] = "discarded"

LEMMA PlaceInit == Init => PlaceInv
  BY DEF Init, PlaceInv

(* A step that leaves the results, and how often they were put, alone.      *)
LEMMA PlaceStutter ==
  ASSUME PlaceInv, result' = result, puts' = puts, task' = task,
         toput' = toput, everBlocked' = everBlocked, blocked' = blocked,
         \/ pc' = pc /\ waitset' = waitset
         \/ pc' \in {"raised", "cancelled"}
         \/ /\ pc \notin {"wait", "gather", "raised", "cancelled"}
            /\ pc' \notin {"handle", "flush"}
  PROVE  PlaceInv'
  BY DEF PlaceInv, Waiting

LEMMA PlaceStep ==
  ASSUME TypeOK, WindowInv, DrainInv, PutsInv, HandsInv, PlaceInv, [Next]_vars
  PROVE  PlaceInv'
<1> USE DEF producerVars, taskVars, consumerVars, args
<1>1. CASE Submit
  <2>1. next \in Items /\ task[next] = "none" /\ ~Waiting
    BY <1>1 DEF Submit, Items, TypeOK, PutsInv, Waiting
  <2>2. task' = [task EXCEPT ![next] = "created"]
    BY <1>1 DEF Submit
  <2>3. \A i \in Items : task[i] = "done" => task'[i] = "done"
    BY <2>1, <2>2 DEF TypeOK
  <2> QED  BY <1>1, <2>1, <2>3 DEF Submit, PlaceInv
<1>2. CASE WaitReturns
  <2>1. \A i \in Items : task[i] = "done" => i \in waitset
    BY <1>2 DEF WaitReturns, WindowInv, Pending
  <2> QED
    BY <1>2, <2>1 DEF WaitReturns, Settled, PlaceInv, HandsInv, PutsInv, Waiting
<1>3. CASE GatherReturns
  <2>1. \A i \in Items : task[i] = "done" => i \in waitset
    BY <1>3 DEF GatherReturns, DrainInv, Pending
  <2> QED  BY <1>3, <2>1 DEF GatherReturns, PlaceInv, HandsInv, PutsInv, Waiting
<1>4. CASE EndOfItems
  BY <1>4, PlaceStutter DEF EndOfItems
<1>5. CASE RunLocal
  <2>1. next \in Items /\ ~Waiting
    BY <1>5 DEF RunLocal, Items, TypeOK, Waiting
  <2>2. PICK r \in Outcome : /\ result' = [result EXCEPT ![next] = r]
                             /\ r = "error" => pc' = "raised"
                             /\ r # "error" => toput' = {next}
    BY <1>5, OutcomesAssumption, ZenonT(30) DEF RunLocal, TypeOK
  <2>3. toput = {} /\ ~blocked
    BY <1>5 DEF RunLocal, PutsInv, HandsInv
  <2>4. \A i \in Items : i # next => result'[i] = result[i]
    BY <2>2 DEF TypeOK
  <2> QED
    BY <1>5, <2>1, <2>2, <2>3, <2>4 DEF RunLocal, PlaceInv, Waiting
<1>6. ASSUME NEW j \in Items, SkipResult(j) PROVE PlaceInv'
  BY <1>6 DEF SkipResult, NeedsPut, PlaceInv, Waiting
<1>7. ASSUME NEW j \in Items, PutResult(j) PROVE PlaceInv'
  <2>1. puts'[j] # 0 /\ \A i \in Items : i # j => puts'[i] = puts[i]
    BY <1>7 DEF PutResult, TypeOK
  <2> QED  BY <1>7, <2>1 DEF PutResult, PlaceInv, Waiting
<1>8. CASE BlockOnPut
  BY <1>8 DEF BlockOnPut, PlaceInv, Waiting
<1>9. CASE AllHandled
  BY <1>9 DEF AllHandled, PlaceInv, Waiting, HandsInv
<1>10. CASE PutPill
  BY <1>10 DEF PutPill, PlaceInv, Waiting
<1>11. CASE BeginJoin \/ Finish \/ JoinRaises
  BY <1>11, PlaceStutter DEF BeginJoin, Finish, JoinRaises
<1>12. ASSUME NEW j \in Items, Task(j) PROVE PlaceInv'
  <2>1. /\ UNCHANGED <<producerVars, puts>>
        /\ \A i \in Items : i # j => task'[i] = task[i] /\ result'[i] = result[i]
    BY <1>12 DEF Task, StartTask, SubmitRefused, FinishTask, Discard, TypeOK
  <2>2. \/ task'[j] = "running" /\ task[j] = "created" /\ result' = result
        \/ task'[j] = "done"
        \/ task'[j] = "discarded" /\ task[j] = "done" /\ result' = result
    BY <1>12 DEF Task, StartTask, SubmitRefused, FinishTask, Discard, TypeOK
  <2>3. ASSUME task[j] = "done", Suspended, ~everBlocked, PlaceInv,
               pc \notin {"raised", "cancelled"}
        PROVE  Waiting /\ j \in waitset
    <3>1. j \in Pending
      BY <2>3 DEF Pending
    <3>2. blocked => pc = "pills"
      BY <2>3 DEF PlaceInv, HandsInv
    <3> QED
      BY <2>3, <3>1, <3>2 DEF Suspended, Waiting, WindowInv, DrainInv
  <2>4. Suspended
    BY <1>12 DEF Task, StartTask, SubmitRefused, FinishTask, Discard
  <2> QED  BY <2>1, <2>2, <2>3, <2>4 DEF PlaceInv, Waiting
<1>13. ASSUME NEW c \in Consumers, Consumer(c) PROVE PlaceInv'
  BY <1>13, PlaceStutter
  DEF Consumer, ConsumerFails, GetItem, GetPill, WriteDone
<1>14. CASE WorkerDies \/ UNCHANGED vars
  BY <1>14, PlaceStutter DEF WorkerDies, vars
<1>15. CASE Cancel
  BY <1>15 DEF Cancel, PlaceInv
<1> QED
  BY <1>1, <1>2, <1>3, <1>4, <1>5, <1>6, <1>7, <1>8, <1>9, <1>10, <1>11,
     <1>12, <1>13, <1>14, <1>15
  DEF Next, Producer, Returned

(* A run that never had to wait for room in the queue with a result in its *)
(* hands has put every result when it sends the stop markers               *)
(* (to_graph.py:128-168).                                                  *)
THEOREM LossNeedsBlocking == Spec => []AllPutUnlessBlocked
<1> DEFINE Inv == TypeOK /\ WindowInv /\ LocalInv /\ DrainInv /\ PutsInv
                    /\ HandsInv /\ PlaceInv
<1>1. Init => Inv
  BY TypeInit, WindowInit, OrderlyInit, PutsInit, HandsInit, PlaceInit DEF ResultInv, LocalInv
<1>2. Inv /\ [Next]_vars => Inv'
  BY TypeStep, WindowStep, LocalStep, DrainStep, PutsStep, HandsStep, PlaceStep
<1>3. Inv => AllPutUnlessBlocked
  <2> SUFFICES ASSUME Inv, pc \in {"pills", "join", "finished"}, ~everBlocked,
                      NEW i \in Items, result[i] = "data", puts[i] = 0
               PROVE  FALSE
    BY DEF AllPutUnlessBlocked, TypeOK
  <2>1. toput = {} /\ Pending = {}
    BY DEF HandsInv, DrainInv
  <2> QED  BY <2>1 DEF PlaceInv, Waiting, Pending
<1> QED  BY <1>1, <1>2, <1>3, PTL DEF Spec
-----------------------------------------------------------------------------
(***************************************************************************)
(* GraphEngine implements BoundedPipeline, for every number of items and   *)
(* consumers and every window and queue size: each step of a run is a step *)
(* of the contract, or changes nothing the contract sees.                  *)
(***************************************************************************)

InQueue(q, i) == {k \in DOMAIN q : q[k] = i}
Writers(i) == {c \in Consumers : cstate[c] = "writing" /\ citem[c] = i}
Out == [i \in Items |-> Copies(i)]

-----------------------------------------------------------------------------
(* The steps of the contract, read in the engine's variables.              *)

ContractStep == [Contract!Next]_Contract!vars

LEMMA Stutters ==
  ASSUME Phase' = Phase, HeldItems' = HeldItems,
         \A i \in Items : Copies(i)' = Copies(i)
  PROVE  ContractStep
<1>1. Out' = Out
  BY DEF Out
<1> QED  BY <1>1 DEF ContractStep, Contract!vars, Out

LEMMA Admits ==
  ASSUME Phase = "open", Phase' = "open", NEW i \in Items,
         HeldItems' = HeldItems \cup {i}, Cardinality(HeldItems') <= SemSize,
         \A j \in Items : Copies(j)' = Copies(j)
  PROVE  ContractStep
<1>1. Out' = Out
  BY DEF Out
<1>2. Contract!Admit(i)
  BY <1>1 DEF Contract!Admit, Contract!Cardinality, Cardinality, Out
<1> QED  BY <1>2 DEF ContractStep, Contract!Next

LEMMA Releases ==
  ASSUME Phase = "open", Phase' = "open", NEW i \in Items,
         HeldItems' \in {HeldItems, HeldItems \ {i}},
         \A j \in Items : Copies(j)' = Copies(j)
  PROVE  ContractStep
<1>1. Out' = Out
  BY DEF Out
<1>2. CASE HeldItems' = HeldItems \ {i}
  <2>1. Contract!Release(i)
    BY <1>1, <1>2 DEF Contract!Release, Out
  <2> QED  BY <2>1 DEF ContractStep, Contract!Next
<1>3. CASE HeldItems' = HeldItems
  BY <1>3, Stutters
<1> QED  BY <1>2, <1>3

LEMMA Emits ==
  ASSUME Phase = "open", Phase' = "open", NEW i \in Items, i \in HeldItems,
         HeldItems' \in {HeldItems, HeldItems \ {i}}, Copies(i)' = Copies(i) + 1,
         \A j \in Items \ {i} : Copies(j)' = Copies(j)
  PROVE  ContractStep
<1>1. Out' = [Out EXCEPT ![i] = @ + 1]
  BY DEF Out
<1>2. Contract!Emit(i)
  BY <1>1 DEF Contract!Emit, Out
<1> QED  BY <1>2 DEF ContractStep, Contract!Next

LEMMA Delivers ==
  ASSUME Phase \in {"open", "closed"}, Phase' = Phase, NEW i \in Items,
         HeldItems' = HeldItems, Copies(i) > 0, Copies(i)' = Copies(i) - 1,
         \A j \in Items \ {i} : Copies(j)' = Copies(j)
  PROVE  ContractStep
<1>1. Out' = [Out EXCEPT ![i] = @ - 1]
  BY DEF Out
<1>2. Contract!Deliver(i)
  BY <1>1 DEF Contract!Deliver, Out
<1> QED  BY <1>2 DEF ContractStep, Contract!Next

LEMMA Closes ==
  ASSUME Phase = "open", Phase' = "closed", HeldItems = {}, HeldItems' = {},
         \A i \in Items : Copies(i)' = Copies(i)
  PROVE  ContractStep
<1>1. Out' = Out
  BY DEF Out
<1>2. Contract!Close
  BY <1>1 DEF Contract!Close, Out
<1> QED  BY <1>2 DEF ContractStep, Contract!Next

LEMMA Finishes ==
  ASSUME Phase = "closed", Phase' = "finished", HeldItems' = HeldItems,
         \A i \in Items : Copies(i) = 0 /\ Copies(i)' = Copies(i)
  PROVE  ContractStep
<1>1. Out' = Out
  BY DEF Out
<1>2. Contract!Finish
  BY <1>1 DEF Contract!Finish, Out
<1> QED  BY <1>2 DEF ContractStep, Contract!Next

LEMMA Aborts ==
  ASSUME Phase \in {"open", "closed"}, Phase' = "aborted",
         HeldItems' \subseteq Items, \A i \in Items : Copies(i)' \in Nat
  PROVE  ContractStep
<1>1. Out' \in [Items -> Nat]
  BY DEF Out
<1>2. Contract!Abort
  BY <1>1 DEF Contract!Abort, Out
<1> QED  BY <1>2 DEF ContractStep, Contract!Next
-----------------------------------------------------------------------------
(* The copies of an item in the queue.                                     *)

LEMMA QueueFinite ==
  ASSUME NEW S, NEW q \in Seq(S), NEW i
  PROVE  IsFiniteSet(InQueue(q, i)) /\ Cardinality(InQueue(q, i)) \in Nat
<1>1. IsFiniteSet(1 .. Len(q)) /\ InQueue(q, i) \in SUBSET (1 .. Len(q))
  BY FS_Interval DEF InQueue
<1> QED  BY <1>1, FS_Subset, FS_CardinalityType

LEMMA AppendCount ==
  ASSUME NEW S, NEW q \in Seq(S), NEW x \in S, NEW i
  PROVE  Cardinality(InQueue(Append(q, x), i)) =
           Cardinality(InQueue(q, i)) + (IF x = i THEN 1 ELSE 0)
<1> DEFINE n == Len(q) + 1
<1>1. /\ Append(q, x) \in Seq(S) /\ DOMAIN Append(q, x) = 1 .. n
      /\ \A k \in 1 .. Len(q) : Append(q, x)[k] = q[k]
      /\ Append(q, x)[n] = x /\ n \notin DOMAIN q /\ DOMAIN q = 1 .. Len(q)
  OBVIOUS
<1>2. InQueue(Append(q, x), i) =
        IF x = i THEN InQueue(q, i) \cup {n} ELSE InQueue(q, i)
  BY <1>1 DEF InQueue
<1>3. IsFiniteSet(InQueue(q, i)) /\ Cardinality(InQueue(q, i)) \in Nat
  BY QueueFinite
<1>4. n \notin InQueue(q, i)
  BY <1>1 DEF InQueue
<1>5. Cardinality(InQueue(q, i) \cup {n}) = Cardinality(InQueue(q, i)) + 1
  BY <1>3, <1>4, FS_AddElement
<1> QED  BY <1>2, <1>3, <1>5

LEMMA TailCount ==
  ASSUME NEW S, NEW q \in Seq(S), q # <<>>, NEW i
  PROVE  Cardinality(InQueue(q, i)) =
           Cardinality(InQueue(Tail(q), i)) + (IF Head(q) = i THEN 1 ELSE 0)
<1> DEFINE A == InQueue(q, i) \ {1}
           B == InQueue(Tail(q), i)
           f == [k \in A |-> k - 1]
<1>1. /\ Len(q) \in Nat \ {0} /\ DOMAIN q = 1 .. Len(q) /\ Head(q) = q[1]
      /\ DOMAIN Tail(q) = 1 .. Len(q) - 1
      /\ \A k \in 1 .. Len(q) - 1 : Tail(q)[k] = q[k + 1]
  OBVIOUS
<1>2. A \subseteq 2 .. Len(q) /\ B \subseteq 1 .. Len(q) - 1
  BY <1>1 DEF InQueue
<1>3. \A k \in 2 .. Len(q) : k \in A <=> k - 1 \in B
  BY <1>1 DEF InQueue
<1>4. f \in [A -> B]
  BY <1>2, <1>3
<1>5. \A b \in B : \E a \in A : f[a] = b
  <2> SUFFICES ASSUME NEW b \in B PROVE b + 1 \in A /\ f[b + 1] = b
    OBVIOUS
  <2> QED  BY <1>2, <1>3
<1>6. \A a, b \in A : f[a] = f[b] => a = b
  BY <1>2
<1>7. ExistsBijection(A, B)
  BY <1>4, <1>5, <1>6
  DEF ExistsBijection, Bijection, Injection, Surjection, IsInjective
<1>8. IsFiniteSet(InQueue(q, i)) /\ Cardinality(InQueue(q, i)) \in Nat
  BY QueueFinite
<1>9. IsFiniteSet(A) /\ Cardinality(A) =
        IF 1 \in InQueue(q, i) THEN Cardinality(InQueue(q, i)) - 1
                               ELSE Cardinality(InQueue(q, i))
  BY <1>8, FS_RemoveElement
<1>10. Cardinality(A) = Cardinality(B)
  BY <1>7, <1>9, FS_Bijection
<1>11. 1 \in InQueue(q, i) <=> Head(q) = i
  BY <1>1 DEF InQueue
<1> QED  BY <1>8, <1>9, <1>10, <1>11

LEMMA CopiesFacts ==
  ASSUME TypeOK, NEW i \in Items
  PROVE  /\ Copies(i) = Cardinality(InQueue(queue, i)) + Cardinality(Writers(i))
         /\ Cardinality(InQueue(queue, i)) \in Nat
         /\ IsFiniteSet(Writers(i)) /\ Cardinality(Writers(i)) \in Nat
         /\ Copies(i) \in Nat
<1>1. Writers(i) \in SUBSET Consumers
  BY DEF Writers
<1>2. IsFiniteSet(Writers(i)) /\ Cardinality(Writers(i)) \in Nat
  BY <1>1, StoppedFinite
<1>3. Cardinality(InQueue(queue, i)) \in Nat
  BY QueueFinite DEF TypeOK
<1>4. Copies(i) = Cardinality(InQueue(queue, i)) + Cardinality(Writers(i))
  BY DEF Copies, InQueue, Writers
<1> QED  BY <1>2, <1>3, <1>4

LEMMA SameCopies ==
  ASSUME queue' = queue, cstate' = cstate, citem' = citem
  PROVE  \A i \in Items : Copies(i)' = Copies(i)
  BY DEF Copies

MapsTo ==
  TypeOK /\ WindowInv /\ ResultInv /\ DrainInv /\ PillInv /\ PutsInv /\ HandsInv

-----------------------------------------------------------------------------
(* The steps of the producer.                                              *)

LEMMA MapTasks ==
  ASSUME MapsTo, Submit \/ WaitReturns \/ EndOfItems \/ GatherReturns
  PROVE  ContractStep
<1> USE DEF producerVars, taskVars, consumerVars, args
<1>0. TypeOK /\ WindowInv /\ ResultInv /\ DrainInv /\ PutsInv /\ HandsInv
  BY DEF MapsTo
<1>1. \A i \in Items : Copies(i)' = Copies(i)
  BY SameCopies DEF Submit, WaitReturns, EndOfItems, GatherReturns
<1>2. CASE Submit
  <2>1. next \in Items /\ toput = {} /\ toput' = {} /\ pc = "loop"
        /\ pc' \in {"loop", "wait"} /\ (pc' = "wait" => waitset' = Pending')
    BY <1>0, <1>2 DEF Submit, Items, TypeOK, PutsInv, Pending
  <2>2. Pending' = Pending \cup {next}
    BY <1>0, <1>2, <2>1 DEF Submit, Pending, TypeOK
  <2>3. HeldItems = Pending /\ HeldItems' = Pending'
    BY <2>1 DEF HeldItems
  <2>4. Pending \in SUBSET Items /\ Cardinality(Pending) < SemSize
    BY <1>0, <2>1 DEF WindowInv, Pending
  <2>5. Cardinality(Pending \cup {next}) <= SemSize
    BY <2>4, ItemsFinite, FS_AddElement, SizesAssumption
  <2> QED
    BY <1>1, <2>1, <2>2, <2>3, <2>5, Admits DEF Phase
<1>3. CASE WaitReturns
  <2>1. /\ pc = "wait" /\ pc' = "handle" /\ task' = task /\ toput = {}
        /\ toput' = Settled(waitset) /\ Pending \subseteq waitset
        /\ waitset \subseteq Items /\ \A i \in waitset : task[i] # "none"
    BY <1>0, <1>3 DEF WaitReturns, PutsInv, WindowInv, TypeOK, HandsInv, Waiting
  <2>2. Pending \cup Settled(waitset) = waitset
    <3>1. ASSUME NEW i \in waitset PROVE i \in Pending \/ i \in Settled(waitset)
      <4>1. i \in Items /\ task[i] \in TaskState \ {"none"}
        BY <1>0, <2>1, <3>1 DEF TypeOK
      <4>2. task[i] \in {"created", "running", "done", "discarded"}
        BY <4>1 DEF TaskState
      <4> QED  BY <3>1, <4>1, <4>2 DEF Pending, Settled
    <3>2. Settled(waitset) \subseteq waitset
      BY DEF Settled
    <3> QED  BY <2>1, <3>1, <3>2
  <2>3. HeldItems = waitset /\ HeldItems' = waitset
    BY <2>1, <2>2 DEF HeldItems, Pending
  <2> QED  BY <1>1, <2>1, <2>3, Stutters DEF Phase
<1>4. CASE EndOfItems
  <2>1. pc = "loop" /\ task' = task /\ toput = {} /\ toput' = {}
    BY <1>0, <1>4 DEF EndOfItems, PutsInv
  <2>2. ~parallel => Pending = {}
    BY <1>0 DEF ResultInv, LocalInv, Pending
  <2>3. HeldItems = Pending /\ Pending' = Pending
    BY <2>1 DEF HeldItems, Pending
  <2>4. CASE ToGather = {}
    <3>1. Pending = {} /\ pc' = "pills"
      BY <1>4, <2>2, <2>4 DEF EndOfItems, ToGather
    <3>2. HeldItems' = {}
      BY <2>1, <2>3, <3>1 DEF HeldItems
    <3> QED  BY <1>1, <2>1, <2>3, <3>1, <3>2, Closes DEF Phase
  <2>5. CASE ToGather # {}
    <3>1. pc' = "gather" /\ waitset' = Pending
      BY <1>4, <2>5 DEF EndOfItems, ToGather
    <3>2. HeldItems' = HeldItems
      BY <2>1, <2>3, <3>1 DEF HeldItems
    <3> QED  BY <1>1, <2>1, <3>1, <3>2, Stutters DEF Phase
  <2> QED  BY <2>4, <2>5
<1>5. CASE GatherReturns
  <2>1. /\ pc = "gather" /\ pc' = "flush" /\ task' = task /\ toput = {}
        /\ toput' = waitset /\ Pending \subseteq waitset
    BY <1>0, <1>5 DEF GatherReturns, PutsInv, DrainInv
  <2>2. HeldItems = waitset /\ HeldItems' = waitset
    BY <2>1 DEF HeldItems, Pending
  <2> QED  BY <1>1, <2>1, <2>2, Stutters DEF Phase
<1> QED  BY <1>2, <1>3, <1>4, <1>5

LEMMA MapResults ==
  ASSUME MapsTo,
         RunLocal \/ \E i \in Items : SkipResult(i) \/ PutResult(i)
  PROVE  ContractStep
<1> USE DEF producerVars, taskVars, consumerVars, args
<1>0. TypeOK /\ ResultInv /\ PutsInv
  BY DEF MapsTo
<1>1. CASE RunLocal
  <2>1. /\ next \in Items /\ pc = "loop" /\ toput = {} /\ Pending = {}
        /\ task' = task
    BY <1>0, <1>1 DEF RunLocal, Items, TypeOK, PutsInv, ResultInv, LocalInv, Pending
  <2>2. HeldItems = {} /\ Pending' = {}
    BY <2>1 DEF HeldItems, Pending
  <2>3. \A i \in Items : Copies(i)' = Copies(i)
    BY <1>1, SameCopies DEF RunLocal
  <2>4. CASE pc' = "handle"
    <3>1. toput' = {next}
      BY <1>1, <2>4 DEF RunLocal
    <3>2. HeldItems' = {next} /\ Cardinality({next}) = 1
      BY <2>2, <2>4, <3>1, FS_Singleton DEF HeldItems
    <3>3. Cardinality(HeldItems') <= SemSize
      BY <3>2, SizesAssumption
    <3> QED  BY <2>1, <2>2, <2>3, <2>4, <3>2, <3>3, Admits DEF Phase
  <2>5. CASE pc' = "raised"
    <3>1. HeldItems' \subseteq Items
      BY <1>1, <2>1, <2>2, <2>5 DEF HeldItems, RunLocal
    <3>2. \A i \in Items : Copies(i)' \in Nat
      BY <1>0, <2>3, CopiesFacts
    <3> QED  BY <2>1, <2>5, <3>1, <3>2, Aborts DEF Phase
  <2> QED  BY <1>1, <2>4, <2>5 DEF RunLocal
<1>2. ASSUME NEW i \in Items, SkipResult(i) \/ PutResult(i) PROVE ContractStep
  <2>1. /\ pc \in {"handle", "flush"} /\ pc' = pc /\ task' = task
        /\ i \in toput /\ toput' = toput \ {i}
    BY <1>2 DEF SkipResult, PutResult
  <2>2. /\ HeldItems = Pending \cup toput /\ Pending' = Pending
        /\ HeldItems' = Pending \cup (toput \ {i})
    BY <2>1 DEF HeldItems, Pending
  <2>3. i \in HeldItems /\ HeldItems' \in {HeldItems, HeldItems \ {i}}
    BY <2>1, <2>2
  <2>4. Phase = "open" /\ Phase' = "open"
    BY <2>1 DEF Phase
  <2>5. CASE SkipResult(i)
    <3>1. \A j \in Items : Copies(j)' = Copies(j)
      BY <2>5, SameCopies DEF SkipResult
    <3> QED  BY <2>3, <2>4, <3>1, Releases
  <2>6. CASE PutResult(i)
    <3>1. /\ queue' = Append(queue, Payload(i)) /\ cstate' = cstate
          /\ citem' = citem /\ queue \in Seq(Items \cup {Pill})
          /\ Payload(i) \in Items \cup {Pill} /\ Payload(i) \in {i, Pill}
      BY <1>0, <2>6 DEF PutResult, Payload, TypeOK
    <3>2. ASSUME NEW j \in Items
          PROVE  Copies(j)' = Copies(j) + (IF Payload(i) = j THEN 1 ELSE 0)
      <4>1. Cardinality(InQueue(queue', j)) =
              Cardinality(InQueue(queue, j)) + (IF Payload(i) = j THEN 1 ELSE 0)
        BY <3>1, AppendCount
      <4>2. Copies(j)' = Cardinality(InQueue(queue', j)) + Cardinality(Writers(j))
        BY <3>1 DEF Copies, InQueue, Writers
      <4> QED  BY <1>0, <4>1, <4>2, CopiesFacts
    <3>3. \A j \in Items : Copies(j) \in Nat /\ j # Pill
      BY <1>0, CopiesFacts DEF Items, Pill
    <3>4. CASE Payload(i) = i
      BY <2>3, <2>4, <3>2, <3>3, <3>4, Emits
    <3>5. CASE Payload(i) = Pill
      BY <2>3, <2>4, <3>2, <3>3, <3>5, Releases
    <3> QED  BY <3>1, <3>4, <3>5
  <2> QED  BY <1>2, <2>5, <2>6
<1> QED  BY <1>1, <1>2

LEMMA MapShutdown ==
  ASSUME MapsTo, BlockOnPut \/ AllHandled \/ PutPill \/ BeginJoin \/ Finish
                   \/ JoinRaises
  PROVE  ContractStep
<1> USE DEF producerVars, taskVars, consumerVars, args
<1>0. TypeOK /\ DrainInv /\ PillInv /\ HandsInv
  BY DEF MapsTo
<1>1. Pending' = Pending /\ toput' = toput /\ waitset' = waitset
  BY DEF BlockOnPut, AllHandled, PutPill, BeginJoin, Finish, JoinRaises, Pending
<1>2. CASE PutPill
  <2>1. /\ queue' = Append(queue, Pill) /\ cstate' = cstate /\ citem' = citem
        /\ queue \in Seq(Items \cup {Pill}) /\ pc' = pc
    BY <1>0, <1>2 DEF PutPill, TypeOK
  <2>2. ASSUME NEW j \in Items PROVE Copies(j)' = Copies(j)
    <3>1. Cardinality(InQueue(queue', j)) = Cardinality(InQueue(queue, j)) + 0
      BY <2>1, AppendCount DEF Items, Pill
    <3>2. Copies(j)' = Cardinality(InQueue(queue', j)) + Cardinality(Writers(j))
      BY <2>1 DEF Copies, InQueue, Writers
    <3> QED  BY <1>0, <3>1, <3>2, CopiesFacts
  <2> QED  BY <1>1, <2>1, <2>2, Stutters DEF Phase, HeldItems
<1>3. CASE BlockOnPut \/ AllHandled \/ BeginJoin \/ Finish \/ JoinRaises
  <2>1. \A i \in Items : Copies(i)' = Copies(i)
    BY <1>3, SameCopies
    DEF BlockOnPut, AllHandled, BeginJoin, Finish, JoinRaises
  <2>2. CASE BlockOnPut
    BY <1>1, <2>1, <2>2, Stutters DEF BlockOnPut, Phase, HeldItems
  <2>3. CASE AllHandled
    <3>1. CASE pc = "handle"
      <4>1. pc' = "loop"
        BY <2>3, <3>1 DEF AllHandled
      <4> QED  BY <1>1, <2>1, <3>1, <4>1, Stutters DEF Phase, HeldItems
    <3>2. CASE pc = "flush"
      <4>1. pc' = "pills" /\ toput = {} /\ Pending = {}
        BY <1>0, <2>3, <3>2 DEF AllHandled, DrainInv
      <4> QED  BY <1>1, <2>1, <3>2, <4>1, Closes DEF Phase, HeldItems
    <3> QED  BY <2>3, <3>1, <3>2 DEF AllHandled
  <2>4. CASE BeginJoin
    BY <1>1, <2>1, <2>4, Stutters DEF BeginJoin, Phase, HeldItems
  <2>5. CASE Finish
    <3>1. pc = "join" /\ pc' = "finished"
          /\ \A c \in Consumers : cstate[c] = "stopped"
      BY <2>5 DEF Finish
    <3>2. Stopped = Consumers /\ pills = 0 /\ Stopped # {}
      BY <1>0, <3>1, ConsumersAssumption DEF Stopped, PillInv
    <3>3. Owed = Len(queue) /\ Owed = 0
      BY <1>0, <3>1, <3>2, PillCountIsNat DEF PillInv, Owed
    <3>4. queue = <<>>
      <4>1. queue \in Seq(Items \cup {Pill}) /\ Len(queue) = 0
        BY <1>0, <3>3 DEF TypeOK
      <4> QED  BY <4>1
    <3>5. ASSUME NEW i \in Items PROVE Copies(i) = 0
      <4>1. InQueue(queue, i) = {} /\ Writers(i) = {}
        BY <3>1, <3>4 DEF InQueue, Writers
      <4> QED  BY <1>0, <4>1, CopiesFacts, FS_EmptySet
    <3> QED
      BY <1>1, <2>1, <3>1, <3>5, Finishes DEF Phase, HeldItems
  <2>6. CASE JoinRaises
    <3>1. pc = "join" /\ pc' = "raised"
      BY <2>6 DEF JoinRaises
    <3>2. HeldItems' \subseteq Items
      BY <1>0, <1>1, <3>1 DEF HeldItems, TypeOK, Pending
    <3>3. \A i \in Items : Copies(i)' \in Nat
      BY <1>0, <2>1, CopiesFacts
    <3> QED  BY <3>1, <3>2, <3>3, Aborts DEF Phase
  <2> QED  BY <1>3, <2>2, <2>3, <2>4, <2>5, <2>6
<1> QED  BY <1>2, <1>3

-----------------------------------------------------------------------------
(* The steps of the tasks, the consumers, and the signal.                  *)

LEMMA MapTask ==
  ASSUME MapsTo, NEW i \in Items, Task(i)
  PROVE  ContractStep
<1> USE DEF producerVars, taskVars, consumerVars, args
<1>0. TypeOK /\ DrainInv /\ HandsInv
  BY DEF MapsTo
<1>1. /\ UNCHANGED <<producerVars, consumerVars, queue>>
      /\ i \in Pending /\ Suspended
  BY <1>0 DEF Task, StartTask, SubmitRefused, FinishTask, Discard, Pending, TypeOK
<1>2. \A j \in Items : Copies(j)' = Copies(j)
  BY <1>1, SameCopies
<1>3. pc \in {"wait", "gather", "handle"}
  BY <1>0, <1>1 DEF DrainInv, Suspended, HandsInv
<1>4. Phase = "open" /\ Phase' = "open"
  BY <1>1, <1>3 DEF Phase
<1>5. Pending' \in {Pending, Pending \ {i}}
  BY <1>0, ZenonT(30) DEF Task, StartTask, SubmitRefused, FinishTask, Discard, Pending, TypeOK
<1>6. HeldItems' \in {HeldItems, HeldItems \ {i}}
  BY <1>1, <1>5 DEF HeldItems
<1> QED  BY <1>2, <1>4, <1>6, Releases

LEMMA MapConsumer ==
  ASSUME MapsTo, NEW c \in Consumers, Consumer(c)
  PROVE  ContractStep
<1> USE DEF producerVars, taskVars, consumerVars, args
<1>0. TypeOK /\ HandsInv
  BY DEF MapsTo
<1>1. UNCHANGED <<producerVars, taskVars>> /\ Suspended
  BY DEF Consumer, ConsumerFails, GetItem, GetPill, WriteDone
<1>2. /\ Phase' = Phase /\ HeldItems' = HeldItems
      /\ Phase \in {"open", "closed"}
  BY <1>0, <1>1 DEF Phase, HeldItems, Pending, Suspended, HandsInv
<1>3. CASE ConsumerFails(c)
  <2>1. ASSUME NEW i \in Items PROVE Copies(i)' = Copies(i)
    BY <1>0, <1>3 DEF ConsumerFails, Copies, TypeOK
  <2> QED  BY <1>2, <2>1, Stutters
<1>4. CASE GetPill(c) \/ GetItem(c)
  <2> DEFINE x == Head(queue)
  <2>1. /\ queue # <<>> /\ queue' = Tail(queue) /\ cstate[c] = "idle"
        /\ queue \in Seq(Items \cup {Pill})
    BY <1>0, <1>4 DEF GetPill, GetItem, TypeOK
  <2>2. ASSUME NEW i \in Items PROVE Copies(i)' = Copies(i)
    <3>1. Cardinality(InQueue(queue, i)) =
            Cardinality(InQueue(queue', i)) + (IF x = i THEN 1 ELSE 0)
      BY <2>1, TailCount
    <3>2. Cardinality(InQueue(queue', i)) \in Nat
      <4>1. queue' \in Seq(Items \cup {Pill})
        BY <2>1
      <4> QED  BY <4>1, QueueFinite
    <3>3. c \notin Writers(i)
      BY <2>1 DEF Writers
    <3>4. Writers(i)' = IF x = i THEN Writers(i) \cup {c} ELSE Writers(i)
      <4>1. CASE GetPill(c)
        BY <1>0, <4>1, <2>1 DEF GetPill, Writers, TypeOK, Items, Pill
      <4>2. CASE GetItem(c)
        BY <1>0, <4>2, <2>1 DEF GetItem, Writers, TypeOK
      <4> QED  BY <1>4, <4>1, <4>2
    <3>5. Cardinality(Writers(i) \cup {c}) = Cardinality(Writers(i)) + 1
      BY <1>0, <3>3, CopiesFacts, FS_AddElement
    <3>6. Copies(i)' = Cardinality(InQueue(queue', i)) + Cardinality(Writers(i)')
      BY DEF Copies, InQueue, Writers
    <3> QED  BY <1>0, <3>1, <3>2, <3>4, <3>5, <3>6, CopiesFacts
  <2> QED  BY <1>2, <2>2, Stutters
<1>5. CASE WriteDone(c)
  <2> DEFINE i == citem[c]
  <2>1. i \in Items /\ cstate[c] = "writing" /\ queue' = queue
    BY <1>0, <1>5 DEF WriteDone, TypeOK, HandsInv
  <2>2. \A j \in Items : Writers(j)' = Writers(j) \ {c}
    BY <1>0, <1>5 DEF WriteDone, Writers, TypeOK
  <2>3. \A j \in Items : c \in Writers(j) <=> j = i
    BY <2>1 DEF Writers
  <2>4. ASSUME NEW j \in Items
        PROVE  /\ Copies(j) \in Nat
               /\ Copies(j)' = Copies(j) - (IF j = i THEN 1 ELSE 0)
    <3>1. Cardinality(Writers(j) \ {c}) =
            Cardinality(Writers(j)) - (IF j = i THEN 1 ELSE 0)
      <4>1. IsFiniteSet(Writers(j)) /\ Cardinality(Writers(j)) \in Nat
        BY <1>0, CopiesFacts
      <4>2. Cardinality(Writers(j) \ {c}) =
              IF c \in Writers(j) THEN Cardinality(Writers(j)) - 1
                                  ELSE Cardinality(Writers(j))
        BY <4>1, FS_RemoveElement
      <4> QED  BY <2>3, <4>1, <4>2
    <3>2. Copies(j)' = Cardinality(InQueue(queue, j)) + Cardinality(Writers(j)')
      BY <2>1 DEF Copies, InQueue, Writers
    <3>3. Cardinality(Writers(j)') = Cardinality(Writers(j) \ {c})
      BY <2>2
    <3>4. /\ Copies(j) = Cardinality(InQueue(queue, j)) + Cardinality(Writers(j))
          /\ Cardinality(InQueue(queue, j)) \in Nat
          /\ Cardinality(Writers(j)) \in Nat /\ Copies(j) \in Nat
      BY <1>0, CopiesFacts
    <3> QED  BY <3>1, <3>2, <3>3, <3>4
  <2>5. Writers(i) # {} /\ IsFiniteSet(Writers(i))
    BY <1>0, <2>1, <2>3, CopiesFacts
  <2>6. Copies(i) > 0
    BY <1>0, <2>1, <2>5, CopiesFacts, FS_EmptySet
  <2> QED  BY <1>2, <2>1, <2>4, <2>6, Delivers
<1> QED  BY <1>3, <1>4, <1>5 DEF Consumer

LEMMA MapCancel ==
  ASSUME MapsTo, Cancel
  PROVE  ContractStep
<1>0. TypeOK /\ TypeOK' /\ HandsInv
  BY TypeStep DEF MapsTo, Next
<1>1. Phase \in {"open", "closed"} /\ Phase' = "aborted"
  BY <1>0 DEF Cancel, Suspended, HandsInv, Phase
<1>2. HeldItems' \subseteq Items
  BY <1>0 DEF TypeOK, HeldItems, Pending
<1>3. \A i \in Items : Copies(i)' \in Nat
  <2>1. \A i \in Items :
          /\ Copies(i)' = Cardinality(InQueue(queue', i)) + Cardinality(Writers(i)')
          /\ Writers(i)' \in SUBSET Consumers
    BY DEF Copies, InQueue, Writers
  <2>2. queue' \in Seq(Items \cup {Pill})
    BY <1>0 DEF TypeOK
  <2> QED  BY <2>1, <2>2, QueueFinite, StoppedFinite
<1> QED  BY <1>1, <1>2, <1>3, Aborts

LEMMA MapNext ==
  ASSUME MapsTo, [Next]_vars
  PROVE  ContractStep
<1>1. CASE WorkerDies \/ UNCHANGED vars
  <2>1. UNCHANGED <<pc, task, toput, waitset, queue, cstate, citem>>
    BY <1>1 DEF WorkerDies, vars, producerVars, consumerVars
  <2>2. \A i \in Items : Copies(i)' = Copies(i)
    BY <2>1, SameCopies
  <2>3. Phase' = Phase /\ HeldItems' = HeldItems
    BY <2>1 DEF Phase, HeldItems, Pending
  <2> QED  BY <2>2, <2>3, Stutters
<1>2. CASE Producer
  BY <1>2, MapTasks, MapResults, MapShutdown DEF Producer
<1> QED  BY <1>1, <1>2, MapTask, MapConsumer, MapCancel DEF Next, Returned

(* A run of the engine is a run of the contract, stop, failure and signal  *)
(* included, as long as no node of a sequential run returns None           *)
(* (to_graph.py:97-190).                                                   *)
THEOREM RunKeepsContract ==
  ASSUME NoFalsePill
  PROVE  Spec => ImplementsContract
<1>1. Init => MapsTo
  BY TypeInit, WindowInit, OrderlyInit, PillInit, PutsInit, HandsInit DEF MapsTo
<1>2. MapsTo /\ [Next]_vars => MapsTo'
  BY NoFalsePill, TypeStep, WindowStep, ResultStep, DrainStep, PillStep,
     PutsStep, HandsStep DEF MapsTo, ResultInv
<1>3. Init => Contract!Init
  <2> SUFFICES ASSUME Init PROVE Contract!Init
    OBVIOUS
  <2>1. Phase = "open" /\ HeldItems = {} /\ TypeOK
    BY TypeInit DEF Init, Phase, HeldItems, Pending
  <2>2. ASSUME NEW i \in Items PROVE Copies(i) = 0
    <3>1. InQueue(queue, i) = {} /\ Writers(i) = {}
      BY DEF Init, InQueue, Writers
    <3> QED  BY <2>1, <3>1, CopiesFacts, FS_EmptySet
  <2> QED  BY <2>1, <2>2 DEF Contract!Init
<1>4. MapsTo /\ [Next]_vars => [Contract!Next]_Contract!vars
  BY MapNext DEF ContractStep
<1> QED
  BY <1>1, <1>2, <1>3, <1>4, PTL DEF Spec, ImplementsContract, Contract!Spec
=============================================================================

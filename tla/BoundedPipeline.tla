-------------------------- MODULE BoundedPipeline --------------------------
(***************************************************************************)
(* What a run of the ETL engine promises, whatever its scheduling: it      *)
(* holds at most Window items at a time, closes its output only when it    *)
(* holds none, and is finished only when all it ever emitted has been      *)
(* delivered to a writer.  It does NOT promise that an item it held is     *)
(* emitted, or emitted once: Release lets it forget one, Emit keeps one.   *)
(***************************************************************************)
EXTENDS Integers, FiniteSets

CONSTANTS Items, Window

VARIABLES
  phase,  \* "open", "closed", "finished" or "aborted"
  held,   \* items admitted and not yet settled
  out     \* how many copies of each item are emitted and not delivered

vars == <<phase, held, out>>

Init == phase = "open" /\ held = {} /\ out = [i \in Items |-> 0]

Admit(i) ==
  /\ phase = "open"
  /\ held' = held \cup {i}
  /\ Cardinality(held') <= Window
  /\ UNCHANGED <<phase, out>>

Release(i) ==
  /\ phase = "open"
  /\ held' = held \ {i}
  /\ UNCHANGED <<phase, out>>

Emit(i) ==
  /\ phase = "open" /\ i \in held
  /\ held' \in {held, held \ {i}}
  /\ out' = [out EXCEPT ![i] = @ + 1]
  /\ UNCHANGED phase

Deliver(i) ==
  /\ phase \in {"open", "closed"} /\ out[i] > 0
  /\ out' = [out EXCEPT ![i] = @ - 1]
  /\ UNCHANGED <<phase, held>>

Close ==
  /\ phase = "open" /\ held = {}
  /\ phase' = "closed"
  /\ UNCHANGED <<held, out>>

Finish ==
  /\ phase = "closed" /\ \A i \in Items : out[i] = 0
  /\ phase' = "finished"
  /\ UNCHANGED <<held, out>>

(* A signal or an exception: what was under way is given up.               *)
Abort ==
  /\ phase \in {"open", "closed"}
  /\ phase' = "aborted"
  /\ held' \subseteq Items
  /\ out' \in [Items -> Nat]

Next ==
  \/ \E i \in Items : Admit(i) \/ Release(i) \/ Emit(i) \/ Deliver(i)
  \/ Close \/ Finish \/ Abort

Spec == Init /\ [][Next]_vars
=============================================================================

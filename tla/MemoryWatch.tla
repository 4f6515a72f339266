----------------------------- MODULE MemoryWatch -----------------------------
(***************************************************************************)
(* MemoryMonitor and memory_limit of core/graph/monitor.py: one owner that *)
(* starts and stops the watch, and the loop threads it started, which      *)
(* share the flag monitoring, the set alerts_sent and the list snapshots   *)
(* without a lock.  stop_monitoring waits half as long for a loop as the   *)
(* loop sleeps, so a loop may outlive its stop and be revived by the next  *)
(* start.  Nothing in the service creates a MemoryMonitor; the module is   *)
(* about the class.                                                        *)
(***************************************************************************)
EXTENDS Integers, FiniteSets

CONSTANTS
  Usages,      \* memory of the process, in percent of max_memory_mb
  WarningAt,   \* warning_threshold, in percent
  CriticalAt,  \* critical_threshold
  Keep,        \* snapshots kept, 100 in the code
  MaxStarts    \* bound: threads started

ASSUME ThresholdsAssumption ==
  /\ Usages \subseteq Nat /\ WarningAt \in Nat /\ CriticalAt \in Nat
  /\ WarningAt <= CriticalAt
ASSUME BoundsAssumption == Keep \in Nat /\ MaxStarts \in Nat

Loops == 1 .. MaxStarts
Kinds == {"warning", "critical"}

VARIABLES
  usage,       \* what the process uses now
  monitoring,  \* self.monitoring
  thread,      \* self.monitor_thread, 0 for None
  owner,       \* "idle", or "joining" the thread
  loop,        \* where each loop thread is
  seen,        \* the usage in the snapshot each loop is working on
  snapshots,   \* len(self.snapshots)
  alerts,      \* self.alerts_sent
  sent,        \* history: alerts of each kind since usage was last seen below,
               \* counted up to two
  timedOut     \* history: a stop returned before its loop had ended

ownerVars == <<monitoring, thread, owner, timedOut>>
alertVars == <<alerts, sent>>
watchVars == <<usage, ownerVars, loop, seen, snapshots, alertVars>>

LoopState == {"none", "test", "sample", "trim", "warning?", "warning!",
              "critical?", "critical!", "reset", "sleep", "ended"}
Live == {l \in Loops : loop[l] \notin {"none", "ended"}}

(* Every live loop may have appended one snapshot it has not trimmed yet.  *)
WatchOK ==
  /\ usage \in Usages
  /\ monitoring \in BOOLEAN /\ timedOut \in BOOLEAN
  /\ thread \in 0 .. MaxStarts
  /\ owner \in {"idle", "joining"}
  /\ loop \in [Loops -> LoopState]
  /\ seen \in [Loops -> Usages]
  /\ snapshots \in 0 .. Keep + Cardinality(Live)
  /\ alerts \subseteq Kinds
  /\ sent \in [Kinds -> 0 .. 2]

WatchInit ==
  /\ usage \in Usages
  /\ monitoring = FALSE
  /\ thread = 0
  /\ owner = "idle"
  /\ loop = [l \in Loops |-> "none"]
  /\ seen = [l \in Loops |-> usage]
  /\ snapshots = 0
  /\ alerts = {}
  /\ sent = [k \in Kinds |-> 0]
  /\ timedOut = FALSE

-----------------------------------------------------------------------------
(* check_memory_status                                                     *)
IsWarning(u) == u >= WarningAt
IsCritical(u) == u >= CriticalAt
Raised(u) == {k \in Kinds : IF k = "warning" THEN IsWarning(u)
                                             ELSE IsCritical(u)}

(* The list after self.snapshots[-100:]; and untrimmed.                    *)
NotTrimmed(n) == n
Trimmed(n) == IF n > Keep THEN Keep ELSE n

-----------------------------------------------------------------------------
(* The owner: the body of a with memory_limit, or any other caller.        *)

(* if self.monitoring: return; and without that test.                      *)
AlwaysStarts == TRUE
MayStart == ~monitoring

StartMonitoring ==
  /\ owner = "idle" /\ MayStart /\ thread < MaxStarts
  /\ monitoring' = TRUE
  /\ thread' = thread + 1
  /\ loop' = [loop EXCEPT ![thread + 1] = "test"]
  /\ UNCHANGED <<usage, owner, timedOut, seen, snapshots, alertVars>>

(* join(timeout=5), when there is a thread to join.                        *)
StopMonitoring ==
  /\ owner = "idle"
  /\ monitoring' = FALSE
  /\ owner' = IF thread = 0 THEN "idle" ELSE "joining"
  /\ UNCHANGED <<usage, thread, timedOut, loop, seen, snapshots, alertVars>>

Joined ==
  /\ owner = "joining" /\ loop[thread] = "ended"
  /\ owner' = "idle"
  /\ UNCHANGED <<usage, monitoring, thread, timedOut, loop, seen, snapshots,
                 alertVars>>

JoinTimesOut ==
  /\ owner = "joining" /\ loop[thread] # "ended"
  /\ owner' = "idle"
  /\ timedOut' = TRUE
  /\ UNCHANGED <<usage, monitoring, thread, loop, seen, snapshots, alertVars>>

-----------------------------------------------------------------------------
(* _monitor_loop, one step per access to what the threads share.           *)

(* while self.monitoring; and while True.                                  *)
GoesOnForever == TRUE
GoesOn == monitoring

Test(l) ==
  /\ loop[l] = "test"
  /\ loop' = [loop EXCEPT ![l] = IF GoesOn THEN "sample" ELSE "ended"]
  /\ UNCHANGED <<usage, ownerVars, seen, snapshots, alertVars>>

(* get_memory_info, which returns None when it fails.                      *)
Sample(l) ==
  /\ loop[l] = "sample"
  /\ seen' = [seen EXCEPT ![l] = usage]
  /\ snapshots' = snapshots + 1
  /\ loop' = [loop EXCEPT ![l] = "trim"]
  /\ UNCHANGED <<usage, ownerVars, alertVars>>

NoSample(l) ==
  /\ loop[l] = "sample"
  /\ loop' = [loop EXCEPT ![l] = "sleep"]
  /\ UNCHANGED <<usage, ownerVars, seen, snapshots, alertVars>>

Trim(l) ==
  /\ loop[l] = "trim"
  /\ snapshots' = Trimmed(snapshots)
  /\ loop' = [loop EXCEPT ![l] = "warning?"]
  /\ UNCHANGED <<usage, ownerVars, seen, alertVars>>

(* if status[...] and kind not in self.alerts_sent.                        *)
After(k) == IF k = "warning" THEN "critical?" ELSE "reset"
AlertTest(l, k) ==
  /\ loop[l] = IF k = "warning" THEN "warning?" ELSE "critical?"
  /\ loop' = [loop EXCEPT ![l] =
                IF k \in Raised(seen[l]) \ alerts
                THEN IF k = "warning" THEN "warning!" ELSE "critical!"
                ELSE After(k)]
  /\ UNCHANGED <<usage, ownerVars, seen, snapshots, alertVars>>

(* The kind is noted, then the callback is called; an exception it raises  *)
(* skips the rest of the look.  And noted only when the callback returns.  *)
NotedIfReturned(k, returns) == IF returns THEN alerts \cup {k} ELSE alerts
Noted(k, returns) == alerts \cup {k}

Alert(l, k) ==
  /\ loop[l] = IF k = "warning" THEN "warning!" ELSE "critical!"
  /\ sent' = [sent EXCEPT ![k] = IF @ < 2 THEN @ + 1 ELSE 2]
  /\ \E returns \in BOOLEAN :
       /\ alerts' = Noted(k, returns)
       /\ loop' = [loop EXCEPT ![l] = IF returns THEN After(k) ELSE "sleep"]
  /\ UNCHANGED <<usage, ownerVars, seen, snapshots>>

(* Usage has come down: the kinds that no longer hold are forgotten.  And  *)
(* both, as soon as one does not hold.                                     *)
ForgetsAll(u) == IF Raised(u) = Kinds THEN alerts ELSE {}
Remembers(u) == alerts \cap Raised(u)

Reset(l) ==
  /\ loop[l] = "reset"
  /\ alerts' = Remembers(seen[l])
  /\ sent' = [k \in Kinds |-> IF k \in Raised(seen[l]) THEN sent[k] ELSE 0]
  /\ loop' = [loop EXCEPT ![l] = "sleep"]
  /\ UNCHANGED <<usage, ownerVars, seen, snapshots>>

Wake(l) ==
  /\ loop[l] = "sleep"
  /\ loop' = [loop EXCEPT ![l] = "test"]
  /\ UNCHANGED <<usage, ownerVars, seen, snapshots, alertVars>>

(* The process allocates, frees, or is cleaned by a callback.              *)
UsageChanges ==
  /\ usage' \in Usages \ {usage}
  /\ UNCHANGED <<ownerVars, loop, seen, snapshots, alertVars>>

Look(l) ==
  \/ Test(l) \/ Sample(l) \/ NoSample(l) \/ Trim(l) \/ Reset(l) \/ Wake(l)
  \/ \E k \in Kinds : AlertTest(l, k) \/ Alert(l, k)

WatchNext ==
  \/ StartMonitoring \/ StopMonitoring \/ Joined \/ JoinTimesOut
  \/ UsageChanges
  \/ \E l \in Loops : Look(l)

WatchSpec == WatchInit /\ [][WatchNext]_watchVars

(* Threads are scheduled, sleep and join return, and a process does not    *)
(* fail for ever to read its own size.                                     *)
FairWatch ==
  /\ WatchSpec
  /\ WF_watchVars(Joined \/ JoinTimesOut)
  /\ \A l \in Loops : WF_watchVars(Look(l)) /\ SF_watchVars(Sample(l))

-----------------------------------------------------------------------------
(* Properties.                                                             *)

(* Two loops watch at the same time only after a stop that gave up waiting *)
(* for the first of them.                                                  *)
OneLoop == Cardinality(Live) > 1 => timedOut

(* One alert of each kind for each excursion above its threshold, as long  *)
(* as no second loop has come up, whatever the callbacks raise.            *)
AlertedOnce == ~timedOut => \A k \in Kinds : sent[k] <= 1

(* A process that stays critical is reported as critical, even if every    *)
(* warning callback raises and skips what comes after it, and even if two  *)
(* loops forget each other's alerts.                                       *)
CriticalHeard ==
  <>[](monitoring /\ IsCritical(usage)) => <>[]("critical" \in alerts)

(* After a stop every loop ends, the one the stop no longer waited for     *)
(* too, unless the owner starts again.                                     *)
StopEnds == ~monitoring ~> (Live = {} \/ monitoring)
=============================================================================

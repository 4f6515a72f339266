---------------------------- MODULE StagingSync ----------------------------
(***************************************************************************)
(* scripts/sync.py: compact_and_merge() folds the files that ingestion     *)
(* leaves in a staging partition into the partition's part-0.parquet, and  *)
(* removes them.  Ingestion (ParquetWriter with incr, or the spider) goes  *)
(* on meanwhile, and the script may be killed between any two of its calls *)
(* to the file system; it is simply run again.                             *)
(*                                                                         *)
(* One partition: compact_and_merge treats them in turn and they share no  *)
(* file.  One compaction at a time: the script is started by hand.  A row  *)
(* is its tick and, as version, the number of the file it arrived in; file *)
(* names grow with time, and a dataset is read in the order of the names.  *)
(***************************************************************************)
EXTENDS Integers, FiniteSets, FiniteSetsExt

CONSTANTS
  Ticks,       \* ticks of the partition
  MaxFiles,    \* bound: files ingestion writes
  MaxCrashes   \* bound: times the script is killed

ASSUME BoundsAssumption == MaxFiles \in Nat /\ MaxCrashes \in Nat

Files == 1 .. MaxFiles
Table == [Ticks -> {0} \cup Files]  \* 0: the tick is not there

VARIABLES
  content,  \* the ticks of each file written so far
  staging,  \* the files in the staging directory
  target,   \* part-0.parquet
  temps,    \* files compacting_*.parquet beside it
  step,     \* where the script is
  seen,     \* the files its dataset was read from
  table,    \* df_combined
  todo,     \* files of the final glob not unlinked yet
  crashes,
  late,     \* history: files that came between the read and the glob
  torn      \* history: killed after some, not all, of the unlinks

vars == <<content, staging, target, temps, step, seen, table, todo, crashes, late, torn>>

Written == DOMAIN content
Nothing == [t \in Ticks |-> 0]

TypeOK ==
  /\ \E n \in 0 .. MaxFiles : content \in [1 .. n -> (SUBSET Ticks) \ {{}}]
  /\ staging \subseteq Written
  /\ target \in Table
  /\ temps \in 0 .. MaxCrashes + 1
  /\ step \in {"idle", "read", "merged", "writing", "replaced", "unlinking"}
  /\ seen \subseteq Written
  /\ table \in Table
  /\ todo \subseteq staging
  /\ crashes \in 0 .. MaxCrashes
  /\ late \subseteq Written
  /\ torn \in BOOLEAN

Init ==
  /\ content = <<>>
  /\ staging = {}
  /\ target = Nothing
  /\ temps = 0
  /\ step = "idle"
  /\ seen = {}
  /\ table = Nothing
  /\ todo = {}
  /\ crashes = 0
  /\ late = {}
  /\ torn = FALSE

history == <<late, torn>>

(* drop_duplicates(keep='last') of the files of S in order.                *)
Newest(S, t) ==
  LET fs == {f \in S : t \in content[f]} IN IF fs = {} THEN 0 ELSE Max(fs)

(* pd.concat([df_target, df]), last one kept; then without the target, and *)
(* with the first one kept.                                                *)
WithoutTarget(old, new) == new
FirstWins(old, new) == [t \in Ticks |-> IF old[t] # 0 THEN old[t] ELSE new[t]]
Combine(old, new) == [t \in Ticks |-> IF new[t] # 0 THEN new[t] ELSE old[t]]

(* A file arrives under a name of its own.                                 *)
Ingest(ticks) ==
  /\ Cardinality(Written) < MaxFiles
  /\ LET f == Cardinality(Written) + 1
     IN /\ content' = [g \in Written \cup {f} |-> IF g = f THEN ticks ELSE content[g]]
        /\ staging' = staging \cup {f}
  /\ UNCHANGED <<target, temps, step, seen, table, todo, crashes>>
  /\ UNCHANGED history

(* ds.dataset(sdir).to_table(): the files there now.                       *)
ReadStaging ==
  /\ step = "idle" /\ staging # {}
  /\ seen' = staging
  /\ table' = [t \in Ticks |-> Newest(staging, t)]
  /\ step' = "read"
  /\ UNCHANGED <<content, staging, target, temps, todo, crashes>>
  /\ UNCHANGED history

MergeTarget ==
  /\ step = "read"
  /\ table' = Combine(target, table)
  /\ step' = "merged"
  /\ UNCHANGED <<content, staging, target, temps, seen, todo, crashes>>
  /\ UNCHANGED history

(* The temporary file is created in the target directory and written.      *)
CreateTemp ==
  /\ step = "merged"
  /\ temps' = temps + 1
  /\ step' = "writing"
  /\ UNCHANGED <<content, staging, target, seen, table, todo, crashes>>
  /\ UNCHANGED history

(* Writing raised: the temporary file is removed; and kept.                *)
KeepTemp == UNCHANGED temps
DropTemp == temps' = temps - 1

WriteFails ==
  /\ step = "writing"
  /\ DropTemp
  /\ step' = "idle"
  /\ UNCHANGED <<content, staging, target, seen, table, todo, crashes>>
  /\ UNCHANGED history

(* temp_file_path.replace(target_file) is atomic.                          *)
Replace ==
  /\ step = "writing"
  /\ target' = table
  /\ temps' = temps - 1
  /\ step' = "replaced"
  /\ UNCHANGED <<content, staging, seen, table, todo, crashes>>
  /\ UNCHANGED history

(* sdir.glob("*.parquet") lists what is in staging now, not what was read. *)
ListStaging ==
  /\ step = "replaced"
  /\ todo' = staging
  /\ late' = late \cup (staging \ seen)
  /\ step' = "unlinking"
  /\ UNCHANGED <<content, staging, target, temps, seen, table, crashes, torn>>

Unlink(f) ==
  /\ step = "unlinking" /\ f \in todo
  /\ staging' = staging \ {f}
  /\ todo' = todo \ {f}
  /\ UNCHANGED <<content, target, temps, step, seen, table, crashes>>
  /\ UNCHANGED history

CompactionDone ==
  /\ step = "unlinking" /\ todo = {}
  /\ step' = "idle"
  /\ UNCHANGED <<content, staging, target, temps, seen, table, todo, crashes>>
  /\ UNCHANGED history

(* The process is killed; what it held in memory is gone.                  *)
Crash ==
  /\ step # "idle" /\ crashes < MaxCrashes
  /\ crashes' = crashes + 1
  /\ step' = "idle"
  /\ seen' = {} /\ table' = Nothing /\ todo' = {}
  /\ torn' = (torn \/ (todo # {} /\ ~ seen \subseteq staging))
  /\ UNCHANGED <<content, staging, target, temps, late>>

Script ==
  \/ ReadStaging \/ MergeTarget \/ CreateTemp \/ WriteFails \/ Replace
  \/ ListStaging \/ (\E f \in Files : Unlink(f)) \/ CompactionDone

Idle == staging = {} /\ step = "idle" /\ UNCHANGED vars

Next ==
  \/ \E ticks \in (SUBSET Ticks) \ {{}} : Ingest(ticks)
  \/ Script \/ Crash \/ Idle

Spec == Init /\ [][Next]_vars

-----------------------------------------------------------------------------
(* Properties.                                                             *)

(* Wherever the script is killed, and however often, a tick that arrived   *)
(* is in the target or still in staging.  Except for the files that came   *)
(* between the read and the glob of one compaction (late): these may be    *)
(* removed unread, and their ticks are lost.                               *)
NothingLost ==
  \A f \in Written \ late : \A t \in content[f] :
    target[t] # 0 \/ \E g \in staging : t \in content[g]

(* drop_duplicates(keep='last'): a tick is never replaced by an older      *)
(* version of it, as long as no kill came after some, not all, of the      *)
(* unlinks of a compaction (torn): they come in any order, so an older     *)
(* file may outlive a newer one and be merged over it.                     *)
NewerWins ==
  [][\A t \in Ticks : target'[t] >= target[t] \/ torn]_vars

(* When all is folded in, the target holds the newest version of each tick *)
(* that arrived: if no kill came among the unlinks of a compaction (torn), *)
(* and no file ever between its read and its glob (late).                  *)
FoldedIsNewest ==
  staging = {} /\ ~torn /\ late = {} =>
    \A t \in Ticks : target[t] = Newest(Written, t)
=============================================================================

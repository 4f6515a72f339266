------------------------- MODULE StagingSync_proofs -------------------------
(***************************************************************************)
(* Theorems about StagingSync, for any ticks, number of files and kills.   *)
(***************************************************************************)
EXTENDS StagingSync, Orders_proofs

Merging == step \in {"read", "merged", "writing"}
New(t) == Newest(seen, t)

\* One temporary file for each kill, and the one being written.
TempInv ==
  /\ temps <= crashes + (IF step = "writing" THEN 1 ELSE 0)
  /\ step = "writing" => temps > 0

\* What the script holds in memory: where it is going to unlink, that nothing
\* it read has gone from staging before it is in the target, and that what came
\* later is newer.
HeldInv ==
  /\ step # "unlinking" => todo = {}
  /\ Merging \/ step = "replaced" => seen \subseteq staging
  /\ step = "unlinking" => todo \subseteq seen \cup late /\ staging \cap seen \subseteq todo
  /\ step = "read" => table = [t \in Ticks |-> New(t)]
  /\ step \in {"merged", "writing"} =>
       table = Combine(target, [t \in Ticks |-> New(t)])
  /\ step \in {"replaced", "unlinking"} =>
       \A t \in Ticks : \A g \in seen : t \in content[g] =>
         g <= target[t] /\ target[t] \in seen
  /\ step # "idle" =>
       \A f \in staging \ seen : /\ \A g \in seen : g < f
                                 /\ \A t \in Ticks : target[t] < f

\* What is in a table came from a file that had it.
Sourced(x) ==
  \A t \in Ticks : x[t] # 0 => x[t] \in Written /\ t \in content[x[t]]
SourceInv == Sourced(target) /\ Sourced(table)

\* A file is in staging until its ticks are in the target.
KeptInv ==
  \A f \in Written \ late : f \in staging \/ \A t \in content[f] : target[t] # 0

\* Unless the script was killed among its unlinks, a tick in staging is there
\* in a version at least as new as in the target.
NewInv ==
  ~torn =>
    /\ step # "unlinking" =>
         \A t \in Ticks : \A f \in staging : t \in content[f] =>
           \E g \in staging : t \in content[g] /\ g >= target[t]
    /\ Merging => \A t \in Ticks : New(t) # 0 => New(t) >= target[t]

\* ... and what is no longer in staging is in the target or was overtaken.
FoldInv ==
  ~torn /\ late = {} =>
    \A f \in Written : \A t \in content[f] : f \in staging \/ f <= target[t]

IInv == TypeOK /\ TempInv /\ HeldInv /\ SourceInv /\ KeptInv /\ NewInv /\ FoldInv

-----------------------------------------------------------------------------
(* The newest file.                                                        *)

LEMMA MaxExists ==
  ASSUME NEW n \in Nat, NEW S \in SUBSET (1 .. n), S # {}
  PROVE  Max(S) \in S /\ \A k \in S : k <= Max(S)
<1>1. PICK m \in S : \A k \in S : k <= m
  BY GreatestExists
<1>2. \A k \in S : m >= k
  <2>1. \A k \in S : k \in Nat
    OBVIOUS
  <2> QED  BY <1>1, <2>1
<1>3. Max(S) \in S /\ \A k \in S : Max(S) >= k
  BY <1>2 DEF Max
<1>4. \A k \in S : k \in Nat
  OBVIOUS
<1> QED  BY <1>3, <1>4

(* What TypeOK says of the files, with their number.                       *)
LEMMA WrittenType ==
  ASSUME TypeOK
  PROVE  \E n \in 0 .. MaxFiles :
           /\ Written = 1 .. n /\ Cardinality(Written) = n
           /\ content \in [1 .. n -> (SUBSET Ticks) \ {{}}]
<1>1. PICK n \in 0 .. MaxFiles : content \in [1 .. n -> (SUBSET Ticks) \ {{}}]
  BY DEF TypeOK
<1>2. Written = 1 .. n
  BY <1>1 DEF Written
<1>3. n \in Nat
  BY BoundsAssumption
<1>4. Cardinality(1 .. n) = n
  BY <1>3, FS_Interval
<1> QED  BY <1>1, <1>2, <1>4

LEMMA NewestFacts ==
  ASSUME TypeOK, NEW S \in SUBSET Written, NEW t \in Ticks
  PROVE  /\ Newest(S, t) \in {0} \cup Files
         /\ Newest(S, t) = 0 => \A f \in S : t \notin content[f]
         /\ Newest(S, t) # 0 => Newest(S, t) \in S /\ t \in content[Newest(S, t)]
         /\ \A f \in S : t \in content[f] => f <= Newest(S, t)
<1> DEFINE fs == {f \in S : t \in content[f]}
<1>1. PICK n \in 0 .. MaxFiles : Written = 1 .. n
  BY WrittenType
<1>2. n \in Nat /\ 1 .. n \subseteq Files
  BY BoundsAssumption DEF Files
<1>5. fs \in SUBSET (1 .. n)
  BY <1>1
<1>3. CASE fs = {}
  BY <1>3 DEF Newest
<1>4. CASE fs # {}
  <2>1. Newest(S, t) = Max(fs)
    BY <1>4 DEF Newest
  <2>2. Max(fs) \in fs /\ \A k \in fs : k <= Max(fs)
    BY <1>2, <1>4, <1>5, MaxExists
  <2>3. Newest(S, t) \in 1 .. n /\ 0 \notin 1 .. n
    BY <1>2, <1>5, <2>1, <2>2
  <2> QED  BY <1>2, <2>1, <2>2, <2>3
<1> QED  BY <1>3, <1>4

LEMMA CombineFacts ==
  ASSUME NEW old \in Table, NEW new \in Table
  PROVE  /\ Combine(old, new) \in Table
         /\ \A t \in Ticks : Combine(old, new)[t] =
                               IF new[t] # 0 THEN new[t] ELSE old[t]
  BY DEF Combine, Table

LEMMA InitInv == Init => IInv
<1> SUFFICES ASSUME Init PROVE IInv
  OBVIOUS
<1>1. Written = {} /\ content \in [1 .. 0 -> (SUBSET Ticks) \ {{}}]
  BY DEF Init, Written
<1>2. Nothing \in Table /\ \A t \in Ticks : Nothing[t] = 0
  BY DEF Nothing, Table
<1>3. TypeOK
  <2>1. \E n \in 0 .. MaxFiles : content \in [1 .. n -> (SUBSET Ticks) \ {{}}]
    <3>1. 0 \in 0 .. MaxFiles
      BY BoundsAssumption
    <3> QED  BY <1>1, <3>1
  <2>2. torn \in BOOLEAN
    BY DEF Init
  <2> QED  BY <1>2, <2>1, <2>2, BoundsAssumption DEF Init, TypeOK
<1>4. TempInv /\ HeldInv /\ SourceInv /\ KeptInv /\ NewInv /\ FoldInv
  BY <1>1, <1>2, BoundsAssumption
  DEF Init, TempInv, HeldInv, SourceInv, Sourced, KeptInv, NewInv, FoldInv, Merging
<1> QED  BY <1>3, <1>4 DEF IInv

-----------------------------------------------------------------------------
(* The steps.  Most leave the files alone.                                 *)

LEMMA SameFiles ==
  ASSUME content' = content
  PROVE  /\ Written' = Written
         /\ \A S, t : Newest(S, t)' = Newest(S, t)
  BY DEF Written, Newest

LEMMA IngestStep ==
  ASSUME IInv, NEW ticks \in (SUBSET Ticks) \ {{}}, Ingest(ticks)
  PROVE  IInv'
<1>0. TypeOK
  BY DEF IInv
<1>1. PICK n \in 0 .. MaxFiles :
        /\ Written = 1 .. n /\ Cardinality(Written) = n
        /\ content \in [1 .. n -> (SUBSET Ticks) \ {{}}]
  BY <1>0, WrittenType
<1>2. n \in Nat /\ n < MaxFiles /\ (1 .. n) \cup {n + 1} = 1 .. n + 1
  BY <1>1, BoundsAssumption DEF Ingest
<1>3. content' = [g \in 1 .. n + 1 |-> IF g = n + 1 THEN ticks ELSE content[g]]
  BY <1>1, <1>2 DEF Ingest
<1>4. /\ Written' = 1 .. n + 1 /\ Written \subseteq Written'
      /\ content'[n + 1] = ticks
      /\ \A g \in Written : content'[g] = content[g] /\ g < n + 1
  BY <1>1, <1>2, <1>3 DEF Written
<1>5. content' \in [1 .. n + 1 -> (SUBSET Ticks) \ {{}}] /\ n + 1 \in 0 .. MaxFiles
  BY <1>1, <1>2, <1>3, BoundsAssumption
<1>6. staging' = staging \cup {n + 1}
  BY <1>1 DEF Ingest
<1>7. UNCHANGED <<target, temps, step, seen, table, todo, crashes, late, torn>>
  BY DEF Ingest, history
<1>8. /\ seen \subseteq Written /\ staging \subseteq Written
      /\ todo \subseteq staging /\ late \subseteq Written
      /\ target \in Table /\ table \in Table
  BY <1>0 DEF TypeOK
<1>9. ASSUME NEW t \in Ticks PROVE New(t)' = New(t)
  BY <1>4, <1>7, <1>8 DEF New, Newest
<1>10. TypeOK'
  BY <1>0, <1>4, <1>5, <1>6, <1>7, <1>8 DEF TypeOK
<1>11. TempInv'
  BY <1>7 DEF IInv, TempInv
<1>13. SourceInv'
  BY <1>4, <1>7 DEF IInv, SourceInv, Sourced
<1>14. KeptInv'
  BY <1>1, <1>4, <1>6, <1>7, <1>8 DEF IInv, KeptInv
<1>15. ASSUME NEW t \in Ticks PROVE target[t] \in Int /\ target[t] < n + 1
  BY <1>1, <1>2, <1>8 DEF IInv, SourceInv, Sourced
<1>12. HeldInv'
  <2>1. \A g \in seen : g < n + 1
    BY <1>4, <1>8
  <2>2. n + 1 \notin seen /\ HeldInv
    BY <1>1, <1>2, <1>8 DEF IInv
  <2> QED
    BY <1>4, <1>6, <1>7, <1>8, <1>9, <1>15, <2>1, <2>2 DEF HeldInv, Merging, Combine
<1>16. NewInv'
  BY <1>2, <1>4, <1>6, <1>7, <1>8, <1>9, <1>15 DEF IInv, NewInv, Merging
<1>17. FoldInv'
  BY <1>1, <1>4, <1>6, <1>7 DEF IInv, FoldInv
<1> QED
  BY <1>10, <1>11, <1>12, <1>13, <1>14, <1>16, <1>17 DEF IInv

LEMMA ReadStep ==
  ASSUME IInv, ReadStaging
  PROVE  IInv'
<1>0. /\ TypeOK /\ TempInv /\ SourceInv /\ KeptInv /\ NewInv /\ FoldInv
      /\ UNCHANGED <<content, staging, target, temps, todo, crashes, late, torn>>
      /\ step = "idle" /\ step' = "read" /\ seen' = staging
      /\ table' = [t \in Ticks |-> Newest(staging, t)]
      /\ Written' = Written
  BY DEF IInv, ReadStaging, history, Written
<1>1. staging \in SUBSET Written /\ target \in Table
  BY <1>0 DEF TypeOK
<1>2. ASSUME NEW t \in Ticks PROVE New(t)' = Newest(staging, t)
  BY <1>0 DEF New, Newest
<1>3. table' \in Table
  BY <1>0, <1>1, NewestFacts DEF Table
<1>4. TypeOK'
  BY <1>0, <1>3 DEF TypeOK
<1>5. HeldInv'
  BY <1>0, <1>2 DEF HeldInv, Merging, IInv
<1>6. SourceInv'
  BY <1>0, <1>1, NewestFacts DEF SourceInv, Sourced
<1>7. NewInv'
  <2>1. ASSUME NEW t \in Ticks, ~torn, New(t)' # 0
        PROVE  New(t)' >= target[t]
    <3>1. /\ Newest(staging, t) \in staging
          /\ t \in content[Newest(staging, t)]
      BY <1>0, <1>1, <1>2, <2>1, NewestFacts
    <3>2. PICK g \in staging : t \in content[g] /\ g >= target[t]
      BY <1>0, <2>1, <3>1 DEF NewInv
    <3>3. g <= Newest(staging, t)
      BY <1>0, <1>1, <3>2, NewestFacts
    <3>4. g \in Int /\ target[t] \in Int /\ Newest(staging, t) \in Int
      BY <1>0, <1>1, <3>1, WrittenType DEF Table, Files
    <3> QED  BY <1>2, <3>2, <3>3, <3>4
  <2> QED  BY <1>0, <2>1 DEF NewInv, Merging
<1> QED
  BY <1>0, <1>4, <1>5, <1>6, <1>7 DEF IInv, TempInv, KeptInv, FoldInv

LEMMA MergeStep ==
  ASSUME IInv, MergeTarget
  PROVE  IInv'
<1> DEFINE news == [t \in Ticks |-> New(t)]
<1>0. /\ TypeOK /\ TempInv /\ HeldInv /\ SourceInv /\ KeptInv /\ NewInv /\ FoldInv
      /\ UNCHANGED <<content, staging, target, temps, seen, todo, crashes, late, torn>>
      /\ step = "read" /\ step' = "merged" /\ table = news
      /\ table' = Combine(target, news)
      /\ Written' = Written
  BY DEF IInv, MergeTarget, HeldInv, history, Written
<1>1. news \in Table /\ target \in Table
  BY <1>0 DEF TypeOK
<1>2. ASSUME NEW t \in Ticks PROVE New(t)' = New(t)
  BY <1>0 DEF New, Newest
<1>3. table' \in Table
  BY <1>0, <1>1, CombineFacts
<1>4. TypeOK'
  BY <1>0, <1>3 DEF TypeOK
<1>5. HeldInv'
  BY <1>0, <1>2 DEF HeldInv, Merging, Combine
<1>6. SourceInv'
  BY <1>0, <1>1, CombineFacts DEF SourceInv, Sourced
<1>7. NewInv'
  BY <1>0, <1>2 DEF NewInv, Merging
<1> QED
  BY <1>0, <1>4, <1>5, <1>6, <1>7 DEF IInv, TempInv, KeptInv, FoldInv

(* When all files are unlinked, or none that was read, each tick that is    *)
(* left in staging is there in a version that is new enough.               *)
LEMMA AfterUnlinks ==
  ASSUME IInv, step = "unlinking", todo = {} \/ seen \subseteq staging,
         NEW t \in Ticks, NEW f \in staging, t \in content[f]
  PROVE  \E g \in staging : t \in content[g] /\ g >= target[t]
<1>1. TypeOK /\ HeldInv /\ SourceInv
  BY DEF IInv
<1>2. target \in Table /\ staging \in SUBSET Written /\ seen \in SUBSET Written
  BY <1>1 DEF TypeOK
<1>3. target[t] \in Int /\ f \in Int /\ 0 \notin Written
  BY <1>1, <1>2, WrittenType DEF Table, Files
<1>4. CASE f \in seen
  <2>1. seen \subseteq staging /\ target[t] \in seen
    BY <1>1, <1>4 DEF HeldInv
  <2>2. target[t] # 0
    BY <1>2, <1>3, <2>1
  <2>3. t \in content[target[t]]
    BY <1>1, <2>2 DEF SourceInv, Sourced
  <2> QED  BY <1>3, <2>1, <2>3
<1>5. CASE f \notin seen
  <2>1. target[t] < f
    BY <1>1, <1>5 DEF HeldInv
  <2> QED  BY <1>3, <2>1
<1> QED  BY <1>4, <1>5

(* The steps that only write, or remove, the temporary file, and the end.  *)
LEMMA TempStep ==
  ASSUME IInv, CreateTemp \/ WriteFails \/ CompactionDone
  PROVE  IInv'
<1>0. /\ TypeOK /\ TempInv /\ HeldInv /\ SourceInv /\ KeptInv /\ NewInv /\ FoldInv
      /\ UNCHANGED <<content, staging, target, seen, table, todo, crashes, late, torn>>
      /\ Written' = Written
  BY DEF IInv, CreateTemp, WriteFails, CompactionDone, history, Written
<1>1. \/ step = "merged" /\ step' = "writing" /\ temps' = temps + 1
      \/ step = "writing" /\ step' = "idle" /\ temps' = temps - 1
      \/ step = "unlinking" /\ todo = {} /\ step' = "idle" /\ temps' = temps
  BY DEF CreateTemp, WriteFails, DropTemp, CompactionDone
<1>2. ASSUME NEW t \in Ticks PROVE New(t)' = New(t)
  BY <1>0 DEF New, Newest
<1>3. crashes \in 0 .. MaxCrashes /\ temps \in 0 .. MaxCrashes + 1 /\ MaxCrashes \in Nat
  BY <1>0, BoundsAssumption DEF TypeOK
<1>4. TempInv' /\ temps' \in 0 .. MaxCrashes + 1
  BY <1>0, <1>1, <1>3 DEF TempInv
<1>5. TypeOK'
  BY <1>0, <1>1, <1>4 DEF TypeOK
<1>6. HeldInv'
  BY <1>0, <1>1, <1>2 DEF HeldInv, Merging, Combine
<1>7. NewInv'
  <2>1. CASE step = "unlinking"
    BY <1>0, <1>1, <2>1, AfterUnlinks DEF NewInv, Merging
  <2>2. CASE step # "unlinking"
    BY <1>0, <1>1, <1>2, <2>2 DEF NewInv, Merging
  <2> QED  BY <2>1, <2>2
<1> QED
  BY <1>0, <1>4, <1>5, <1>6, <1>7 DEF IInv, SourceInv, Sourced, KeptInv, FoldInv

(* What the replacement does to the target.                                *)
LEMMA Replaced ==
  ASSUME IInv, Replace
  PROVE  /\ target' \in Table
         /\ \A t \in Ticks :
              /\ target'[t] = IF New(t) # 0 THEN New(t) ELSE target[t]
              /\ ~torn => target'[t] >= target[t]
              /\ \A g \in seen : t \in content[g] => g <= target'[t] /\ target'[t] \in seen
<1> DEFINE news == [t \in Ticks |-> New(t)]
<1>0. /\ TypeOK /\ HeldInv /\ NewInv /\ SourceInv
      /\ step = "writing" /\ target' = Combine(target, news)
  BY DEF IInv, Replace, HeldInv
<1>1. seen \in SUBSET Written /\ target \in Table
  BY <1>0 DEF TypeOK
<1>2. news \in Table
  BY <1>0, <1>1, NewestFacts DEF New, Table
<1> SUFFICES ASSUME NEW t \in Ticks
             PROVE  /\ target'[t] = IF New(t) # 0 THEN New(t) ELSE target[t]
                    /\ ~torn => target'[t] >= target[t]
                    /\ \A g \in seen : t \in content[g] =>
                         g <= target'[t] /\ target'[t] \in seen
  BY <1>0, <1>1, <1>2, CombineFacts
<1>3. target'[t] = IF New(t) # 0 THEN New(t) ELSE target[t]
  BY <1>0, <1>1, <1>2, CombineFacts
<1>4. target[t] \in Int
  BY <1>1 DEF Table, Files
<1>5. ~torn => target'[t] >= target[t]
  BY <1>0, <1>3, <1>4 DEF NewInv, Merging
<1>6. ASSUME NEW g \in seen, t \in content[g]
      PROVE  g <= target'[t] /\ target'[t] \in seen
  BY <1>0, <1>1, <1>3, <1>6, NewestFacts DEF New
<1> QED  BY <1>3, <1>5, <1>6

LEMMA ReplaceStep ==
  ASSUME IInv, Replace
  PROVE  IInv'
<1>0. /\ TypeOK /\ TempInv /\ HeldInv /\ SourceInv /\ KeptInv /\ NewInv /\ FoldInv
      /\ UNCHANGED <<content, staging, seen, table, todo, crashes, late, torn>>
      /\ step = "writing" /\ step' = "replaced" /\ target' = table
      /\ temps' = temps - 1 /\ Written' = Written /\ todo = {}
      /\ seen \subseteq staging
  BY DEF IInv, Replace, HeldInv, Merging, history, Written
<1>1. /\ seen \in SUBSET Written /\ staging \in SUBSET Written
      /\ target \in Table /\ target' \in Table
  BY <1>0, Replaced DEF TypeOK
<1>2. crashes \in 0 .. MaxCrashes /\ temps \in 0 .. MaxCrashes + 1 /\ MaxCrashes \in Nat
  BY <1>0, BoundsAssumption DEF TypeOK
<1>3. TempInv' /\ temps' \in 0 .. MaxCrashes + 1
  BY <1>0, <1>2 DEF TempInv
<1>4. TypeOK'
  BY <1>0, <1>1, <1>3 DEF TypeOK
<1>5. HeldInv'
  <2>1. ASSUME NEW f \in staging \ seen, NEW t \in Ticks PROVE target'[t] < f
    <3>1. target'[t] = target[t] \/ target'[t] \in seen
      BY <1>0, <1>1, NewestFacts, Replaced DEF New
    <3> QED  BY <1>0, <3>1 DEF HeldInv
  <2> QED  BY <1>0, <2>1, Replaced DEF HeldInv, Merging
<1>6. SourceInv'
  BY <1>0 DEF SourceInv, Sourced
<1>7. KeptInv'
  <2>1. ASSUME NEW f \in Written \ late, f \notin staging, NEW t \in content[f]
        PROVE  target'[t] # 0
    <3>1. target[t] # 0
      BY <1>0, <2>1 DEF KeptInv
    <3>2. t \in Ticks
      BY <1>0, WrittenType
    <3> QED  BY <3>1, <3>2, Replaced
  <2> QED  BY <1>0, <2>1 DEF KeptInv
<1>8. NewInv'
  <2>1. ASSUME NEW t \in Ticks, NEW f \in staging, t \in content[f], ~torn
        PROVE  \E g \in staging : t \in content[g] /\ g >= target'[t]
    <3>1. CASE New(t) # 0
      <4>1. New(t) \in staging /\ t \in content[New(t)] /\ target'[t] = New(t)
        BY <1>0, <1>1, <3>1, NewestFacts, Replaced DEF New
      <4>2. New(t) \in Int
        BY <1>1, <4>1 DEF Table, Files
      <4> QED  BY <4>1, <4>2
    <3>2. CASE New(t) = 0
      <4>1. target'[t] = target[t]
        BY <3>2, Replaced
      <4> QED  BY <1>0, <2>1, <4>1 DEF NewInv
    <3> QED  BY <3>1, <3>2
  <2> QED  BY <1>0, <2>1 DEF NewInv, Merging
<1>9. FoldInv'
  <2>1. ASSUME NEW f \in Written, NEW t \in content[f], f \notin staging,
               ~torn, late = {}
        PROVE  f <= target'[t]
    <3>1. t \in Ticks /\ f \in Int
      BY <1>0, WrittenType
    <3>2. f <= target[t] /\ target[t] <= target'[t]
      BY <1>0, <2>1, <3>1, Replaced DEF FoldInv
    <3>3. target[t] \in Int /\ target'[t] \in Int
      BY <1>1, <3>1 DEF Table, Files
    <3> QED  BY <3>1, <3>2, <3>3
  <2> QED  BY <1>0, <2>1 DEF FoldInv
<1> QED
  BY <1>3, <1>4, <1>5, <1>6, <1>7, <1>8, <1>9 DEF IInv

LEMMA ListStep ==
  ASSUME IInv, ListStaging
  PROVE  IInv'
<1>0. /\ TypeOK /\ TempInv /\ HeldInv /\ SourceInv /\ KeptInv /\ NewInv /\ FoldInv
      /\ UNCHANGED <<content, staging, target, temps, seen, table, crashes, torn>>
      /\ step = "replaced" /\ step' = "unlinking" /\ todo' = staging
      /\ late' = late \cup (staging \ seen) /\ Written' = Written
  BY DEF IInv, ListStaging, Written
<1>1. late' \subseteq Written
  BY <1>0 DEF TypeOK
<1>2. TypeOK'
  BY <1>0, <1>1 DEF TypeOK
<1>3. HeldInv' /\ TempInv'
  BY <1>0 DEF HeldInv, TempInv, Merging
<1>4. KeptInv'
  BY <1>0 DEF KeptInv
<1>5. NewInv' /\ FoldInv'
  BY <1>0 DEF NewInv, FoldInv, Merging
<1> QED
  BY <1>0, <1>2, <1>3, <1>4, <1>5 DEF IInv, SourceInv, Sourced

LEMMA UnlinkStep ==
  ASSUME IInv, NEW f \in Files, Unlink(f)
  PROVE  IInv'
<1>0. /\ TypeOK /\ TempInv /\ HeldInv /\ SourceInv /\ KeptInv /\ NewInv /\ FoldInv
      /\ UNCHANGED <<content, target, temps, step, seen, table, crashes, late, torn>>
      /\ step = "unlinking" /\ f \in todo /\ f \in seen \cup late
      /\ staging' = staging \ {f} /\ todo' = todo \ {f} /\ Written' = Written
  BY DEF IInv, Unlink, HeldInv, history, Written
<1>1. TypeOK'
  BY <1>0 DEF TypeOK
<1>2. HeldInv' /\ TempInv' /\ NewInv'
  BY <1>0 DEF HeldInv, TempInv, NewInv, Merging
<1>3. f \in seen => \A t \in content[f] : f <= target[t] /\ target[t] # 0
  <2>1. f \in Written
    BY <1>0 DEF TypeOK
  <2>2. f \in Int /\ f > 0 /\ content[f] \subseteq Ticks
    BY <1>0, <2>1, WrittenType DEF Files
  <2> QED  BY <1>0, <2>2 DEF HeldInv
<1>4. KeptInv'
  BY <1>0, <1>3 DEF KeptInv
<1>5. FoldInv'
  BY <1>0, <1>3 DEF FoldInv
<1> QED
  BY <1>0, <1>1, <1>2, <1>4, <1>5 DEF IInv, SourceInv, Sourced

LEMMA CrashStep ==
  ASSUME IInv, Crash
  PROVE  IInv'
<1>0. /\ TypeOK /\ TempInv /\ HeldInv /\ SourceInv /\ KeptInv /\ NewInv /\ FoldInv
      /\ UNCHANGED <<content, staging, target, temps, late>>
      /\ step # "idle" /\ step' = "idle" /\ crashes' = crashes + 1
      /\ crashes < MaxCrashes /\ seen' = {} /\ todo' = {} /\ table' = Nothing
      /\ Written' = Written
      /\ torn' = (torn \/ (todo # {} /\ ~ seen \subseteq staging))
  BY DEF IInv, Crash, Written
<1>1. Nothing \in Table /\ \A t \in Ticks : Nothing[t] = 0
  BY DEF Nothing, Table
<1>2. crashes' \in 0 .. MaxCrashes
  BY <1>0, BoundsAssumption DEF TypeOK
<1>3. torn' \in BOOLEAN
  BY <1>0
<1>4. TypeOK'
  BY <1>0, <1>1, <1>2, <1>3 DEF TypeOK
<1>5. TempInv' /\ HeldInv'
  BY <1>0, BoundsAssumption DEF TempInv, HeldInv, Merging, TypeOK
<1>6. SourceInv'
  BY <1>0, <1>1 DEF SourceInv, Sourced
<1>7. NewInv'
  <2>1. CASE step = "unlinking"
    BY <1>0, <2>1, AfterUnlinks DEF NewInv, Merging
  <2>2. CASE step # "unlinking"
    BY <1>0, <2>2 DEF NewInv, Merging
  <2> QED  BY <2>1, <2>2
<1>8. KeptInv' /\ FoldInv'
  BY <1>0 DEF KeptInv, FoldInv
<1> QED
  BY <1>4, <1>5, <1>6, <1>7, <1>8 DEF IInv

LEMMA Stutter ==
  ASSUME IInv, UNCHANGED vars
  PROVE  IInv'
<1> USE DEF vars
<1>1. ASSUME NEW t \in Ticks PROVE New(t)' = New(t)
  BY DEF New, Newest
<1>2. TypeOK' /\ TempInv' /\ Written' = Written
  BY DEF IInv, TypeOK, TempInv, Written
<1>3. HeldInv'
  BY <1>1 DEF IInv, HeldInv, Merging, Combine
<1>4. NewInv'
  BY <1>1 DEF IInv, NewInv, Merging
<1> QED
  BY <1>2, <1>3, <1>4 DEF IInv, SourceInv, Sourced, KeptInv, FoldInv

LEMMA Inductive == Spec => []IInv
<1>1. IInv /\ [Next]_vars => IInv'
  BY IngestStep, ReadStep, MergeStep, TempStep, ReplaceStep, ListStep,
     UnlinkStep, CrashStep, Stutter DEF Next, Script, Idle
<1> QED  BY <1>1, InitInv, PTL DEF Spec

-----------------------------------------------------------------------------
(* Every variable keeps its type: in particular there is one temporary     *)
(* file for each kill at most, and the one being written.                  *)
THEOREM TypeCorrect == Spec => []TypeOK
<1>1. IInv => TypeOK
  BY DEF IInv
<1> QED  BY <1>1, Inductive, PTL

(* Wherever and however often the script is killed, no tick is lost but    *)
(* those of files that come between its read and its glob (sync.py:71-80). *)
THEOREM NoTickLost == Spec => []NothingLost
<1>1. IInv => NothingLost
  <2> SUFFICES ASSUME IInv, NEW f \in Written \ late, NEW t \in content[f]
               PROVE  target[t] # 0 \/ \E g \in staging : t \in content[g]
    BY DEF NothingLost
  <2> QED  BY DEF IInv, KeptInv
<1> QED  BY <1>1, Inductive, PTL

(* drop_duplicates(keep='last') does what it is there for as long as no    *)
(* run was killed among its unlinks (torn).                                *)
THEOREM NoOlderVersion == Spec => NewerWins
<1>1. IInv /\ [Next]_vars => [\A t \in Ticks : target'[t] >= target[t] \/ torn]_vars
  <2> SUFFICES ASSUME IInv, [Next]_vars, NEW t \in Ticks
               PROVE  target'[t] >= target[t] \/ torn
    OBVIOUS
  <2>1. CASE Replace
    BY <2>1, Replaced
  <2>2. CASE target' = target
    <3>1. target[t] \in Int
      BY DEF IInv, TypeOK, Table, Files
    <3> QED  BY <2>2, <3>1
  <2>3. Replace \/ target' = target
    BY DEF Next, Script, Idle, vars, Ingest, ReadStaging, MergeTarget,
           CreateTemp, WriteFails, ListStaging, Unlink, CompactionDone, Crash
  <2> QED  BY <2>1, <2>2, <2>3
<1> QED  BY <1>1, Inductive, PTL DEF Spec, NewerWins

(* When nothing is left in staging the target has the newest version of    *)
(* every tick that ever arrived, unless a kill came among the unlinks of a *)
(* compaction (torn) or a file between its read and its glob (late).       *)
THEOREM AllFolded == Spec => []FoldedIsNewest
<1>1. IInv => FoldedIsNewest
  <2> SUFFICES ASSUME IInv, staging = {}, ~torn, late = {}, NEW t \in Ticks
               PROVE  target[t] = Newest(Written, t)
    BY DEF FoldedIsNewest
  <2>1. TypeOK /\ SourceInv /\ FoldInv
    BY DEF IInv
  <2>2. PICK n \in 0 .. MaxFiles : Written = 1 .. n
    BY <2>1, WrittenType
  <2>3. Newest(Written, t) \in {0} \cup Files
    BY <2>1, NewestFacts
  <2>4. target[t] \in {0} \cup Files
    BY <2>1 DEF TypeOK, Table
  <2>5. /\ target[t] \in Int /\ Newest(Written, t) \in Int
        /\ \A f \in Written : f > 0
    BY <2>2, <2>3, <2>4 DEF Files
  <2>6. CASE target[t] = 0
    <3>1. CASE Newest(Written, t) # 0
      <4> DEFINE f == Newest(Written, t)
      <4>1. f \in Written /\ t \in content[f]
        BY <2>1, <3>1, NewestFacts
      <4>2. f <= target[t] /\ f > 0
        BY <2>1, <2>5, <4>1 DEF FoldInv
      <4> QED  BY <2>6, <2>5, <4>2
    <3> QED  BY <2>6, <3>1
  <2>7. CASE target[t] # 0
    <3>1. target[t] \in Written /\ t \in content[target[t]]
      BY <2>1, <2>7 DEF SourceInv, Sourced
    <3>2. target[t] <= Newest(Written, t) /\ Newest(Written, t) # 0
      BY <2>1, <2>5, <3>1, NewestFacts
    <3>3. Newest(Written, t) <= target[t]
      BY <2>1, <3>2, NewestFacts DEF FoldInv
    <3> QED  BY <2>5, <3>2, <3>3
  <2> QED  BY <2>6, <2>7
<1> QED  BY <1>1, Inductive, PTL
=============================================================================

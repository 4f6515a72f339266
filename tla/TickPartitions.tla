--------------------------- MODULE TickPartitions ---------------------------
(***************************************************************************)
(* From the dates of a request to the parquet directories it reads:       *)
(* schema_range and _parse_date of gateway/duckdb/utils.pyx, _glob_path of *)
(* gateway/duckdb/operator.py, over what the loads of ParquetStore have    *)
(* written.  The writer and the reader compute a row's directory apart,    *)
(* the one from a wall clock and a graph file, the other from a date or an *)
(* epoch and the security's code; the filter of the query is a third       *)
(* computation.                                                            *)
(*                                                                         *)
(* Time is in seconds since the epoch.  A stamp is what a request carries: *)
(* YYYYMMDD up to 99991231, an epoch above; it is an int32, so the cases   *)
(* for milliseconds and finer never apply.                                 *)
(***************************************************************************)
EXTENDS ParquetStore

CONSTANTS
  Starts, Ends,  \* bound: stamps tried as start_date and end_date
  Sids           \* securities of the request

IsDate(stamp) == stamp <= 99991231
DateOf(stamp) ==
  [y |-> stamp \div 10000, m |-> (stamp % 10000) \div 100, d |-> stamp % 100]

(* A request whose dates do not exist fails in the database.               *)
Valid(stamp) ==
  IF IsDate(stamp)
  THEN LET c == DateOf(stamp)
       IN  /\ c.y \in FirstYear .. LastYear /\ c.m \in 1 .. 12
           /\ c.d \in 1 .. MonthLength(c.y, c.m)
  ELSE stamp + Offset \in Clocks
ASSUME StampsAssumption ==
  \A stamp \in Starts \cup Ends : stamp \in Int /\ Valid(stamp)

-----------------------------------------------------------------------------
(* _parse_to_ymd: the month in Shanghai; and without the shift.            *)
ParseToUtc(stamp) == IF IsDate(stamp) THEN DateOf(stamp) ELSE GmTime(stamp)
ParseToYmd(stamp) ==
  IF IsDate(stamp) THEN DateOf(stamp) ELSE GmTime(stamp + Offset)

(* _parse_date: the instant the query's filter starts or ends at.          *)
FilterBound(stamp, isEnd) ==
  IF IsDate(stamp)
  THEN LET c == DateOf(stamp)
       IN DayNumber(c.y, c.m, c.d) * Day - Offset + (IF isEnd THEN Day - 1 ELSE 0)
  ELSE stamp

(* The months of a quarter, 1 to 4; and a division without the shift.       *)
WrongQuarter(m) == (m \div 3) + 1
Quarter(m) == ((m - 1) \div 3) + 1
Partition(y, m) == [year |-> y, quarter |-> Quarter(m), date |-> 100 * y + m]

(* regex_rules, in their order; _glob_path takes the first that matches.   *)
MatchesRule(s, kind) ==
  CASE kind = "stock"     -> s.digits \in {"6", "0", "3"}
    [] kind = "fund"      -> s.digits \in {"51", "15", "16"}
    [] kind = "benchmark" -> s.name \in {"1A0001", "1B0688", "2A01", "399006"}
Category(s) ==
  IF MatchesRule(s, "stock") THEN "stock"
  ELSE IF MatchesRule(s, "fund") THEN "fund"
  ELSE IF MatchesRule(s, "benchmark") THEN "benchmark"
  ELSE "none"  \* is skipped

VARIABLES
  start, end,  \* the request
  y, m,        \* the loop of schema_range
  ranges,      \* its result
  globs,       \* the directories _glob_path returns
  step         \* where the computation is

requestVars == <<start, end, y, m, ranges, globs, step>>
vars == <<storeVars, requestVars>>

TypeOK ==
  /\ StoreTypeOK
  /\ start \in Starts \cup {0} /\ end \in Ends \cup {0}
  /\ y \in 0 .. LastYear + 1 /\ m \in 0 .. 12
  /\ ranges \in Seq(PartitionSet)
  /\ \A d \in globs : d.sid \in Sids /\ d.month \in PartitionSet
  /\ step \in {"none", "parse", "loop", "glob", "done"}

Init ==
  /\ StoreInit
  /\ start = 0 /\ end = 0
  /\ y = 0 /\ m = 0
  /\ ranges = <<>>
  /\ globs = {}
  /\ step = "none"

(* A request arrives; in the model, when the last load is over.            *)
Request(s, e) ==
  /\ step = "none" /\ graph = NoLoad /\ loads = MaxLoads
  /\ start' = s /\ end' = e
  /\ step' = "parse"
  /\ UNCHANGED <<y, m, ranges, globs>> /\ UNCHANGED storeVars

Parse ==
  /\ step = "parse"
  /\ y' = ParseToYmd(start).y
  /\ m' = ParseToYmd(start).m
  /\ step' = "loop"
  /\ UNCHANGED <<start, end, ranges, globs>> /\ UNCHANGED storeVars

(* The loop condition; and one that holds a month too long.                *)
PastEnd(c) == y < c.y \/ (y = c.y /\ m <= c.m + 1)
InRange(c) == y < c.y \/ (y = c.y /\ m <= c.m)

AddMonth ==
  /\ step = "loop" /\ InRange(ParseToYmd(end))
  /\ ranges' = Append(ranges, Partition(y, m))
  /\ m' = (m % 12) + 1
  /\ y' = IF m = 12 THEN y + 1 ELSE y
  /\ UNCHANGED <<start, end, globs, step>> /\ UNCHANGED storeVars

EndOfRange ==
  /\ step = "loop" /\ ~InRange(ParseToYmd(end))
  /\ step' = "glob"
  /\ UNCHANGED <<start, end, y, m, ranges, globs>> /\ UNCHANGED storeVars

(* os.path.exists: a writer has been in the directory.                     *)
OnDisk(d) == \E x \in disk : x.dir = d

GlobPath ==
  /\ step = "glob"
  /\ globs' = {d \in {[kind |-> Category(s), sid |-> s, month |-> p] :
                        s \in Sids, p \in ToSet(ranges)} : OnDisk(d)}
  /\ step' = "done"
  /\ UNCHANGED <<start, end, y, m, ranges>> /\ UNCHANGED storeVars

Done == step = "done" /\ UNCHANGED vars

Next ==
  \/ StoreNext /\ UNCHANGED requestVars
  \/ \E s \in Starts, e \in Ends : Request(s, e)
  \/ Parse \/ AddMonth \/ EndOfRange \/ GlobPath
  \/ Done

Spec == Init /\ [][Next]_vars

-----------------------------------------------------------------------------
(* preprocess_req: what the query selects.                                 *)
Filter(row) ==
  FilterBound(start, FALSE) <= row.datetime /\ row.datetime <= FilterBound(end, TRUE)

(* Properties.                                                             *)

\* the files that hold a row the filter selects
Wanted == {x \in disk : x.dir.sid \in Sids /\ \E r \in x.rows : Filter(r)}

(* Whatever graphs loaded the stocks and the funds: no row that the filter *)
(* selects is in a directory that is not read, whether the request carries *)
(* dates, epochs or one of each.  A frame that is put twice is found as    *)
(* well, under the datetime it got, unless two threads raced in            *)
(* _make_partition.                                                        *)
Raced(x) == <<x.load, x.file>> \in raced
NothingMissed ==
  step = "done" =>
    \A x \in Wanted : x.dir.kind # "benchmark" /\ ~Raced(x) => x.dir \in globs

(* Nor is a directory read in vain: the interval of the filter overlaps    *)
(* every month of the plan, and no month comes twice.                      *)
NothingInVain ==
  step = "done" =>
    /\ \A i, j \in DOMAIN ranges : i < j => ranges[i].date < ranges[j].date
    /\ FilterBound(start, FALSE) <= FilterBound(end, TRUE) =>
         \A i \in DOMAIN ranges :
           LET yy == ranges[i].year
               mm == ranges[i].date % 100
               first == DayNumber(yy, mm, 1) * Day - Offset
           IN /\ FilterBound(start, FALSE) < first + MonthLength(yy, mm) * Day
              /\ first <= FilterBound(end, TRUE)

(* "benchmark": "1A0001|1B0688|2A01|399006" (operator.py:80): what a graph *)
(* stored for one of these is read.  399006 matches the rule of the stocks *)
(* as well, which comes first.                                             *)
BenchmarksFound ==
  step = "done" => \A x \in Wanted : x.dir.kind = "benchmark" => x.dir \in globs

(* Every stored row's tick keeps one distance to its datetime, whatever    *)
(* graphs wrote the partition: none where the loader reads binary files    *)
(* ("auto calculate the offset to UTC Epoch", format.py:46), the whole     *)
(* offset of Shanghai where it reads text, whose wall clock is taken for   *)
(* UTC (format.py:71).  Only a frame that is put twice may be further from *)
(* it, by one conversion more of its datetime, whatever races and fails.   *)
Lag(x) == IF x.file.suffix = "csv" THEN Offset ELSE 0
PutAgain(x) == <<x.load, x.file>> \in twice
TickLag ==
  \A x \in disk : \A r \in x.rows :
    \/ r.tick - r.datetime = Lag(x)
    \/ PutAgain(x) /\ r.tick - r.datetime = Lag(x) + Offset

(* The comment at writer.py:244 says Beijing time to UTC, of every frame.   *)
(* Refuted: a frame that is put twice is converted twice.                  *)
ConvertedOnce ==
  \A x \in disk : \A r \in x.rows : r.tick - r.datetime = Lag(x)
=============================================================================

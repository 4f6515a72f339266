---------------------------- MODULE ParquetStore ----------------------------
(***************************************************************************)
(* Loads of market data into the hive of parquet files: BtFeed.load starts *)
(* a graph on the files of a directory; worker processes run each through  *)
(* the chain (NodeChain), and CONSUMER_WORKERS writers, in threads, run    *)
(* ParquetWriter._write_parquet beside each other.  Loads follow one       *)
(* another; one may be killed at any time.  How frames get from the        *)
(* workers to the writers is GraphEngine's subject: here a frame is taken  *)
(* by a writer, or it is lost, or the engine puts it a second time (the    *)
(* formula NoResultPutTwice there is refuted), and then two writers have   *)
(* the same DataFrame, which _make_partition changes in place.             *)
(*                                                                         *)
(* pyarrow's write_dataset prepares a partition's directory when it meets  *)
(* its first row, and what it writes is a parquet file only when it is     *)
(* closed.  The time in the name of an incremental load's files is a       *)
(* second of the clock (writer.py:216): no two loads start in the same.    *)
(***************************************************************************)
EXTENDS NodeChain

CONSTANTS
  Graphs,       \* graph files: kind, suffix, nodes, incr
  Directories,  \* directories that may be loaded, each a set of files
  Consumers,    \* writers of a load
  MaxLoads,     \* bound: loads
  MaxTroubled,  \* bound: loads in which something fails or is put twice
  MaxTwice,     \* bound: frames that are put twice
  Races,        \* bound: what a race may leave of the partition columns
  NoLoad, NoJob, NoWriter

ASSUME LoadsAssumption == MaxLoads \in Nat /\ MaxTroubled \in Nat /\ MaxTwice \in Nat
ASSUME NoLoadAssumption == NoLoad \notin Graphs
ASSUME NoWriterAssumption == NoWriter \notin Consumers

(* Conversions of the clock from which each partition column is computed.  *)
Conversions == [year : 0 .. 1, quarter : 0 .. 1, date : 0 .. 1]
ASSUME RacesAssumption == Races \subseteq Conversions
ASSUME KindsAssumption ==
  \A g \in Graphs : g.kind \in {"stock", "fund", "benchmark"} /\ g.incr \in BOOLEAN

(* A graph has nodes for the format of its files: binary or text.          *)
NodeNames(text) ==
  {"Multiply", "Dtypes"} \cup
    (IF text THEN {"TextLoader", "UniverseDateParser"}
             ELSE {"StructUnpacker", "StructDateParser"})
ASSUME NodesAssumption ==
  \A g \in Graphs :
    /\ DOMAIN g.nodes = 1 .. Len(g.nodes) /\ Len(g.nodes) \in Nat
    /\ \A k \in DOMAIN g.nodes : g.nodes[k].name \in NodeNames(g.suffix = "csv")

VARIABLES
  graph,   \* of the load that runs, or NoLoad
  loads,   \* number of loads so far; the time in an incremental file's name
  todo,    \* files whose frame no writer has taken
  again,   \* what will be taken a second time
  converted, \* files whose frame has been through _make_partition
  job,     \* what each writer writes
  disk,    \* the parquet files
  last,    \* history: graph and files of the latest load
  faulty,  \* history: loads in which something failed
  twice,   \* history: load and file of the frames that are put twice
  raced    \* history: those that two threads had in _make_partition at once

twiceVars == <<again, converted, twice, raced>>
storeVars == <<graph, loads, todo, job, disk, last, faulty, twiceVars>>

AllFiles == UNION Directories

(* What the chain of a graph, or what a worker could build of it, makes of  *)
(* its files: the clocks of the rows lie in the years of the calendar, in  *)
(* Shanghai and in UTC.                                                    *)
FilesOf(g) == RecursiveGlob(AllFiles, g.suffix, g.kind)
FramesOf(g) == {RunPipeline(chain, f) : chain \in Pipelines(g.nodes), f \in FilesOf(g)}
Frames == UNION {FramesOf(g) : g \in Graphs}
ASSUME ClocksAssumption ==
  \A v \in Frames : \A r \in v.rows : "datetime" \in DOMAIN r =>
    r.datetime \in Clocks /\ r.datetime - Offset \in Clocks

DirOf == [kind : {g.kind : g \in Graphs}, sid : {f.sid : f \in AllFiles},
          month : PartitionSet]

(* _make_partition localizes the datetime of a row and takes the zone off  *)
(* again: the row after n of these conversions.                            *)
InUtc(row, n) == [row EXCEPT !.datetime = @ - n * Offset]

StoredRows ==
  {InUtc(r, n) : r \in {r \in UNION {v.rows : v \in Frames} : "datetime" \in DOMAIN r},
                 n \in 1 .. 2}

(* A writer has a frame; then, from _make_partition and from_pandas, its    *)
(* table: rows, each with the directory that its partition columns name.   *)
Jobs == [file : AllFiles, frame : Frames,
         table : SUBSET [dir : DirOf, row : StoredRows], opened : SUBSET DirOf]
ASSUME NoJobAssumption == NoJob \notin Jobs

StoreTypeOK ==
  /\ graph \in Graphs \cup {NoLoad}
  /\ loads \in 0 .. MaxLoads
  /\ todo \subseteq AllFiles
  /\ again \subseteq Jobs /\ converted \subseteq AllFiles
  /\ job \in [Consumers -> Jobs \cup {NoJob}]
  /\ \A x \in disk : /\ x.dir \in DirOf /\ x.name \in 0 .. loads
                     /\ x.load \in 1 .. loads /\ x.complete \in BOOLEAN
  /\ faulty \subseteq 1 .. loads
  /\ twice \subseteq (1 .. loads) \X AllFiles /\ raced \subseteq twice

StoreInit ==
  /\ graph = NoLoad
  /\ loads = 0
  /\ todo = {} /\ again = {} /\ converted = {}
  /\ job = [c \in Consumers |-> NoJob]
  /\ disk = {}
  /\ last = NoLoad
  /\ faulty = {} /\ twice = {} /\ raced = {}

-----------------------------------------------------------------------------
(* _make_partition: the directory of a row, by its clock as it is when     *)
(* each of the columns is computed, after so many conversions.             *)
MonthOf(clock) ==
  LET c == GmTime(clock)
  IN  [year |-> c.y, quarter |-> ((c.m - 1) \div 3) + 1, date |-> 100 * c.y + c.m]
MonthAfter(clock, n) ==
  [year    |-> MonthOf(clock - n.year * Offset).year,
   quarter |-> MonthOf(clock - n.quarter * Offset).quarter,
   date    |-> MonthOf(clock - n.date * Offset).date]
DirectoryOf(g, f, row, n) ==
  [kind |-> g.kind, sid |-> f.sid, month |-> MonthAfter(row.datetime, n)]

(* The table of a frame whose columns were computed after n conversions,   *)
(* and whose datetime has been through k.                                  *)
TableOf(g, j, n, k) ==
  {[dir |-> DirectoryOf(g, j.file, r, n), row |-> InUtc(r, k)] : r \in j.frame.rows}

DirsOf(table) == {t.dir : t \in table}
RowsFor(table, d) == {t.row : t \in {t \in table : t.dir = d}}

(* _make_partition raises unless the datetime is parsed, and on a frame    *)
(* without rows.                                                           *)
Writable(v) == v.kind = "frame" /\ v.rows # {} /\ HasColumn(v, "datetime")

(* ParquetWriter.__init__: the name of the files, and which of those in a   *)
(* directory survive.  And no stamp in the name, and no delete_matching.   *)
Unstamped(g) == 0
Basename(g) == IF g.incr THEN loads ELSE 0

OverwriteOrIgnore(g, x) == x.name # Basename(g)
SurvivesIn(g, x) == g.incr /\ x.name # Basename(g)

MayBeTroubled ==
  Cardinality(faulty \cup {p[1] : p \in twice} \cup {loads}) <= MaxTroubled

(* Something fails in the current load.                                    *)
Fault ==
  /\ MayBeTroubled
  /\ faulty' = faulty \cup {loads}

-----------------------------------------------------------------------------
(* BtFeed.load, to_execute.                                                *)
Load(g, directory) ==
  /\ graph = NoLoad /\ loads < MaxLoads
  /\ graph' = g
  /\ loads' = loads + 1
  /\ todo' = RecursiveGlob(directory, g.suffix, g.kind)
  /\ last' = [graph |-> g, files |-> todo']
  /\ UNCHANGED <<job, disk, faulty, twiceVars>>

(* async_produce_parallel puts the result of a task that is in two         *)
(* snapshots twice, and no result more than twice (PutAtMostTwice).        *)
PutTwice(j) ==
  /\ MayBeTroubled /\ Cardinality(twice) < MaxTwice
  /\ again' = again \cup {j}
  /\ twice' = twice \cup {<<loads, j.file>>}

(* A writer gets the frame that some worker made of f; if _make_partition  *)
(* raises, async_consume_worker goes on.                                   *)
Take(c, f) ==
  /\ job[c] = NoJob /\ f \in todo
  /\ todo' = todo \ {f}
  /\ \E pipeline \in Pipelines(graph.nodes) :
       LET v == RunPipeline(pipeline, f)
           j == [file |-> f, frame |-> v, table |-> {}, opened |-> {}]
       IN /\ v.kind # "none"
          /\ IF pipeline = graph.nodes THEN UNCHANGED faulty ELSE Fault
          /\ job' = [job EXCEPT ![c] = IF Writable(v) THEN j ELSE NoJob]
          /\ UNCHANGED <<again, twice>> \/ (Writable(v) /\ PutTwice(j))
  /\ UNCHANGED <<graph, loads, disk, last, converted, raced>>

(* A writer gets a frame that another has or has had.                      *)
InMakePartition(f) ==
  \E c \in Consumers : job[c] # NoJob /\ job[c].file = f /\ job[c].table = {}

TakeAgain(c, j) ==
  /\ job[c] = NoJob /\ j \in again
  /\ again' = again \ {j}
  /\ job' = [job EXCEPT ![c] = j]
  /\ raced' = IF InMakePartition(j.file) THEN raced \cup {<<loads, j.file>>} ELSE raced
  /\ UNCHANGED <<graph, loads, todo, disk, last, faulty, twice, converted>>

(* _make_partition has set the partition columns of the frame and then its *)
(* datetime, and from_pandas has read them.  Of a frame that was converted *)
(* already the datetime is converted again.  Two threads that set the      *)
(* columns of one frame race: each column may be read before or after a    *)
(* conversion of the other, or pandas raises.                              *)
MakePartition(c) ==
  /\ job[c] # NoJob /\ job[c].table = {}
  /\ converted' = converted \cup {job[c].file}
  /\ LET once == IF job[c].file \in converted THEN 1 ELSE 0
         Reads(n, k) == job' = [job EXCEPT ![c].table = TableOf(graph, job[c], n, k)]
     IN  IF <<loads, job[c].file>> \in raced
         THEN \/ \E n \in Races, k \in 1 .. 2 : Reads(n, k)
              \/ job' = [job EXCEPT ![c] = NoJob]
         ELSE Reads([year |-> once, quarter |-> once, date |-> once], once + 1)
  /\ UNCHANGED <<graph, loads, todo, disk, last, faulty, again, twice, raced>>

(* The chain raised or gave None, its process died, or the engine lost the *)
(* result.                                                                 *)
Lose(f) ==
  /\ graph # NoLoad /\ f \in todo
  /\ todo' = todo \ {f}
  /\ Fault
  /\ UNCHANGED <<graph, loads, job, disk, last, twiceVars>>

(* write_dataset meets the first row of a partition.  Of two writers that  *)
(* have one path open the later has the name, or neither leaves a file     *)
(* that can be read.                                                       *)
Holders(c, d) ==
  {c} \cup {NoWriter : k \in {k \in Consumers \ {c} : job[k] # NoJob /\ d \in job[k].opened}}

OpenPartition(c, d) ==
  /\ job[c] # NoJob /\ d \in DirsOf(job[c].table) \ job[c].opened
  /\ job' = [job EXCEPT ![c].opened = @ \cup {d}]
  /\ \E w \in Holders(c, d) :
       disk' = {x \in disk : x.dir = d => SurvivesIn(graph, x)}
                 \cup {[dir |-> d, name |-> Basename(graph), load |-> loads,
                        file |-> job[c].file, by |-> w,
                        complete |-> FALSE, rows |-> {}]}
  /\ UNCHANGED <<graph, loads, todo, last, faulty, twiceVars>>

(* write_dataset returns: the files are closed.                            *)
WrittenBy(c) ==
  {x \in disk : /\ x.load = loads /\ x.by = c
                /\ x.dir \in job[c].opened /\ x.file = job[c].file}

CloseFiles(c) ==
  /\ job[c] # NoJob /\ job[c].table # {}
  /\ DirsOf(job[c].table) \subseteq job[c].opened
  /\ disk' = (disk \ WrittenBy(c)) \cup
       {[x EXCEPT !.by = NoWriter, !.complete = TRUE,
                   !.rows = RowsFor(job[c].table, x.dir)] : x \in WrittenBy(c)}
  /\ job' = [job EXCEPT ![c] = NoJob]
  /\ UNCHANGED <<graph, loads, todo, last, faulty, twiceVars>>

(* It raises, in _make_partition or later, and async_consume_worker goes   *)
(* on.                                                                     *)
WriteFails(c) ==
  /\ job[c] # NoJob
  /\ Fault
  /\ job' = [job EXCEPT ![c] = NoJob]
  /\ converted' \in {converted, converted \cup {job[c].file}}
  /\ UNCHANGED <<graph, loads, todo, disk, last, again, twice, raced>>

(* The process is killed.                                                  *)
Kill ==
  /\ graph # NoLoad
  /\ Fault
  /\ graph' = NoLoad
  /\ todo' = {} /\ again' = {} /\ converted' = {}
  /\ job' = [c \in Consumers |-> NoJob]
  /\ UNCHANGED <<loads, disk, last, twice, raced>>

EndLoad ==
  /\ graph # NoLoad /\ todo = {} /\ again = {}
  /\ \A c \in Consumers : job[c] = NoJob
  /\ graph' = NoLoad
  /\ converted' = {}
  /\ UNCHANGED <<loads, todo, job, disk, last, faulty, again, twice, raced>>

StoreNext ==
  \/ \E g \in Graphs, directory \in Directories : Load(g, directory)
  \/ \E f \in todo : Lose(f) \/ \E c \in Consumers : Take(c, f)
  \/ \E c \in Consumers :
       \/ \E j \in again : TakeAgain(c, j)
       \/ MakePartition(c)
       \/ job[c] # NoJob /\ \E d \in DirsOf(job[c].table) : OpenPartition(c, d)
       \/ CloseFiles(c) \/ WriteFails(c)
  \/ Kill \/ EndLoad

StoreSpec == StoreInit /\ [][StoreNext]_storeVars

-----------------------------------------------------------------------------
(* Properties.                                                             *)

(* "delete_matching  --- overwrite all" (writer.py:263): a complete file   *)
(* of a full load is alone with what later loads added; no older file, no  *)
(* file of a writer that failed, and no second copy is read with it.       *)
FullLoadReplaces ==
  \A x, y \in disk :
    x.dir = y.dir /\ x.complete /\ x.name = 0 /\ y # x => y.load > x.load

(* "overwrite same file or append" (writer.py:262): an incremental load    *)
(* removes nothing that an earlier load stored.                            *)
IncrementalAppends ==
  [][graph # NoLoad /\ graph.incr =>
       \A x \in disk : x.load < loads => x \in disk']_storeVars

(* The line of the file that a stored row tells of: date and minute in     *)
(* Shanghai, price in cents.                                               *)
LineOf(f, row) ==
  LET clock == row.datetime + Offset
      date == GmTime(clock)
      minute == (clock % Day) \div 60
      cents == row.open \div (1000 * Hundred)
  IN  IF f.suffix = "csv"
      THEN [text |-> [y |-> date.y, m |-> date.m, d |-> date.d, minute |-> minute],
            open |-> cents]
      ELSE [dates |-> (date.y - 2004) * 2048 + 100 * date.m + date.d,
            sub_dates |-> minute, open |-> cents]

(* What ReadBack needs: the chains that xml/ has for parquet files, lines   *)
(* that tell of a minute and a price, and no two files of a load for one   *)
(* security, as of two in one month the later replaces the earlier.        *)
ShippedChain(g) ==
  LET text == g.suffix = "csv" IN
  /\ Len(g.nodes) = 4
  /\ g.nodes[1].name = IF text THEN "TextLoader" ELSE "StructUnpacker"
  /\ g.nodes[2].name = IF text THEN "UniverseDateParser" ELSE "StructDateParser"
  /\ g.nodes[3].name = "Multiply" /\ "open" \in DOMAIN g.nodes[3].factors
  /\ g.nodes[3].factors["open"] = IF text THEN 100000 ELSE 1000
  /\ g.nodes[4].name = "Dtypes"

IsMinute(c, minute) ==
  /\ c.y \in FirstYear .. LastYear /\ c.m \in 1 .. 12
  /\ c.d \in 1 .. MonthLength(c.y, c.m) /\ minute \in 0 .. 1439
DateOfLine(f, line) ==
  IF f.suffix = "csv" THEN line.text
  ELSE LET d == line.dates % 2048
       IN  [y |-> line.dates \div 2048 + 2004, m |-> d \div 100, d |-> d % 100]
MinuteOfLine(f, line) ==
  IF f.suffix = "csv" THEN line.text.minute ELSE line.sub_dates
LineOK(f, line) ==
  LET c == DateOfLine(f, line)
      minute == MinuteOfLine(f, line) IN
  /\ IsMinute(c, minute) /\ line.open \in Nat
  /\ IF f.suffix = "csv"
     THEN line = [text |-> [y |-> c.y, m |-> c.m, d |-> c.d, minute |-> minute],
                  open |-> line.open]
     ELSE /\ line.dates \in Nat
          /\ line = [dates |-> line.dates, sub_dates |-> minute, open |-> line.open]

ReadableInput ==
  /\ \A g \in Graphs : ShippedChain(g)
  /\ \A f \in AllFiles : \A line \in ToSet(f.lines) : LineOK(f, line)
  /\ \A g \in Graphs, directory \in Directories :
       \A f, e \in RecursiveGlob(directory, g.suffix, g.kind) : f.sid = e.sid => f = e

(* After a load in which nothing failed every line of its files is stored, *)
(* at its date and minute in Shanghai and at a thousand times its price in *)
(* cents, whichever loader read it, and whatever becomes of a frame that   *)
(* the engine puts twice; and of these files nothing else is stored.  The  *)
(* lines of a frame put twice may be stored eight hours early, or twice,   *)
(* or not at all.                                                          *)
ReadBack ==
  graph = NoLoad /\ loads > 0 /\ loads \notin faulty =>
    \A f \in {f \in last.files : <<loads, f>> \notin twice} :
      LET rows == UNION {x.rows : x \in {x \in disk : x.load = loads /\ x.file = f}}
      IN  {LineOf(f, r) : r \in rows} = ToSet(f.lines)
=============================================================================

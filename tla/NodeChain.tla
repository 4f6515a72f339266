------------------------------ MODULE NodeChain ------------------------------
(***************************************************************************)
(* What becomes of one input file in a worker process: the nodes of        *)
(* graph/node/loader.py and format.py, the chain run_sync_pipeline_global  *)
(* runs them in, and init_worker, which builds the chain.                  *)
(*                                                                         *)
(* A row is a function from its columns to values.  Of the prices only     *)
(* "open" is kept; its values count hundredths, so that an integer can be   *)
(* told from a fraction.  The line of a file carries a price in cents.     *)
(***************************************************************************)
EXTENDS Calendar, Orders, SequencesExt

CONSTANT MayFail  \* nodes that a worker process may fail to build

(* What flows through a chain: a path, a frame, or None.                   *)
Path(f)     == [kind |-> "path",  file |-> f, rows |-> {}]
Frame(f, R) == [kind |-> "frame", file |-> f, rows |-> R]
Dropped(f)  == [kind |-> "none",  file |-> f, rows |-> {}]

Hundred == 100
Truncate(v) == v - (v % Hundred)  \* astype("int64")
Without(row, columns) == Restrict(row, DOMAIN row \ columns)
With(row, columns) ==
  [c \in DOMAIN columns \cup DOMAIN row |->
     IF c \in DOMAIN columns THEN columns[c] ELSE row[c]]

-----------------------------------------------------------------------------
(* Loaders.  A set of rows is a frame without duplicates.                  *)

(* StructUnpacker: prices are integers, in cents.                          *)
Unpack(f) ==
  Frame(f, {[dates |-> l.dates, sub_dates |-> l.sub_dates,
             open |-> l.open * Hundred] : l \in ToSet(f.lines)})

(* TextLoader: prices are decimal numbers; a datetime is still a text.     *)
LoadText(f) ==
  Frame(f, {[text |-> l.text, open |-> l.open] : l \in ToSet(f.lines)})

-----------------------------------------------------------------------------
(* StructDateParser: two small integers to a wall clock, and to UTC.  And  *)
(* with minutes taken for hundredths of an hour.                           *)
ClockOfHundredths(row) ==
  LET d == row.dates % 2048
  IN  Wall(row.dates \div 2048 + 2004, d \div 100, d % 100,
           60 * (row.sub_dates \div 100) + (row.sub_dates % 100))
ClockOf(row) ==
  LET d == row.dates % 2048
  IN  Wall(row.dates \div 2048 + 2004, d \div 100, d % 100, row.sub_dates)

(* tz_localize: the instant at which the clock of Shanghai shows it.       *)
NotLocalized(clock) == clock
Localized(clock) == clock - Offset

ParseStruct(row) ==
  With(Without(row, {"dates", "sub_dates"}),
       [datetime |-> ClockOf(row), tick |-> Localized(ClockOf(row))])

(* UniverseDateParser: the tick is that of the wall clock taken for UTC.   *)
ParseText(row) ==
  LET clock == Wall(row.text.y, row.text.m, row.text.d, row.text.minute)
  IN  With(Without(row, {"text"}), [datetime |-> clock, tick |-> clock])

(* Multiply: every numeric column but the excluded ones, or those the      *)
(* params name.  Both are a function from columns to factors here.         *)
Exclude == {"datetime", "tick", "text"}
ScaleBy(factors, row) ==
  [c \in DOMAIN row |->
     IF c \in DOMAIN factors \ Exclude THEN Truncate(row[c] * factors[c])
                                       ELSE row[c]]

(* Dtypes.                                                                 *)
ToInteger(row) == [row EXCEPT !.open = Truncate(@)]

-----------------------------------------------------------------------------
(* node.next: a loader wants a path, the others a frame.  What is raised   *)
(* ends in None, which ends the chain.                                     *)
IsLoader(node) == node.name \in {"StructUnpacker", "TextLoader"}

EachRow(op(_), v) == Frame(v.file, {op(r) : r \in v.rows})
HasColumn(v, c) == \A r \in v.rows : c \in DOMAIN r

NextNode(v, node) ==
  IF v.kind = "none" THEN v
  ELSE IF IsLoader(node) # (v.kind = "path") THEN Dropped(v.file)
  ELSE CASE node.name = "StructUnpacker" -> Unpack(v.file)
         [] node.name = "TextLoader" -> LoadText(v.file)
         [] node.name = "StructDateParser" ->
              IF HasColumn(v, "dates") THEN EachRow(ParseStruct, v) ELSE Dropped(v.file)
         [] node.name = "UniverseDateParser" ->
              IF HasColumn(v, "text") THEN EachRow(ParseText, v) ELSE v
         [] node.name = "Multiply" ->
              EachRow(LAMBDA r : ScaleBy(node.factors, r), v)
         [] node.name = "Dtypes" -> EachRow(ToInteger, v)

(* run_sync_pipeline_global; an empty chain returns the path it was given. *)
RunPipeline(pipeline, f) == FoldLeft(NextNode, Path(f), pipeline)

(* init_worker: a node that cannot be built is left out of the chain.      *)
Pipelines(nodes) ==
  {Select(nodes, LAMBDA n : n.name \notin failed) : failed \in SUBSET MayFail}

-----------------------------------------------------------------------------
(* BtFeed.load: the files of a directory whose names match the pattern of  *)
(* the suffix and the kind of security: market and first digits of the sid. *)
StockNames == {<<"sh", "6">>, <<"sz", "0">>, <<"sz", "3">>}
FundNames  == {<<"sh", "51">>, <<"sz", "15">>, <<"sz", "16">>}

NameMatches(f, kind) ==
  CASE kind = "stock"     -> <<f.market, f.sid.digits>> \in StockNames
    [] kind = "fund"      -> <<f.market, f.sid.digits>> \in FundNames
    [] kind = "benchmark" -> TRUE

RecursiveGlob(directory, suffix, kind) ==
  {f \in directory : f.suffix = suffix /\ NameMatches(f, kind)}
=============================================================================

-------------------------- MODULE MCTickPartitions --------------------------
(***************************************************************************)
(* Small instances of TickPartitions for TLC.  Two directories of files    *)
(* around the months from December 2023 to March 2024, graphs like those   *)
(* in xml/, and dates and epochs about the changes of month.               *)
(***************************************************************************)
EXTENDS TickPartitions

CONSTANTS w1, w2

Writers == {w1, w2}
WritersAlike == Permutations(Writers)

\* all computed before the other thread converts, or the last one after it
SomeRaces == { [year |-> 0, quarter |-> 0, date |-> k] : k \in 0 .. 1 }

Node(name) == [name |-> name]
Times(factors) == [name |-> "Multiply", factors |-> factors]

StructNodes == <<Node("StructUnpacker"), Node("StructDateParser"),
                 Times([dates |-> 1000, sub_dates |-> 1000, open |-> 1000]),
                 Node("Dtypes")>>
TextNodes == <<Node("TextLoader"), Node("UniverseDateParser"),
               Times([open |-> 100000]), Node("Dtypes")>>

\* tick.graphml; with the parameter incr; tick_csv.graphml
StockGraphs ==
  { [kind |-> "stock", suffix |-> ".01", nodes |-> StructNodes, incr |-> FALSE],
    [kind |-> "stock", suffix |-> ".01", nodes |-> StructNodes, incr |-> TRUE],
    [kind |-> "stock", suffix |-> "csv", nodes |-> TextNodes, incr |-> FALSE] }

\* benchmark_csv.graphml
BenchmarkGraphs ==
  { [kind |-> "benchmark", suffix |-> "csv", nodes |-> TextNodes, incr |-> FALSE] }

pudong == [digits |-> "6", name |-> "600000"]
gem    == [digits |-> "3", name |-> "399006"]
star   == [digits |-> "1B", name |-> "1B0688"]

Struct(year, month, day, minute, cents) ==
  [dates |-> (year - 2004) * 2048 + 100 * month + day, sub_dates |-> minute, open |-> cents]
Text(year, month, day, minute, cents) ==
  [text |-> [y |-> year, m |-> month, d |-> day, minute |-> minute], open |-> cents]

\* the nodes accept every minute of a day: the first five hours of a month in
\* Shanghai are in another month of UTC
OldStruct ==
  <<Struct(2023, 12, 29, 899, 1234), Struct(2024, 1, 1, 5, 1235),
    Struct(2024, 1, 1, 5, 1235)>>
OldText ==
  <<Text(2023, 12, 29, 899, 1234), Text(2024, 1, 1, 5, 1235)>>
GemStruct == <<Struct(2024, 2, 1, 0, 1201)>>
NewStruct == <<Struct(2024, 1, 31, 1435, 1201), Struct(2024, 3, 1, 571, 1202)>>

File(market, s, suffix, lines) ==
  [market |-> market, sid |-> s, suffix |-> suffix, lines |-> lines]

StockDirectories ==
  { { File("sh", pudong, ".01", OldStruct), File("sh", pudong, "csv", OldText) },
    { File("sh", pudong, ".01", NewStruct), File("sz", gem, ".01", GemStruct),
      File("sh", pudong, "csv", <<>>) } }

BenchmarkDirectories ==
  { { File("sh", pudong, "csv", OldText), File("sz", gem, "csv", OldText),
      File("sh", star, "csv", OldText) } }

MonthStart(year, month) == DayNumber(year, month, 1) * Day - Offset
SomeStarts == {20231229, 20240101, MonthStart(2024, 3) + Offset - 1}
SomeEnds == {20231231, 20240301, MonthStart(2024, 1) + 300, MonthStart(2024, 2) - 1}
AllSids == {pudong, gem, star}

ASSUME InputIsReadable == ReadableInput
=============================================================================

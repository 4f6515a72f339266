---------------------------- MODULE FrameStreams ----------------------------
(***************************************************************************)
(* The providers of datasets/provider.pyx: how the rows of a query become  *)
(* the Arrow frames of the response stream.                                *)
(*                                                                         *)
(*   "batch"    BaseDuckDBProvider: each record batch is cut at the points *)
(*              where the sid changes, one frame per slice.                *)
(*   "grouped"  BaseSQLAlchemyProvider of Adjust and Right: rows ordered   *)
(*              by sid collect in a buffer that is flushed when it is full *)
(*              or the sid changes.                                        *)
(*   "plain"    the same of Instrument, which looks at no sid.             *)
(*                                                                         *)
(* A provider object is shared by all requests of its topic, and requests  *)
(* interleave at every row and every frame.  A row is <<request, index>>;  *)
(* its columns but the sid are left out.                                   *)
(***************************************************************************)
EXTENDS Integers, Sequences, SequencesExt, Orders

CONSTANTS
  Requests,  \* concurrent calls of the providers
  Sids,      \* securities, ordered as integers from 1
  Chunk,     \* CHUNK_SIZE, rows of a buffer
  MaxBatch,  \* bound: rows of a record batch
  MaxRows,   \* bound: rows of a query
  Blank      \* what a buffer holds where no row was stored

ASSUME ChunkAssumption == Chunk \in Nat \ {0}
ASSUME BoundsAssumption == MaxBatch \in Nat \ {0} /\ MaxRows \in Nat
ASSUME SidsAssumption == Sids \subseteq Nat \ {0}

Kinds == {"batch", "grouped", "plain"}
Running == {"reading", "slicing", "yielded"}
Rows == Requests \X (1 .. MaxRows)
Ordered(s) == \A i, j \in DOMAIN s : i < j => s[i] <= s[j]
\* the sids of the rows of a query, in the order the database returns them;
\* Adjust and Right ask for ORDER BY sid
Results(k) == {s \in SeqOf(Sids, MaxRows) : k = "grouped" => Ordered(s)}

VARIABLES
  kind,    \* the provider each request calls
  rows,    \* the sid of each row of its result
  read,    \* rows received so far
  buffer,  \* the row buffers
  count,   \* i: rows stored in the request's buffer
  last,    \* last_sid, 0 for None
  slices,  \* slices of the current batch not sent yet, [from, to]
  sent,    \* the rows sent, in order
  frames,  \* the frames they were sent in: label, end in sent, cut
  state    \* where the request is

vars == <<kind, rows, read, buffer, count, last, slices, sent, frames, state>>
input == <<kind, rows>>

\* a frame ends because its batch or its buffer did, or because the sid changed
Frame == [label : Sids \cup {0}, upto : 0 .. MaxRows, cut : {"size", "sid", "end"}]

TypeOK ==
  /\ kind \in [Requests -> Kinds]
  /\ rows \in [Requests -> Seq(Sids)]
  /\ \A r \in Requests : rows[r] \in Results(kind[r])
  /\ read \in [Requests -> 0 .. MaxRows]
  /\ \A r \in Requests : read[r] <= Len(rows[r])
  /\ buffer \in [Requests -> [1 .. Chunk -> Rows \cup {Blank}]]
  /\ count \in [Requests -> 0 .. Chunk]
  /\ last \in [Requests -> Sids \cup {0}]
  /\ slices \in [Requests -> Seq([from : 0 .. MaxRows, to : 0 .. MaxRows])]
  /\ sent \in [Requests -> Seq(Rows)]
  /\ frames \in [Requests -> Seq(Frame)]
  /\ state \in [Requests -> Running \cup {"done", "stopped"}]

-----------------------------------------------------------------------------
(* The buffer of a request: "_init_buffers" makes one per call.  And one   *)
(* that belongs to the provider, as it would be in an attribute of it.     *)
SharedBuffer(r) == CHOOSE q \in Requests : TRUE
BufferOf(r) == r

NewBuffer == [i \in 1 .. Chunk |-> Blank]

Init ==
  /\ kind \in [Requests -> Kinds]
  /\ rows \in [Requests -> SeqOf(Sids, MaxRows)]
  /\ \A r \in Requests : rows[r] \in Results(kind[r])
  /\ read = [r \in Requests |-> 0]
  /\ buffer = [b \in Requests |-> NewBuffer]
  /\ count = [r \in Requests |-> 0]
  /\ last = [r \in Requests |-> 0]
  /\ slices = [r \in Requests |-> <<>>]
  /\ sent = [r \in Requests |-> <<>>]
  /\ frames = [r \in Requests |-> <<>>]
  /\ state = [r \in Requests |-> "reading"]

Goto(r, s) == state' = [state EXCEPT ![r] = s]

(* A frame with the rows of sequence s.                                    *)
Yield(r, label, s, cut) ==
  /\ sent' = [sent EXCEPT ![r] = @ \o s]
  /\ frames' = [frames EXCEPT ![r] =
       Append(@, [label |-> label, upto |-> Len(sent[r] \o s), cut |-> cut])]

-----------------------------------------------------------------------------
(* BaseSQLAlchemyProvider.                                                 *)

GroupBySid(r) == kind[r] = "grouped"
SidOf(r, k) == IF GroupBySid(r) THEN rows[r][k] ELSE 0

SidChanges(r) ==
  GroupBySid(r) /\ last[r] # 0 /\ SidOf(r, read[r] + 1) # last[r]

(* The flush condition; then one that looks at the size only, and one that *)
(* always holds.                                                           *)
FlushOnSize(r) == count[r] >= Chunk
FlushAlways(r) == count[r] > 0
FlushDue(r) == count[r] >= Chunk \/ SidChanges(r)

(* _row_to_buffer at index i of a buffer b that holds i rows.              *)
Store(r, b, i) ==
  /\ buffer' = [buffer EXCEPT ![BufferOf(r)] =
                  [b EXCEPT ![i + 1] = <<r, read[r] + 1>>]]
  /\ count' = [count EXCEPT ![r] = i + 1]
  /\ last' = [last EXCEPT ![r] = SidOf(r, read[r] + 1)]
  /\ read' = [read EXCEPT ![r] = @ + 1]

Buffered(r) == SubSeq(buffer[BufferOf(r)], 1, count[r])
MoreRows(r) == read[r] < Len(rows[r])

KeepRow(r) ==
  /\ kind[r] # "batch" /\ state[r] = "reading" /\ MoreRows(r)
  /\ ~FlushDue(r)
  /\ Store(r, buffer[BufferOf(r)], count[r])
  /\ UNCHANGED <<slices, sent, frames, state>> /\ UNCHANGED input

(* The frame is yielded before the row at hand is stored ...               *)
FlushBuffer(r) ==
  /\ kind[r] # "batch" /\ state[r] = "reading" /\ MoreRows(r)
  /\ FlushDue(r)
  /\ Yield(r, last[r], Buffered(r), IF count[r] >= Chunk THEN "size" ELSE "sid")
  /\ Goto(r, "yielded")
  /\ UNCHANGED <<read, buffer, count, last, slices>> /\ UNCHANGED input

(* ... and the row goes to a new buffer when the generator is resumed.     *)
ResumeRow(r) ==
  /\ state[r] = "yielded"
  /\ Store(r, NewBuffer, 0)
  /\ Goto(r, "reading")
  /\ UNCHANGED <<slices, sent, frames>> /\ UNCHANGED input

FlushRest(r) ==
  /\ kind[r] # "batch" /\ state[r] = "reading" /\ ~MoreRows(r)
  /\ IF count[r] > 0 THEN Yield(r, last[r], Buffered(r), "end")
                     ELSE UNCHANGED <<sent, frames>>
  /\ Goto(r, "done")
  /\ UNCHANGED <<read, buffer, count, last, slices>> /\ UNCHANGED input

-----------------------------------------------------------------------------
(* BaseDuckDBProvider.                                                     *)

(* _slice_by_sid: the 0-based starts and ends of the runs of equal sids.   *)
Bounds(s) == Ascending({i \in 1 .. Len(s) - 1 : s[i] # s[i + 1]})
SliceBySid(s) ==
  IF \A i \in DOMAIN s : s[i] = s[1]
  THEN <<[from |-> 0, to |-> Len(s)]>>
  ELSE LET starts == <<0>> \o Bounds(s)
           ends   == Bounds(s) \o <<Len(s)>>
       IN  [i \in DOMAIN starts |-> [from |-> starts[i], to |-> ends[i]]]

(* The next record batch has n rows.  An empty one changes nothing.        *)
TakeBatch(r, n) ==
  /\ kind[r] = "batch" /\ state[r] = "reading"
  /\ read[r] + n <= Len(rows[r])
  /\ LET s == SubSeq(rows[r], read[r] + 1, read[r] + n)
         cuts == SliceBySid(s)
     IN slices' = [slices EXCEPT ![r] =
          [i \in DOMAIN cuts |-> [from |-> read[r] + cuts[i].from,
                                  to   |-> read[r] + cuts[i].to]]]
  /\ read' = [read EXCEPT ![r] = @ + n]
  /\ Goto(r, "slicing")
  /\ UNCHANGED <<buffer, count, last, sent, frames>> /\ UNCHANGED input

(* One slice, labelled with the sid of its first row.                      *)
SendSlice(r) ==
  /\ state[r] = "slicing"
  /\ LET c == Head(slices[r])
         rest == Tail(slices[r])
     IN /\ Yield(r, rows[r][c.from + 1],
                 [k \in 1 .. c.to - c.from |-> <<r, c.from + k>>],
                 IF rest = <<>> THEN "size" ELSE "sid")
        /\ slices' = [slices EXCEPT ![r] = rest]
        /\ Goto(r, IF rest = <<>> THEN "reading" ELSE "slicing")
  /\ UNCHANGED <<read, buffer, count, last>> /\ UNCHANGED input

NoMoreBatches(r) ==
  /\ kind[r] = "batch" /\ state[r] = "reading" /\ ~MoreRows(r)
  /\ Goto(r, "done")
  /\ UNCHANGED <<read, buffer, count, last, slices, sent, frames>>
  /\ UNCHANGED input

-----------------------------------------------------------------------------
(* The query fails, a row does not fit the buffer's column type, or the    *)
(* client has left: context.done() is seen at a row or batch, or the       *)
(* generator is closed at its yield.  Wherever it is, it stops there.      *)
StopStream(r) ==
  /\ state[r] \in Running
  /\ Goto(r, "stopped")
  /\ UNCHANGED <<read, buffer, count, last, slices, sent, frames>>
  /\ UNCHANGED input

Step(r) ==
  \/ KeepRow(r) \/ FlushBuffer(r) \/ ResumeRow(r) \/ FlushRest(r)
  \/ \E n \in 1 .. MaxBatch : TakeBatch(r, n)
  \/ SendSlice(r) \/ NoMoreBatches(r)
  \/ StopStream(r)

Quiet == (\A r \in Requests : state[r] \notin Running) /\ UNCHANGED vars

Next == (\E r \in Requests : Step(r)) \/ Quiet

Spec == Init /\ [][Next]_vars

-----------------------------------------------------------------------------
(* Properties.                                                             *)

FrameRows(r, k) ==
  SubSeq(sent[r], IF k = 1 THEN 1 ELSE frames[r][k - 1].upto + 1, frames[r][k].upto)

(* No row is lost, repeated, reordered or mixed with another request's:    *)
(* what was sent, followed by what is in the buffer or still to be sliced, *)
(* is what was read; a stream that ends normally has sent everything.      *)
(* "每次 __call__ 创建新实例，避免单例 Provider 竞态" (README.md:98).          *)
RowsInOrder ==
  \A r \in Requests :
    LET out == IF kind[r] # "batch" /\ state[r] = "reading"
               THEN sent[r] \o Buffered(r) ELSE sent[r]
    IN /\ \A k \in DOMAIN out : out[k] = <<r, k>>
       /\ state[r] \in {"reading", "yielded"} => Len(out) = read[r]
       /\ state[r] = "done" => Len(out) = Len(rows[r])

(* A frame holds rows, and all of them of the sid in its metadata; only    *)
(* frames of Instrument carry none.                                        *)
FramesPure ==
  \A r \in Requests : \A k \in DOMAIN frames[r] :
    /\ FrameRows(r, k) # <<>>
    /\ kind[r] # "plain" =>
         \A i \in DOMAIN FrameRows(r, k) :
           rows[r][FrameRows(r, k)[i][2]] = frames[r][k].label
    /\ kind[r] = "plain" => frames[r][k].label = 0

(* A frame stops short of the end of its buffer or batch only where the    *)
(* sid changes: no run of rows is cut into more frames than it must be.    *)
FramesMaximal ==
  \A r \in Requests : \A k \in DOMAIN frames[r] :
    /\ k < Len(frames[r]) =>
         \/ frames[r][k].cut = "size"
         \/ frames[r][k].cut = "sid" /\ frames[r][k].label # frames[r][k + 1].label
    /\ kind[r] # "batch" /\ frames[r][k].cut = "size" =>
         Len(FrameRows(r, k)) = Chunk

(* Every frame is both: pure, and as long as its buffer or batch allows.   *)
FramesBySid == FramesPure /\ FramesMaximal
=============================================================================

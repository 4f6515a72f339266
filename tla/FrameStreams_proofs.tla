------------------------ MODULE FrameStreams_proofs ------------------------
(***************************************************************************)
(* Theorems about FrameStreams, for any requests, sids, sizes of buffers   *)
(* and batches, and lengths of results.                                    *)
(***************************************************************************)
EXTENDS FrameStreams, Orders_proofs, SequenceTheorems

\* Where frame k starts, and the next row to be sent.
From(r, k) == IF k = 1 THEN 0 ELSE frames[r][k - 1].upto
NextRow(r) == Len(sent[r]) + 1

SentInv(r) ==
  /\ \A k \in 1 .. Len(sent[r]) : sent[r][k] = <<r, k>>
  /\ Len(sent[r]) <= Len(rows[r])

\* A frame that a change of sid ended has a row of another sid after it, which
\* the request has yet to send if it is the last frame.
CutInv(r, k) ==
  LET f == frames[r][k] IN
  /\ k < Len(frames[r]) =>
       \/ f.cut = "size"
       \/ f.cut = "sid" /\ f.label # frames[r][k + 1].label
  /\ k = Len(frames[r]) =>
       /\ f.upto = Len(sent[r])
       /\ state[r] \in Running => f.cut # "end"
       /\ state[r] \in Running /\ f.cut = "sid" =>
            NextRow(r) <= Len(rows[r]) /\ rows[r][NextRow(r)] # f.label

\* The frames follow each other, each with the rows of one sid.
FrameInv(r) ==
  /\ frames[r] = <<>> => sent[r] = <<>>
  /\ \A k \in 1 .. Len(frames[r]) :
       LET f == frames[r][k] IN
       /\ From(r, k) < f.upto /\ f.upto <= Len(sent[r])
       /\ kind[r] # "plain" =>
            \A i \in From(r, k) + 1 .. f.upto : rows[r][i] = f.label
       /\ kind[r] = "plain" => f.label = 0 /\ f.cut # "sid"
       /\ kind[r] # "batch" /\ f.cut = "size" => f.upto - From(r, k) = Chunk
       /\ CutInv(r, k)

\* The buffer holds the rows that were read and not sent, all of the last sid.
BufferInv(r) ==
  kind[r] # "batch" =>
    /\ state[r] # "slicing"
    /\ state[r] = "reading" =>
         /\ read[r] = Len(sent[r]) + count[r]
         /\ count[r] = 0 => read[r] = 0 /\ last[r] = 0
         /\ \A i \in 1 .. count[r] : buffer[r][i] = <<r, Len(sent[r]) + i>>
         /\ \A i \in 1 .. count[r] : SidOf(r, Len(sent[r]) + i) = last[r]
    /\ state[r] = "yielded" => read[r] = Len(sent[r]) /\ MoreRows(r)
    /\ state[r] = "done" => Len(sent[r]) = Len(rows[r])

\* A slice holds the rows of one sid; the next slice begins where it ends, with
\* another sid.
SliceInv(r, i) ==
  LET c == slices[r][i] IN
  /\ c.from < c.to /\ c.to <= read[r]
  /\ \A k \in c.from + 1 .. c.to : rows[r][k] = rows[r][c.from + 1]
  /\ i < Len(slices[r]) =>
       /\ slices[r][i + 1].from = c.to
       /\ rows[r][c.to + 1] # rows[r][c.from + 1]
  /\ i = Len(slices[r]) => c.to = read[r]

\* The slices hold the rows of the batch that are still to be sent.
BatchInv(r) ==
  kind[r] = "batch" =>
    /\ state[r] # "yielded"
    /\ state[r] = "reading" => read[r] = Len(sent[r])
    /\ state[r] = "slicing" =>
         /\ Len(slices[r]) > 0
         /\ slices[r][1].from = Len(sent[r])
         /\ \A i \in 1 .. Len(slices[r]) : SliceInv(r, i)
    /\ state[r] = "done" => Len(sent[r]) = Len(rows[r])

LocalInv(r) == SentInv(r) /\ FrameInv(r) /\ BufferInv(r) /\ BatchInv(r)
IInv == TypeOK /\ \A r \in Requests : LocalInv(r)

-----------------------------------------------------------------------------
(* The slices of a batch.                                                  *)

Cuts(s) == {i \in 1 .. Len(s) - 1 : s[i] # s[i + 1]}

\* Rows between which no sid changes have the same sid.
LEMMA NoCutNoChange ==
  ASSUME NEW s \in Seq(Sids), NEW m \in 0 .. Len(s), NEW n \in m + 1 .. Len(s),
         \A i \in m + 1 .. n - 1 : i \notin Cuts(s)
  PROVE  \A k \in m + 1 .. n : s[k] = s[m + 1]
<1> DEFINE Bad == {k \in m + 1 .. n : s[k] # s[m + 1]}
<1>1. Len(s) \in Nat /\ m \in Nat /\ n \in Nat
  OBVIOUS
<1> SUFFICES ASSUME Bad # {} PROVE FALSE
  OBVIOUS
<1>2. Bad \in SUBSET Nat
  BY <1>1
<1>3. PICK k \in Bad : \A j \in Bad : k <= j
  BY <1>2, LeastExists
<1>4. k \in m + 1 .. n /\ k # m + 1 /\ k \in Nat
  BY <1>1, <1>3
<1>5. k - 1 \in m + 1 .. n - 1 /\ k - 1 \in 1 .. Len(s) - 1
  BY <1>1, <1>4
<1>6. k - 1 \notin Bad
  BY <1>3, <1>4
<1>7. s[k - 1] = s[m + 1]
  BY <1>5, <1>6, <1>1
<1>8. s[k - 1] = s[(k - 1) + 1]
  BY <1>5 DEF Cuts
<1>9. (k - 1) + 1 = k
  BY <1>4
<1> QED  BY <1>3, <1>7, <1>8, <1>9

Sliced(s, c) ==
  /\ DOMAIN c = 1 .. Len(c) /\ Len(c) \in Nat \ {0}
  /\ c[1].from = 0
  /\ \A i \in 1 .. Len(c) :
       /\ c[i] \in [from : 0 .. Len(s), to : 0 .. Len(s)]
       /\ c[i].from < c[i].to
       /\ \A k \in c[i].from + 1 .. c[i].to : s[k] = s[c[i].from + 1]
       /\ i < Len(c) => /\ c[i + 1].from = c[i].to
                        /\ s[c[i].to + 1] # s[c[i].from + 1]
       /\ i = Len(c) => c[i].to = Len(s)

\* What _slice_by_sid returns: adjoining slices of one sid each.
LEMMA SlicesOfBatch ==
  ASSUME NEW s \in Seq(Sids), Len(s) > 0
  PROVE  Sliced(s, SliceBySid(s))
<1> DEFINE n == Len(s)
           B == Bounds(s)
           m == Cardinality(Cuts(s))
           starts == <<0>> \o B
           ends == B \o <<n>>
           c == [i \in DOMAIN starts |-> [from |-> starts[i], to |-> ends[i]]]
<1>1. n \in Nat \ {0} /\ DOMAIN s = 1 .. n
  OBVIOUS
<1>2. CASE \A i \in DOMAIN s : s[i] = s[1]
  <2>1. SliceBySid(s) = <<[from |-> 0, to |-> n]>>
    BY <1>2 DEF SliceBySid
  <2> QED  BY <1>1, <1>2, <2>1 DEF Sliced
<1>3. CASE ~ \A i \in DOMAIN s : s[i] = s[1]
  <2>1. SliceBySid(s) = c
    BY <1>3 DEF SliceBySid
  <2>2. Cuts(s) \in SUBSET (1 .. n - 1) /\ n - 1 \in Nat
    BY <1>1 DEF Cuts
  <2>3. B = Ascending(Cuts(s))
    BY DEF Bounds, Cuts
  <2>4. m \in Nat /\ B \in [1 .. m -> Cuts(s)]
    BY <2>2, <2>3, AscendingFacts
  <2>5. \A i, j \in 1 .. m : i < j => B[i] < B[j]
    BY <2>2, <2>3, AscendingFacts
  <2>6. \A x \in Cuts(s) : \E i \in 1 .. m : B[i] = x
    BY <2>2, <2>3, AscendingFacts
  <2> HIDE DEF B, m, n
  <2>7. B \in Seq(Nat) /\ Len(B) = m
    <3>1. \A i \in 1 .. m : B[i] \in Nat
      BY <2>2, <2>4
    <3>2. B \in [1 .. m -> Nat]
      BY <2>4, <3>1
    <3> QED  BY <2>4, <3>2
  <2>8. /\ DOMAIN starts = 1 .. m + 1
        /\ \A i \in 1 .. m + 1 : starts[i] = IF i = 1 THEN 0 ELSE B[i - 1]
    BY <2>4, <2>7
  <2>9. \A i \in 1 .. m + 1 : ends[i] = IF i = m + 1 THEN n ELSE B[i]
    BY <1>1, <2>4, <2>7
  <2> HIDE DEF starts, ends
  <2>10. /\ c \in Seq([from : {starts[i] : i \in 1 .. m + 1}, to : {ends[i] : i \in 1 .. m + 1}])
         /\ Len(c) = m + 1 /\ DOMAIN c = 1 .. m + 1
    BY <2>4, <2>8
  <2>11. \A i \in 1 .. m + 1 : c[i] = [from |-> starts[i], to |-> ends[i]]
    BY <2>8
  <2> HIDE DEF c
  <2>12. \A i \in 1 .. m : B[i] \in 1 .. n - 1 /\ B[i] \in Cuts(s)
    BY <2>2, <2>4
  <2>13. ASSUME NEW i \in 1 .. m + 1
         PROVE  /\ starts[i] \in 0 .. n /\ ends[i] \in 0 .. n
                /\ starts[i] < ends[i]
                /\ \A k \in starts[i] + 1 .. ends[i] : s[k] = s[starts[i] + 1]
                /\ i < m + 1 => /\ starts[i + 1] = ends[i]
                                /\ s[ends[i] + 1] # s[starts[i] + 1]
                /\ i = m + 1 => ends[i] = n
    <3>0. i \in Nat /\ i > 0 /\ i <= m + 1
      BY <2>4
    <3>1. starts[i] \in 0 .. n - 1 /\ starts[i] \in Nat
      <4>1. CASE i = 1
        BY <1>1, <2>8, <4>1
      <4>2. CASE i # 1
        <5>1. i - 1 \in 1 .. m
          BY <2>4, <4>2
        <5> QED  BY <1>1, <2>8, <2>12, <4>2, <5>1
      <4> QED  BY <4>1, <4>2
    <3>2. ends[i] \in 1 .. n /\ ends[i] \in Nat
      <4>1. CASE i = m + 1
        BY <1>1, <2>9, <4>1
      <4>2. CASE i # m + 1
        <5>1. i \in 1 .. m
          BY <2>4, <4>2
        <5> QED  BY <1>1, <2>9, <2>12, <4>2, <5>1
      <4> QED  BY <4>1, <4>2
    <3>3. starts[i] < ends[i]
      <4>1. CASE i = 1 /\ i # m + 1
        <5>1. i \in 1 .. m
          BY <3>0, <2>4, <4>1
        <5> QED  BY <1>1, <2>8, <2>9, <2>12, <4>1, <5>1
      <4>2. CASE i # 1 /\ i = m + 1
        <5>1. i - 1 \in 1 .. m
          BY <3>0, <2>4, <4>2
        <5> QED  BY <1>1, <2>8, <2>9, <2>12, <4>2, <5>1
      <4>3. CASE i # 1 /\ i # m + 1
        <5>1. i - 1 \in 1 .. m /\ i \in 1 .. m /\ i - 1 < i
          BY <3>0, <2>4, <4>3
        <5> QED  BY <2>5, <2>8, <2>9, <4>3, <5>1
      <4>4. CASE i = 1 /\ i = m + 1
        BY <1>1, <2>8, <2>9, <4>4
      <4> QED  BY <4>1, <4>2, <4>3, <4>4
    <3>4. \A x \in starts[i] + 1 .. ends[i] - 1 : x \notin Cuts(s)
      <4> SUFFICES ASSUME NEW x \in Cuts(s), starts[i] < x, x < ends[i]
                   PROVE  FALSE
        BY <3>1, <3>2
      <4>1. PICK j \in 1 .. m : B[j] = x
        BY <2>6
      <4>2. j \in Nat /\ 1 <= j /\ j <= m /\ x \in Nat
        BY <2>4, <2>12, <4>1
      <4>3. i <= j
        <5> SUFFICES ASSUME j < i PROVE FALSE
          BY <3>0, <4>2
        <5>1. i # 1 /\ i - 1 \in 1 .. m /\ starts[i] = B[i - 1] /\ j <= i - 1
          BY <2>4, <2>8, <3>0, <4>2
        <5>2. B[j] <= B[i - 1]
          <6>1. CASE j = i - 1
            BY <4>1, <4>2, <6>1
          <6>2. CASE j # i - 1
            BY <2>5, <2>12, <5>1, <6>2, <3>0, <4>2
          <6> QED  BY <6>1, <6>2
        <5> QED  BY <4>1, <4>2, <3>1, <5>1, <5>2
      <4>4. i \in 1 .. m /\ ends[i] = B[i]
        BY <2>4, <2>9, <3>0, <4>2, <4>3
      <4>5. B[i] <= B[j]
        <5>1. CASE j = i
          BY <4>1, <4>2, <5>1
        <5>2. CASE j # i
          BY <2>5, <2>12, <4>3, <4>4, <5>2, <3>0, <4>2
        <5> QED  BY <5>1, <5>2
      <4> QED  BY <4>1, <4>2, <4>4, <4>5, <3>2
    <3>5. starts[i] \in 0 .. Len(s) /\ ends[i] \in starts[i] + 1 .. Len(s)
      BY <1>1, <3>1, <3>2, <3>3 DEF n
    <3>6. \A k \in starts[i] + 1 .. ends[i] : s[k] = s[starts[i] + 1]
      BY <3>4, <3>5, NoCutNoChange
    <3>7. ASSUME i < m + 1
          PROVE  starts[i + 1] = ends[i] /\ s[ends[i] + 1] # s[starts[i] + 1]
      <4>1. i \in 1 .. m /\ i + 1 \in 1 .. m + 1 /\ i + 1 # 1 /\ (i + 1) - 1 = i
        BY <2>4, <3>0, <3>7
      <4>2. ends[i] = B[i] /\ starts[i + 1] = B[i]
        BY <2>4, <2>8, <2>9, <3>0, <3>7, <4>1
      <4>3. s[B[i]] # s[B[i] + 1]
        BY <2>12, <4>1 DEF Cuts
      <4>4. s[ends[i]] = s[starts[i] + 1]
        BY <3>1, <3>2, <3>3, <3>6
      <4> QED  BY <4>2, <4>3, <4>4
    <3>8. i = m + 1 => ends[i] = n
      BY <2>9
    <3> QED  BY <1>1, <3>1, <3>2, <3>3, <3>6, <3>7, <3>8
  <2>14. Sliced(s, c)
    <3>1. 1 \in 1 .. m + 1 /\ m + 1 \in Nat \ {0}
      BY <2>4
    <3>2. c[1] = [from |-> starts[1], to |-> ends[1]] /\ starts[1] = 0
      BY <2>8, <2>11, <3>1
    <3>3. ASSUME NEW i \in 1 .. Len(c)
          PROVE  /\ c[i] \in [from : 0 .. Len(s), to : 0 .. Len(s)]
                 /\ c[i].from < c[i].to
                 /\ \A k \in c[i].from + 1 .. c[i].to : s[k] = s[c[i].from + 1]
                 /\ i < Len(c) => /\ c[i + 1].from = c[i].to
                                  /\ s[c[i].to + 1] # s[c[i].from + 1]
                 /\ i = Len(c) => c[i].to = Len(s)
      <4>1. i \in 1 .. m + 1 /\ n = Len(s)
        BY <2>10 DEF n
      <4>2. c[i] = [from |-> starts[i], to |-> ends[i]]
        BY <2>11, <4>1
      <4>3. i < m + 1 => c[i + 1].from = starts[i + 1]
        <5> SUFFICES ASSUME i < m + 1 PROVE c[i + 1].from = starts[i + 1]
          OBVIOUS
        <5>1. i + 1 \in 1 .. m + 1
          BY <2>4, <4>1
        <5>2. c[i + 1] = [from |-> starts[i + 1], to |-> ends[i + 1]]
          BY <2>11, <5>1
        <5> QED  BY <5>2
      <4>4. c[i].from = starts[i] /\ c[i].to = ends[i]
        BY <4>2
      <4>5. /\ starts[i] \in 0 .. n /\ ends[i] \in 0 .. n /\ starts[i] < ends[i]
            /\ \A k \in starts[i] + 1 .. ends[i] : s[k] = s[starts[i] + 1]
            /\ i < m + 1 => /\ starts[i + 1] = ends[i]
                            /\ s[ends[i] + 1] # s[starts[i] + 1]
            /\ i = m + 1 => ends[i] = n
        BY <2>13, <4>1
      <4>6. c[i] \in [from : 0 .. Len(s), to : 0 .. Len(s)]
        BY <4>1, <4>2, <4>5
      <4> QED  BY <2>10, <4>1, <4>3, <4>4, <4>5, <4>6
    <3>4. c[1].from = 0
      BY <3>2
    <3>5. DOMAIN c = 1 .. Len(c) /\ Len(c) \in Nat \ {0}
      BY <2>10, <3>1
    <3> QED  BY <3>3, <3>4, <3>5 DEF Sliced
  <2> QED  BY <2>1, <2>14
<1> QED  BY <1>2, <1>3

-----------------------------------------------------------------------------
(* A frame is sent: what remains as it was, and what the frame must be.    *)

\* A step of r changes nothing of q.
Untouched(q) ==
  /\ kind'[q] = kind[q] /\ rows'[q] = rows[q] /\ read'[q] = read[q]
  /\ buffer'[q] = buffer[q] /\ count'[q] = count[q] /\ last'[q] = last[q]
  /\ slices'[q] = slices[q] /\ sent'[q] = sent[q] /\ frames'[q] = frames[q]
  /\ state'[q] = state[q]

LEMMA Elsewhere ==
  ASSUME NEW q \in Requests, LocalInv(q), Untouched(q)
  PROVE  LocalInv(q)'
<1>1. SentInv(q)'
  BY DEF LocalInv, Untouched, SentInv
<1>2. \A k \in 1 .. Len(frames[q]) : From(q, k)' = From(q, k) /\ CutInv(q, k)' = CutInv(q, k)
  BY DEF Untouched, From, CutInv, NextRow
<1>3. FrameInv(q)'
  BY <1>2 DEF LocalInv, Untouched, FrameInv
<1>4. BufferInv(q)'
  BY DEF LocalInv, Untouched, BufferInv, SidOf, GroupBySid, MoreRows
<1>5. \A i \in 1 .. Len(slices[q]) : SliceInv(q, i)' = SliceInv(q, i)
  BY DEF Untouched, SliceInv
<1>6. BatchInv(q)'
  BY <1>5 DEF LocalInv, Untouched, BatchInv
<1> QED  BY <1>1, <1>3, <1>4, <1>6 DEF LocalInv

\* n rows go out in a frame with this label, cut for this reason.
Frameable(r, label, n, cut) ==
  /\ n \in Nat \ {0} /\ Len(sent[r]) + n <= Len(rows[r])
  /\ label \in Sids \cup {0} /\ cut \in {"size", "sid", "end"}
  /\ kind[r] # "plain" =>
       \A i \in Len(sent[r]) + 1 .. Len(sent[r]) + n : rows[r][i] = label
  /\ kind[r] = "plain" => label = 0 /\ cut # "sid"
  /\ kind[r] # "batch" /\ cut = "size" => n = Chunk
  /\ state'[r] \in Running => cut # "end"
  /\ state'[r] \in Running /\ cut = "sid" =>
       /\ Len(sent[r]) + n + 1 <= Len(rows[r])
       /\ rows[r][Len(sent[r]) + n + 1] # label

LEMMA YieldKeeps ==
  ASSUME TypeOK, NEW r \in Requests, SentInv(r), FrameInv(r),
         state[r] \in Running, UNCHANGED input,
         NEW label, NEW s \in Seq(Rows), NEW cut, Yield(r, label, s, cut),
         Frameable(r, label, Len(s), cut),
         \A i \in 1 .. Len(s) : s[i] = <<r, Len(sent[r]) + i>>
  PROVE  /\ sent' \in [Requests -> Seq(Rows)]
         /\ frames' \in [Requests -> Seq(Frame)]
         /\ SentInv(r)' /\ FrameInv(r)'
         /\ Len(sent'[r]) = Len(sent[r]) + Len(s)
         /\ \A q \in Requests \ {r} : sent'[q] = sent[q] /\ frames'[q] = frames[q]
<1> DEFINE a == Len(sent[r])
           n == Len(s)
           f == [label |-> label, upto |-> Len(sent[r] \o s), cut |-> cut]
<1>1. /\ sent[r] \in Seq(Rows) /\ frames[r] \in Seq(Frame)
      /\ rows[r] \in Seq(Sids) /\ rows' = rows /\ kind' = kind
      /\ Len(rows[r]) \in 0 .. MaxRows /\ MaxRows \in Nat
  <2>1. rows[r] \in Results(kind[r]) /\ rows[r] \in Seq(Sids)
    BY DEF TypeOK
  <2>2. \E m \in 0 .. MaxRows : rows[r] \in [1 .. m -> Sids]
    BY <2>1 DEF Results, SeqOf
  <2>3. Len(rows[r]) \in 0 .. MaxRows
    BY <2>1, <2>2, BoundsAssumption
  <2> QED  BY <2>1, <2>3, BoundsAssumption DEF TypeOK, input
<1> PICK K \in Nat : K = Len(frames[r])
  BY <1>1
<1>2. a \in Nat /\ n \in Nat \ {0} /\ K \in Nat /\ a + n <= Len(rows[r])
  BY <1>1 DEF Frameable
<1>14. \A k \in 1 .. K :
         frames[r][k].upto \in Nat /\ frames[r][k].cut \in {"size", "sid", "end"}
  <2> SUFFICES ASSUME NEW k \in 1 .. K
               PROVE  /\ frames[r][k].upto \in Nat
                      /\ frames[r][k].cut \in {"size", "sid", "end"}
    OBVIOUS
  <2>1. frames[r][k] \in Frame
    BY <1>1, ElementOfSeq
  <2> QED  BY <1>1, <2>1 DEF Frame
<1>3. /\ sent'[r] = sent[r] \o s /\ sent'[r] \in Seq(Rows)
      /\ Len(sent'[r]) = a + n
      /\ \A i \in 1 .. a : sent'[r][i] = sent[r][i]
      /\ \A i \in a + 1 .. a + n : sent'[r][i] = s[i - a]
  BY <1>1 DEF Yield, TypeOK
<1>4. f \in Frame /\ f.upto = a + n
  BY <1>1, <1>2, <1>3 DEF Frame, Frameable
<1> HIDE DEF f
<1>5. /\ frames'[r] = Append(frames[r], f) /\ frames'[r] \in Seq(Frame)
      /\ Len(frames'[r]) = K + 1
      /\ \A k \in 1 .. K : frames'[r][k] = frames[r][k]
      /\ frames'[r][K + 1] = f
  BY <1>1, <1>4 DEF Yield, TypeOK, f
<1>6. \A q \in Requests \ {r} : sent'[q] = sent[q] /\ frames'[q] = frames[q]
  BY DEF Yield, TypeOK
<1>7. sent' \in [Requests -> Seq(Rows)] /\ frames' \in [Requests -> Seq(Frame)]
  BY <1>3, <1>4 DEF Yield, TypeOK, f
<1>8. SentInv(r)'
  <2>1. ASSUME NEW k \in 1 .. a + n PROVE sent'[r][k] = <<r, k>>
    <3>1. CASE k <= a
      BY <1>2, <1>3, <3>1 DEF SentInv
    <3>2. CASE k > a
      <4>1. k - a \in 1 .. n /\ a + (k - a) = k /\ k \in a + 1 .. a + n
        BY <1>2, <3>2
      <4> QED  BY <1>3, <4>1
    <3> QED  BY <1>2, <3>1, <3>2
  <2> QED  BY <1>1, <1>2, <1>3, <2>1 DEF SentInv
<1>9. \A k \in 1 .. K : From(r, k)' = From(r, k)
  BY <1>2, <1>5 DEF From
<1>10. From(r, K + 1)' = a
  <2>1. CASE K = 0
    <3>1. frames[r] = <<>>
      BY <1>1, <2>1, EmptySeq
    <3>2. a = 0
      BY <3>1 DEF FrameInv
    <3> QED  BY <2>1, <3>2 DEF From
  <2>2. CASE K # 0
    <3>1. K \in 1 .. K /\ K + 1 # 1 /\ (K + 1) - 1 = K
      BY <1>2, <2>2
    <3>2. frames[r][K].upto = a
      BY <3>1 DEF FrameInv, CutInv
    <3> QED  BY <1>5, <3>1, <3>2 DEF From
  <2> QED  BY <2>1, <2>2
<1>11. CutInv(r, K + 1)'
  BY <1>1, <1>2, <1>3, <1>4, <1>5 DEF CutInv, Frameable, NextRow, f
<1>12. ASSUME NEW k \in 1 .. K PROVE CutInv(r, k)'
  <2>1. CASE k < K
    <3>1. k + 1 \in 1 .. K /\ k # K + 1
      BY <1>2, <2>1
    <3>2. \/ frames[r][k].cut = "size"
          \/ /\ frames[r][k].cut = "sid"
             /\ frames[r][k].label # frames[r][k + 1].label
      BY <2>1 DEF FrameInv, CutInv
    <3>3. frames'[r][k] = frames[r][k] /\ frames'[r][k + 1] = frames[r][k + 1]
      BY <1>5, <3>1
    <3> QED  BY <1>5, <3>1, <3>2, <3>3 DEF CutInv
  <2>2. CASE k = K
    <3>1. /\ frames[r][K].cut # "end"
          /\ frames[r][K].cut = "sid" => rows[r][a + 1] # frames[r][K].label
          /\ kind[r] = "plain" => frames[r][K].cut # "sid"
      BY <2>2 DEF FrameInv, CutInv, NextRow
    <3>2. frames[r][K].cut \in {"size", "sid", "end"}
      BY <1>2, <1>14, <2>2
    <3>3. frames[r][K].cut = "sid" => f.label # frames[r][K].label
      <4>1. f.label = label /\ a + 1 \in a + 1 .. a + n
        BY <1>2 DEF f
      <4>2. kind[r] # "plain" => rows[r][a + 1] = label
        BY <4>1 DEF Frameable
      <4> QED  BY <3>1, <4>1, <4>2
    <3> QED  BY <1>2, <1>5, <2>2, <3>1, <3>2, <3>3 DEF CutInv
  <2> QED  BY <1>2, <2>1, <2>2
<1>13. FrameInv(r)'
  <2>1. frames'[r] # <<>>
    <3>1. Append(frames[r], f) # <<>>
      BY <1>1, <1>4, AppendProperties
    <3> QED  BY <1>5, <3>1
  <2>2. ASSUME NEW k \in 1 .. K + 1
        PROVE  LET g == frames'[r][k] IN
               /\ From(r, k)' < g.upto /\ g.upto <= a + n
               /\ kind[r] # "plain" =>
                    \A i \in From(r, k)' + 1 .. g.upto : rows[r][i] = g.label
               /\ kind[r] = "plain" => g.label = 0 /\ g.cut # "sid"
               /\ kind[r] # "batch" /\ g.cut = "size" => g.upto - From(r, k)' = Chunk
               /\ CutInv(r, k)'
    <3>1. CASE k = K + 1
      <4>1. frames'[r][k] = f /\ From(r, k)' = a /\ CutInv(r, k)'
        BY <1>5, <1>10, <1>11, <3>1
      <4>2. f.label = label /\ f.cut = cut /\ f.upto = a + n
        BY <1>4 DEF f
      <4> QED  BY <1>2, <4>1, <4>2 DEF Frameable
    <3>2. CASE k \in 1 .. K
      <4>1. frames'[r][k] = frames[r][k] /\ From(r, k)' = From(r, k) /\ CutInv(r, k)'
        BY <1>5, <1>9, <1>12, <3>2
      <4>2. frames[r][k].upto \in Nat
        BY <1>14, <3>2
      <4>3. LET g == frames[r][k] IN
            /\ From(r, k) < g.upto /\ g.upto <= a
            /\ kind[r] # "plain" =>
                 \A i \in From(r, k) + 1 .. g.upto : rows[r][i] = g.label
            /\ kind[r] = "plain" => g.label = 0 /\ g.cut # "sid"
            /\ kind[r] # "batch" /\ g.cut = "size" => g.upto - From(r, k) = Chunk
        BY <3>2 DEF FrameInv
      <4>4. frames[r][k].upto <= a + n
        BY <1>2, <4>2, <4>3
      <4> QED  BY ONLY <4>1, <4>3, <4>4
    <3>3. k = K + 1 \/ k \in 1 .. K
      BY <1>2
    <3> QED  BY ONLY <3>1, <3>2, <3>3, Zenon
  <2> QED  BY <1>1, <1>3, <1>5, <2>1, <2>2 DEF FrameInv
<1> QED  BY <1>3, <1>6, <1>7, <1>8, <1>13

-----------------------------------------------------------------------------
(* The steps.                                                              *)

LEMMA RowsType ==
  ASSUME TypeOK, NEW r \in Requests
  PROVE  /\ rows[r] \in Seq(Sids) /\ Len(rows[r]) \in 0 .. MaxRows
         /\ MaxRows \in Nat /\ Len(rows[r]) \in Nat
         /\ \A k \in 1 .. Len(rows[r]) : rows[r][k] \in Sids /\ rows[r][k] # 0
         /\ sent[r] \in Seq(Rows) /\ Len(sent[r]) \in Nat
         /\ read[r] \in Nat /\ count[r] \in Nat /\ read[r] <= Len(rows[r])
         /\ Chunk \in Nat \ {0} /\ count[r] <= Chunk
<1>1. rows[r] \in Results(kind[r]) /\ rows[r] \in Seq(Sids)
  BY DEF TypeOK
<1>2. \E m \in 0 .. MaxRows : rows[r] \in [1 .. m -> Sids]
  BY <1>1 DEF Results, SeqOf
<1>3. Len(rows[r]) \in 0 .. MaxRows /\ MaxRows \in Nat
  BY <1>1, <1>2, BoundsAssumption
<1>4. \A k \in 1 .. Len(rows[r]) : rows[r][k] \in Sids /\ rows[r][k] # 0
  BY <1>1, SidsAssumption
<1>5. sent[r] \in Seq(Rows) /\ Len(sent[r]) \in Nat
  BY DEF TypeOK
<1>6. /\ read[r] \in Nat /\ count[r] \in Nat /\ read[r] <= Len(rows[r])
      /\ Chunk \in Nat \ {0} /\ count[r] <= Chunk
  BY <1>3, ChunkAssumption DEF TypeOK
<1> QED  BY <1>1, <1>3, <1>4, <1>5, <1>6

LEMMA Between ==
  ASSUME NEW a \in Nat, NEW f \in Nat, NEW t \in Nat, NEW k \in a + f + 1 .. a + t
  PROVE  k - a \in f + 1 .. t /\ a + (k - a) = k
  OBVIOUS

LEMMA Within ==
  ASSUME NEW f \in Nat, NEW t \in Nat, NEW n \in Nat, t <= n, NEW x \in f + 1 .. t
  PROVE  x \in 1 .. n /\ f + 1 \in 1 .. n
  OBVIOUS

LEMMA Further ==
  ASSUME NEW a \in Nat, NEW c \in Nat, NEW n \in Nat, a + c <= n, NEW i \in 1 .. c
  PROVE  a + i \in 1 .. n /\ a + i \in a + 1 .. a + c
  OBVIOUS

LEMMA Later ==
  ASSUME NEW a \in Nat, NEW c \in Nat, NEW k \in 1 .. a + c, ~ (k <= a)
  PROVE  k - a \in 1 .. c /\ a + (k - a) = k
  OBVIOUS

\* A step that sends nothing and leaves the request running, or ends it.
LEMMA NothingSent ==
  ASSUME NEW r \in Requests, SentInv(r), FrameInv(r), UNCHANGED input,
         UNCHANGED <<sent, frames>>,
         state'[r] \in Running => state[r] \in Running
  PROVE  SentInv(r)' /\ FrameInv(r)'
<1>1. \A k \in 1 .. Len(frames[r]) : From(r, k)' = From(r, k)
  BY DEF From
<1>2. \A k \in 1 .. Len(frames[r]) : CutInv(r, k) => CutInv(r, k)'
  BY DEF CutInv, NextRow, input
<1> QED  BY <1>1, <1>2 DEF SentInv, FrameInv, input

\* The row at hand goes behind the n rows of a buffer b.
LEMMA StoreKeeps ==
  ASSUME TypeOK, NEW r \in Requests, kind[r] # "batch", SentInv(r),
         NEW n \in 0 .. Chunk - 1, NEW b \in [1 .. Chunk -> Rows \cup {Blank}],
         Store(r, b, n), UNCHANGED input, UNCHANGED <<sent, frames>>,
         state'[r] = "reading", MoreRows(r), read[r] = Len(sent[r]) + n,
         \A i \in 1 .. n : b[i] = <<r, Len(sent[r]) + i>>,
         \A i \in 1 .. n : SidOf(r, Len(sent[r]) + i) = SidOf(r, read[r] + 1)
  PROVE  /\ read' \in [Requests -> 0 .. MaxRows]
         /\ \A q \in Requests : read'[q] <= Len(rows[q])
         /\ buffer' \in [Requests -> [1 .. Chunk -> Rows \cup {Blank}]]
         /\ count' \in [Requests -> 0 .. Chunk]
         /\ last' \in [Requests -> Sids \cup {0}]
         /\ BufferInv(r)'
         /\ \A q \in Requests \ {r} : /\ read'[q] = read[q] /\ count'[q] = count[q]
                                      /\ last'[q] = last[q] /\ buffer'[q] = buffer[q]
<1>1. /\ n \in Nat /\ n + 1 \in 1 .. Chunk /\ read[r] + 1 \in 1 .. Len(rows[r])
      /\ read[r] + 1 \in 1 .. MaxRows /\ Len(sent[r]) \in Nat
  BY RowsType, SMTT(20) DEF MoreRows
<1> DEFINE B == [b EXCEPT ![n + 1] = <<r, read[r] + 1>>]
<1>2. B \in [1 .. Chunk -> Rows \cup {Blank}]
  BY <1>1 DEF Rows
<1>3. buffer' = [buffer EXCEPT ![r] = B] /\ buffer'[r] = B
  BY DEF Store, BufferOf, TypeOK
<1>4. /\ count' = [count EXCEPT ![r] = n + 1] /\ count'[r] = n + 1
      /\ read' = [read EXCEPT ![r] = @ + 1] /\ read'[r] = read[r] + 1
      /\ last' = [last EXCEPT ![r] = SidOf(r, read[r] + 1)]
      /\ last'[r] = SidOf(r, read[r] + 1)
  BY DEF Store, TypeOK
<1>5. SidOf(r, read[r] + 1) \in Sids \cup {0}
  BY <1>1, RowsType DEF SidOf
<1>6. read' \in [Requests -> 0 .. MaxRows] /\ \A q \in Requests : read'[q] <= Len(rows[q])
  <2>1. read[r] + 1 \in 0 .. MaxRows /\ read[r] + 1 <= Len(rows[r])
    BY <1>1
  <2>2. read \in [Requests -> 0 .. MaxRows] /\ \A q \in Requests : read[q] <= Len(rows[q])
    BY DEF TypeOK
  <2> QED  BY <1>4, <2>1, <2>2
<1>7. buffer' \in [Requests -> [1 .. Chunk -> Rows \cup {Blank}]]
  BY <1>2, <1>3 DEF TypeOK
<1>8. count' \in [Requests -> 0 .. Chunk] /\ last' \in [Requests -> Sids \cup {0}]
  BY <1>1, <1>4, <1>5, ChunkAssumption DEF TypeOK
<1>9. \A k : SidOf(r, k)' = SidOf(r, k)
  BY DEF SidOf, GroupBySid, input
<1>10. ASSUME NEW i \in 1 .. n + 1
       PROVE  /\ B[i] = <<r, Len(sent[r]) + i>>
              /\ SidOf(r, Len(sent[r]) + i) = SidOf(r, read[r] + 1)
  <2>1. CASE i = n + 1
    <3>1. Len(sent[r]) + i = read[r] + 1
      <4>1. \A L, m \in Nat : L + (m + 1) = (L + m) + 1
        OBVIOUS
      <4> QED  BY <1>1, <2>1, <4>1
    <3> QED  BY <1>1, <2>1, <3>1
  <2>2. CASE i # n + 1
    <3>1. i \in 1 .. n /\ i \in 1 .. Chunk
      BY <1>1, <2>2, ChunkAssumption
    <3> QED  BY <1>1, <2>2, <3>1
  <2> QED  BY <2>1, <2>2
<1> HIDE DEF B
<1>11. BufferInv(r)'
  <2>1. read'[r] = Len(sent'[r]) + count'[r] /\ count'[r] # 0
    <3>1. n + 1 \in 1 .. n + 1 /\ n + 1 # 0
      BY <1>1
    <3>2. \A L, m \in Nat : (L + m) + 1 = L + (m + 1)
      OBVIOUS
    <3> QED  BY <1>1, <1>4, <3>1, <3>2
  <2>2. \A i \in 1 .. count'[r] : buffer'[r][i] = <<r, Len(sent'[r]) + i>>
    BY <1>3, <1>4, <1>10
  <2>3. \A i \in 1 .. count'[r] : SidOf(r, Len(sent[r]) + i)' = last'[r]
    BY <1>4, <1>9, <1>10
  <2> QED  BY <2>1, <2>2, <2>3 DEF BufferInv
<1>12. \A q \in Requests \ {r} : /\ read'[q] = read[q] /\ count'[q] = count[q]
                                 /\ last'[q] = last[q] /\ buffer'[q] = buffer[q]
  BY <1>3, <1>4 DEF TypeOK
<1> QED  BY <1>6, <1>7, <1>8, <1>11, <1>12

\* What a step of r has to keep.
Kept(r) == TypeOK' /\ LocalInv(r)' /\ \A q \in Requests \ {r} : Untouched(q)

LEMMA KeepRowStep ==
  ASSUME TypeOK, NEW r \in Requests, LocalInv(r), KeepRow(r)
  PROVE  Kept(r)
<1>1. /\ kind[r] # "batch" /\ state[r] = "reading" /\ MoreRows(r) /\ ~ FlushDue(r)
      /\ Store(r, buffer[r], count[r]) /\ UNCHANGED <<slices, sent, frames, state>>
      /\ UNCHANGED input
  BY DEF KeepRow, BufferOf
<1>2. count[r] \in 0 .. Chunk - 1 /\ ~ SidChanges(r)
  BY <1>1, RowsType DEF FlushDue
<1>3. buffer[r] \in [1 .. Chunk -> Rows \cup {Blank}]
  BY DEF TypeOK
<1>4. /\ read[r] = Len(sent[r]) + count[r]
      /\ \A i \in 1 .. count[r] : buffer[r][i] = <<r, Len(sent[r]) + i>>
      /\ \A i \in 1 .. count[r] : SidOf(r, Len(sent[r]) + i) = last[r]
  BY <1>1 DEF LocalInv, BufferInv
<1>5. ASSUME NEW i \in 1 .. count[r]
      PROVE  SidOf(r, Len(sent[r]) + i) = SidOf(r, read[r] + 1)
  <2>1. SidOf(r, Len(sent[r]) + i) = last[r]
    BY <1>4
  <2>2. CASE GroupBySid(r)
    <3>1. Len(sent[r]) + i \in 1 .. Len(rows[r])
      <4>1. /\ Len(sent[r]) \in Nat /\ count[r] \in Nat /\ Len(rows[r]) \in Nat
            /\ Len(sent[r]) + count[r] <= Len(rows[r])
        BY <1>4, RowsType
      <4> QED  BY ONLY <4>1, i \in 1 .. count[r], Further
    <3>2. last[r] # 0
      BY <2>1, <2>2, <3>1, RowsType DEF SidOf
    <3> QED  BY <1>2, <2>1, <2>2, <3>2 DEF SidChanges
  <2>3. CASE ~ GroupBySid(r)
    BY <2>3 DEF SidOf
  <2> QED  BY <2>2, <2>3
<1>6. /\ read' \in [Requests -> 0 .. MaxRows]
      /\ \A q \in Requests : read'[q] <= Len(rows[q])
      /\ buffer' \in [Requests -> [1 .. Chunk -> Rows \cup {Blank}]]
      /\ count' \in [Requests -> 0 .. Chunk]
      /\ last' \in [Requests -> Sids \cup {0}]
      /\ BufferInv(r)'
      /\ \A q \in Requests \ {r} : /\ read'[q] = read[q] /\ count'[q] = count[q]
                                   /\ last'[q] = last[q] /\ buffer'[q] = buffer[q]
  BY <1>1, <1>2, <1>3, <1>4, <1>5, StoreKeeps DEF LocalInv
<1>7. SentInv(r)' /\ FrameInv(r)'
  BY <1>1, NothingSent DEF LocalInv
<1>8. TypeOK'
  BY <1>1, <1>6 DEF TypeOK, input
<1> QED  BY <1>1, <1>6, <1>7, <1>8 DEF Kept, LocalInv, BatchInv, Untouched, input

LEMMA ResumeRowStep ==
  ASSUME TypeOK, NEW r \in Requests, LocalInv(r), ResumeRow(r)
  PROVE  Kept(r)
<1>1. /\ state[r] = "yielded" /\ Store(r, NewBuffer, 0)
      /\ state' = [state EXCEPT ![r] = "reading"]
      /\ UNCHANGED <<slices, sent, frames>> /\ UNCHANGED input
  BY DEF ResumeRow, Goto
<1>2. kind[r] # "batch"
  BY <1>1 DEF LocalInv, BatchInv
<1>3. read[r] = Len(sent[r]) + 0 /\ MoreRows(r)
  BY <1>1, <1>2, RowsType DEF LocalInv, BufferInv
<1>4. NewBuffer \in [1 .. Chunk -> Rows \cup {Blank}] /\ 0 \in 0 .. Chunk - 1
  BY ChunkAssumption DEF NewBuffer
<1>5. state'[r] = "reading" /\ \A q \in Requests \ {r} : state'[q] = state[q]
  BY <1>1 DEF TypeOK
<1>6. /\ read' \in [Requests -> 0 .. MaxRows]
      /\ \A q \in Requests : read'[q] <= Len(rows[q])
      /\ buffer' \in [Requests -> [1 .. Chunk -> Rows \cup {Blank}]]
      /\ count' \in [Requests -> 0 .. Chunk]
      /\ last' \in [Requests -> Sids \cup {0}]
      /\ BufferInv(r)'
      /\ \A q \in Requests \ {r} : /\ read'[q] = read[q] /\ count'[q] = count[q]
                                   /\ last'[q] = last[q] /\ buffer'[q] = buffer[q]
  <2>1. \A i \in 1 .. 0 : FALSE
    OBVIOUS
  <2>2. SentInv(r)
    BY DEF LocalInv
  <2> QED  BY <1>1, <1>2, <1>3, <1>4, <1>5, <2>1, <2>2, StoreKeeps
<1>7. SentInv(r)' /\ FrameInv(r)'
  BY <1>1, NothingSent DEF LocalInv, Running
<1>8. TypeOK'
  BY <1>1, <1>6 DEF TypeOK, input, Running
<1> QED  BY <1>1, <1>2, <1>5, <1>6, <1>7, <1>8 DEF Kept, LocalInv, BatchInv, Untouched, input

\* What the buffer holds makes a frame.
LEMMA BufferedFacts ==
  ASSUME TypeOK, NEW r \in Requests, LocalInv(r), kind[r] # "batch",
         state[r] = "reading", count[r] > 0
  PROVE  /\ Buffered(r) \in Seq(Rows) /\ Len(Buffered(r)) = count[r]
         /\ \A i \in 1 .. count[r] : Buffered(r)[i] = <<r, Len(sent[r]) + i>>
         /\ Len(sent[r]) + count[r] = read[r]
         /\ last[r] \in Sids \cup {0}
         /\ kind[r] # "plain" =>
              \A i \in Len(sent[r]) + 1 .. Len(sent[r]) + count[r] : rows[r][i] = last[r]
         /\ kind[r] = "plain" => last[r] = 0
<1>1. /\ read[r] = Len(sent[r]) + count[r]
      /\ \A i \in 1 .. count[r] : buffer[r][i] = <<r, Len(sent[r]) + i>>
      /\ \A i \in 1 .. count[r] : SidOf(r, Len(sent[r]) + i) = last[r]
  BY DEF LocalInv, BufferInv
<1>2. buffer[r] \in [1 .. Chunk -> Rows \cup {Blank}] /\ last[r] \in Sids \cup {0}
  BY DEF TypeOK
<1>3. \A i \in 1 .. count[r] : buffer[r][i] \in Rows
  <2> SUFFICES ASSUME NEW i \in 1 .. count[r] PROVE <<r, Len(sent[r]) + i>> \in Rows
    BY <1>1
  <2>1. Len(sent[r]) + i \in 1 .. MaxRows
    <3>1. /\ Len(sent[r]) \in Nat /\ count[r] \in Nat /\ Len(rows[r]) \in 0 .. MaxRows
          /\ Len(sent[r]) + count[r] <= Len(rows[r]) /\ MaxRows \in Nat
      BY <1>1, RowsType
    <3>2. Len(sent[r]) + count[r] <= MaxRows
      BY ONLY <3>1
    <3> QED  BY ONLY <3>1, <3>2, i \in 1 .. count[r], Further
  <2> QED  BY <2>1 DEF Rows
<1>4. /\ Buffered(r) \in Seq(Rows) /\ Len(Buffered(r)) = count[r]
      /\ \A i \in 1 .. count[r] : Buffered(r)[i] = buffer[r][i]
  <2>1. Buffered(r) = SubSeq(buffer[r], 1, count[r]) /\ count[r] \in Nat
    BY RowsType DEF Buffered, BufferOf
  <2>2. /\ SubSeq(buffer[r], 1, count[r]) \in Seq(Rows)
        /\ Len(SubSeq(buffer[r], 1, count[r])) = count[r]
        /\ \A i \in 1 .. count[r] : SubSeq(buffer[r], 1, count[r])[i] = buffer[r][i]
    BY <1>3, <2>1
  <2> QED  BY <2>1, <2>2
<1>5. kind[r] = "plain" \/ kind[r] = "grouped"
  BY DEF TypeOK, Kinds
<1>6. ASSUME kind[r] # "plain", NEW i \in Len(sent[r]) + 1 .. Len(sent[r]) + count[r]
      PROVE  rows[r][i] = last[r]
  <2>1. i - Len(sent[r]) \in 1 .. count[r] /\ Len(sent[r]) + (i - Len(sent[r])) = i
    BY RowsType
  <2>2. SidOf(r, i) = last[r]
    BY <1>1, <2>1
  <2> QED  BY <1>5, <1>6, <2>2 DEF SidOf, GroupBySid
<1>7. kind[r] = "plain" => last[r] = 0
  <2>1. 1 \in 1 .. count[r]
    BY RowsType
  <2> QED  BY <1>1, <2>1 DEF SidOf, GroupBySid
<1> QED  BY <1>1, <1>2, <1>4, <1>6, <1>7

LEMMA FlushBufferStep ==
  ASSUME TypeOK, NEW r \in Requests, LocalInv(r), FlushBuffer(r)
  PROVE  Kept(r)
<1> DEFINE cut == IF count[r] >= Chunk THEN "size" ELSE "sid"
<1>1. /\ kind[r] # "batch" /\ state[r] = "reading" /\ MoreRows(r) /\ FlushDue(r)
      /\ Yield(r, last[r], Buffered(r), cut)
      /\ state' = [state EXCEPT ![r] = "yielded"]
      /\ UNCHANGED <<read, buffer, count, last, slices>> /\ UNCHANGED input
  BY DEF FlushBuffer, Goto
<1>2. count[r] > 0
  <2>1. CASE count[r] >= Chunk
    BY <2>1, RowsType
  <2>2. CASE SidChanges(r)
    BY <1>1, <2>2, RowsType DEF SidChanges, LocalInv, BufferInv
  <2> QED  BY <1>1, <2>1, <2>2 DEF FlushDue
<1>3. state'[r] = "yielded" /\ \A q \in Requests \ {r} : state'[q] = state[q]
  BY <1>1 DEF TypeOK
<1>4. /\ Buffered(r) \in Seq(Rows) /\ Len(Buffered(r)) = count[r]
      /\ \A i \in 1 .. count[r] : Buffered(r)[i] = <<r, Len(sent[r]) + i>>
      /\ Len(sent[r]) + count[r] = read[r] /\ last[r] \in Sids \cup {0}
      /\ kind[r] # "plain" =>
           \A i \in Len(sent[r]) + 1 .. Len(sent[r]) + count[r] : rows[r][i] = last[r]
      /\ kind[r] = "plain" => last[r] = 0
  BY <1>1, <1>2, BufferedFacts
<1>5. cut = "sid" => /\ GroupBySid(r) /\ rows[r][read[r] + 1] # last[r]
  BY <1>1 DEF FlushDue, SidChanges, SidOf
<1>6. Frameable(r, last[r], count[r], cut)
  <2>1. cut = "size" => count[r] = Chunk
    BY RowsType
  <2>2. count[r] \in Nat \ {0} /\ read[r] + 1 <= Len(rows[r]) /\ read[r] \in Nat
    BY <1>1, <1>2, RowsType DEF MoreRows
  <2>3. cut \in {"size", "sid"}
    OBVIOUS
  <2>4. kind[r] = "plain" => cut # "sid"
    BY <1>5 DEF GroupBySid
  <2>5. Len(sent[r]) + count[r] <= Len(rows[r])
    BY <1>4, <2>2, RowsType
  <2> HIDE DEF cut
  <2>6. cut = "sid" => /\ Len(sent[r]) + count[r] + 1 <= Len(rows[r])
                       /\ rows[r][Len(sent[r]) + count[r] + 1] # last[r]
    BY <1>4, <1>5, <2>2
  <2> QED  BY <1>4, <2>1, <2>2, <2>3, <2>4, <2>5, <2>6 DEF Frameable
<1> HIDE DEF cut
<1>7. /\ sent' \in [Requests -> Seq(Rows)]
      /\ frames' \in [Requests -> Seq(Frame)]
      /\ SentInv(r)' /\ FrameInv(r)'
      /\ Len(sent'[r]) = Len(sent[r]) + count[r]
      /\ \A q \in Requests \ {r} : sent'[q] = sent[q] /\ frames'[q] = frames[q]
  BY <1>1, <1>4, <1>6, YieldKeeps DEF LocalInv, Running
<1>8. TypeOK'
  BY <1>1, <1>7 DEF TypeOK, input, Running
<1>9. BufferInv(r)' /\ BatchInv(r)'
  BY <1>1, <1>3, <1>4, <1>7 DEF BufferInv, BatchInv, input, MoreRows
<1> QED  BY <1>1, <1>3, <1>7, <1>8, <1>9 DEF Kept, LocalInv, Untouched, input

LEMMA FlushRestStep ==
  ASSUME TypeOK, NEW r \in Requests, LocalInv(r), FlushRest(r)
  PROVE  Kept(r)
<1>1. /\ kind[r] # "batch" /\ state[r] = "reading" /\ ~ MoreRows(r)
      /\ state' = [state EXCEPT ![r] = "done"]
      /\ UNCHANGED <<read, buffer, count, last, slices>> /\ UNCHANGED input
  BY DEF FlushRest, Goto
<1>2. state'[r] = "done" /\ \A q \in Requests \ {r} : state'[q] = state[q]
  BY <1>1 DEF TypeOK
<1>3. read[r] = Len(rows[r]) /\ read[r] = Len(sent[r]) + count[r]
  BY <1>1, RowsType DEF MoreRows, LocalInv, BufferInv
<1>4. CASE count[r] > 0
  <2>1. Yield(r, last[r], Buffered(r), "end")
    BY <1>4 DEF FlushRest
  <2>2. /\ Buffered(r) \in Seq(Rows) /\ Len(Buffered(r)) = count[r]
        /\ \A i \in 1 .. count[r] : Buffered(r)[i] = <<r, Len(sent[r]) + i>>
        /\ last[r] \in Sids \cup {0}
        /\ kind[r] # "plain" =>
             \A i \in Len(sent[r]) + 1 .. Len(sent[r]) + count[r] : rows[r][i] = last[r]
        /\ kind[r] = "plain" => last[r] = 0
    BY <1>1, <1>4, BufferedFacts
  <2>3. count[r] \in Nat \ {0} /\ Len(sent[r]) + count[r] <= Len(rows[r])
    BY <1>3, <1>4, RowsType
  <2>4. Frameable(r, last[r], count[r], "end")
    BY <1>2, <2>2, <2>3 DEF Frameable, Running
  <2>5. /\ sent' \in [Requests -> Seq(Rows)]
        /\ frames' \in [Requests -> Seq(Frame)]
        /\ SentInv(r)' /\ FrameInv(r)'
        /\ Len(sent'[r]) = Len(sent[r]) + count[r]
        /\ \A q \in Requests \ {r} : sent'[q] = sent[q] /\ frames'[q] = frames[q]
    BY <1>1, <2>1, <2>2, <2>4, YieldKeeps DEF LocalInv, Running
  <2>6. TypeOK'
    BY <1>1, <2>5 DEF TypeOK, input
  <2>7. BufferInv(r)' /\ BatchInv(r)'
    BY <1>1, <1>2, <1>3, <2>5 DEF BufferInv, BatchInv, input
  <2> QED  BY <1>1, <1>2, <2>5, <2>6, <2>7 DEF Kept, LocalInv, Untouched, input
<1>5. CASE ~ (count[r] > 0)
  <2>1. UNCHANGED <<sent, frames>>
    BY <1>5 DEF FlushRest
  <2>2. Len(sent[r]) = Len(rows[r])
    BY <1>3, <1>5, RowsType
  <2>3. SentInv(r)' /\ FrameInv(r)'
    BY <1>1, <1>2, <2>1, NothingSent DEF LocalInv, Running
  <2>4. TypeOK'
    BY <1>1, <2>1 DEF TypeOK, input
  <2>5. BufferInv(r)' /\ BatchInv(r)'
    BY <1>1, <1>2, <2>1, <2>2 DEF BufferInv, BatchInv, input
  <2> QED  BY <1>1, <1>2, <2>1, <2>3, <2>4, <2>5 DEF Kept, LocalInv, Untouched, input
<1> QED  BY <1>4, <1>5

\* A request that ends without sending anything.
LEMMA EndStep ==
  ASSUME TypeOK, NEW r \in Requests, LocalInv(r), NoMoreBatches(r) \/ StopStream(r)
  PROVE  Kept(r)
<1>1. UNCHANGED <<read, buffer, count, last, slices, sent, frames>> /\ UNCHANGED input
  BY DEF NoMoreBatches, StopStream
<1>2. PICK s \in {"done", "stopped"} :
        /\ state' = [state EXCEPT ![r] = s]
        /\ s = "done" => kind[r] = "batch" /\ state[r] = "reading" /\ ~ MoreRows(r)
  BY DEF NoMoreBatches, StopStream, Goto
<1>3. state'[r] = s /\ \A q \in Requests \ {r} : state'[q] = state[q]
  BY <1>2 DEF TypeOK
<1>4. s = "done" => Len(sent[r]) = Len(rows[r])
  BY <1>2, RowsType DEF MoreRows, LocalInv, BatchInv
<1>5. SentInv(r)' /\ FrameInv(r)'
  BY <1>1, <1>3, NothingSent DEF LocalInv, Running
<1>6. TypeOK'
  BY <1>1, <1>2 DEF TypeOK, input
<1>7. BufferInv(r)' /\ BatchInv(r)'
  BY <1>1, <1>2, <1>3, <1>4 DEF BufferInv, BatchInv, input
<1> QED  BY <1>1, <1>3, <1>5, <1>6, <1>7 DEF Kept, LocalInv, Untouched, input

LEMMA SubSeqFacts ==
  ASSUME NEW S, NEW t \in Seq(S), NEW a \in Nat, NEW n \in Nat \ {0},
         a + n <= Len(t)
  PROVE  /\ SubSeq(t, a + 1, a + n) \in Seq(S) /\ Len(SubSeq(t, a + 1, a + n)) = n
         /\ \A k \in 1 .. n : SubSeq(t, a + 1, a + n)[k] = t[a + k]
<1>1. \A k \in a + 1 .. a + n : t[k] \in S
  OBVIOUS
<1> QED  BY <1>1

LEMMA TakeBatchStep ==
  ASSUME TypeOK, NEW r \in Requests, LocalInv(r), NEW n \in 1 .. MaxBatch,
         TakeBatch(r, n)
  PROVE  Kept(r)
<1> PICK a \in Nat : a = read[r]
  BY RowsType
<1> DEFINE s == SubSeq(rows[r], a + 1, a + n)
           cuts == SliceBySid(s)
           here == [i \in DOMAIN cuts |-> [from |-> a + cuts[i].from,
                                           to   |-> a + cuts[i].to]]
<1>1. /\ kind[r] = "batch" /\ state[r] = "reading" /\ a + n <= Len(rows[r])
      /\ slices' = [slices EXCEPT ![r] = here]
      /\ read' = [read EXCEPT ![r] = @ + n]
      /\ state' = [state EXCEPT ![r] = "slicing"]
      /\ UNCHANGED <<buffer, count, last, sent, frames>> /\ UNCHANGED input
  BY DEF TakeBatch, Goto
<1>2. /\ n \in Nat \ {0} /\ a + n \in 0 .. MaxRows /\ MaxRows \in Nat
      /\ rows[r] \in Seq(Sids) /\ Len(rows[r]) \in Nat /\ a \in Nat
  BY <1>1, RowsType, BoundsAssumption
<1>3. s \in Seq(Sids) /\ Len(s) = n /\ \A k \in 1 .. n : s[k] = rows[r][a + k]
  <2>1. a + n <= Len(rows[r]) /\ rows[r] \in Seq(Sids) /\ a \in Nat /\ n \in Nat \ {0}
    BY <1>1, <1>2
  <2> QED  BY ONLY <2>1, SubSeqFacts, ZenonT(30)
<1> HIDE DEF s
<1>4. Sliced(s, cuts)
  BY <1>2, <1>3, SlicesOfBatch
<1> HIDE DEF cuts
<1>5. PICK m \in Nat \ {0} : m = Len(cuts) /\ DOMAIN cuts = 1 .. m
  BY <1>4 DEF Sliced
<1>6. \A i \in 1 .. m :
        /\ cuts[i].from \in 0 .. n /\ cuts[i].to \in 0 .. n
        /\ here[i] = [from |-> a + cuts[i].from, to |-> a + cuts[i].to]
  <2> SUFFICES ASSUME NEW i \in 1 .. m
               PROVE  cuts[i].from \in 0 .. n /\ cuts[i].to \in 0 .. n
    BY <1>5
  <2>1. cuts[i] \in [from : 0 .. n, to : 0 .. n]
    BY <1>3, <1>4, <1>5 DEF Sliced
  <2> QED  BY <2>1
<1>7. here \in Seq([from : 0 .. MaxRows, to : 0 .. MaxRows]) /\ Len(here) = m
  <2>1. \A x \in 0 .. n : a + x \in 0 .. MaxRows
    BY <1>2
  <2>2. \A i \in 1 .. m : a + cuts[i].from \in 0 .. MaxRows /\ a + cuts[i].to \in 0 .. MaxRows
    BY <1>6, <2>1
  <2>3. here \in [1 .. m -> [from : 0 .. MaxRows, to : 0 .. MaxRows]]
    BY <1>5, <2>2
  <2> QED  BY <2>3
<1> HIDE DEF here
<1>8. /\ slices'[r] = here /\ read'[r] = a + n /\ state'[r] = "slicing"
      /\ \A q \in Requests \ {r} : /\ slices'[q] = slices[q] /\ read'[q] = read[q]
                                   /\ state'[q] = state[q]
  BY <1>1 DEF TypeOK
<1>9. TypeOK'
  <2>1. slices' \in [Requests -> Seq([from : 0 .. MaxRows, to : 0 .. MaxRows])]
    BY <1>1, <1>7 DEF TypeOK
  <2>2. read' \in [Requests -> 0 .. MaxRows] /\ \A q \in Requests : read'[q] <= Len(rows[q])
    BY <1>1, <1>2, <1>8 DEF TypeOK
  <2> QED  BY <1>1, <2>1, <2>2 DEF TypeOK, input, Running
<1>10. SentInv(r)' /\ FrameInv(r)'
  BY <1>1, <1>8, NothingSent DEF LocalInv, Running
<1>11. ASSUME NEW i \in 1 .. m PROVE SliceInv(r, i)'
  <2>1. /\ cuts[i].from < cuts[i].to
        /\ \A k \in cuts[i].from + 1 .. cuts[i].to : s[k] = s[cuts[i].from + 1]
        /\ i < m => /\ cuts[i + 1].from = cuts[i].to
                    /\ s[cuts[i].to + 1] # s[cuts[i].from + 1]
        /\ i = m => cuts[i].to = n
    BY <1>3, <1>4, <1>5 DEF Sliced
  <2>2. PICK f \in 0 .. n, t \in 0 .. n : f = cuts[i].from /\ t = cuts[i].to
    BY <1>6
  <2>3. slices'[r][i].from = a + f /\ slices'[r][i].to = a + t
    <3>1. here[i] = [from |-> a + f, to |-> a + t]
      BY <1>6, <2>2
    <3> QED  BY <1>8, <3>1
  <2>4. f \in Nat /\ t \in Nat /\ f < t /\ t <= n
    BY <1>2, <2>1, <2>2
  <2>5. ASSUME NEW k \in a + f + 1 .. a + t
        PROVE  rows[r][k] = rows[r][a + f + 1]
    <3>4. k - a \in f + 1 .. t /\ a + (k - a) = k
      <4>1. /\ a \in Nat /\ f \in Nat /\ t \in Nat /\ k \in a + f + 1 .. a + t
        BY <1>2, <2>4
      <4> QED  BY ONLY <4>1, Between
    <3>1. k - a \in 1 .. n /\ f + 1 \in 1 .. n
      <4>1. f \in Nat /\ t \in Nat /\ n \in Nat /\ t <= n
        BY <1>2, <2>4
      <4> QED  BY ONLY <3>4, <4>1, Within
    <3>2. s[k - a] = s[f + 1]
      BY <2>1, <2>2, <3>4
    <3>3. a + (k - a) = k /\ a + (f + 1) = a + f + 1
      <4>1. a \in Nat /\ f \in Nat
        BY <1>2, <2>4
      <4> QED  BY ONLY <3>4, <4>1
    <3> QED  BY <1>3, <3>1, <3>2, <3>3
  <2>6. ASSUME i < m
        PROVE  /\ slices'[r][i + 1].from = a + t
               /\ rows[r][a + t + 1] # rows[r][a + f + 1]
    <3>1. i + 1 \in 1 .. m
      BY <1>5, <2>6
    <3>2. cuts[i + 1].from = t /\ s[t + 1] # s[f + 1]
      BY <2>1, <2>2, <2>6
    <3>3. slices'[r][i + 1].from = a + t
      <4>1. here[i + 1] = [from |-> a + t, to |-> a + cuts[i + 1].to]
        BY <1>6, <3>1, <3>2
      <4> QED  BY <1>8, <4>1
    <3>4. cuts[i + 1].from < cuts[i + 1].to /\ cuts[i + 1].to \in 0 .. n
      BY <1>4, <1>5, <1>6, <3>1 DEF Sliced
    <3>5. t + 1 \in 1 .. n /\ f + 1 \in 1 .. n
      <4>1. PICK u \in 0 .. n : u = cuts[i + 1].to
        BY <3>4
      <4>2. t < u
        BY <3>2, <3>4, <4>1
      <4> QED  BY ONLY <2>4, <1>2, <4>1, <4>2
    <3>6. a + (t + 1) = a + t + 1 /\ a + (f + 1) = a + f + 1
      BY <1>2, <2>4
    <3> QED  BY <1>3, <3>2, <3>3, <3>5, <3>6
  <2>7. i = m => a + t = a + n
    BY <2>1, <2>2
  <2>8. a + f < a + t /\ a + t <= a + n
    BY <1>2, <2>4
  <2>9. Len(slices'[r]) = m /\ rows' = rows
    BY <1>1, <1>7, <1>8 DEF input
  <2> QED  BY <1>8, <2>3, <2>5, <2>6, <2>7, <2>8, <2>9 DEF SliceInv
<1>12. BatchInv(r)'
  <2>1. slices'[r][1].from = Len(sent[r])
    <3>1. 1 \in 1 .. m /\ cuts[1].from = 0
      BY <1>4, <1>5 DEF Sliced
    <3>2. here[1] = [from |-> a + 0, to |-> a + cuts[1].to]
      BY <1>6, <3>1
    <3>3. slices'[r][1].from = a
      BY <1>8, <3>2
    <3> QED  BY <1>1, <3>3 DEF LocalInv, BatchInv
  <2>2. Len(slices'[r]) = m /\ m > 0
    BY <1>7, <1>8
  <2> QED  BY <1>1, <1>8, <1>11, <2>1, <2>2 DEF BatchInv, input
<1>13. BufferInv(r)'
  BY <1>1 DEF BufferInv, input
<1> QED  BY <1>1, <1>8, <1>9, <1>10, <1>12, <1>13 DEF Kept, LocalInv, Untouched, input

LEMMA SendSliceStep ==
  ASSUME TypeOK, NEW r \in Requests, LocalInv(r), SendSlice(r)
  PROVE  Kept(r)
<1> DEFINE c == Head(slices[r])
           rest == Tail(slices[r])
           s == [k \in 1 .. c.to - c.from |-> <<r, c.from + k>>]
           cut == IF rest = <<>> THEN "size" ELSE "sid"
           next == IF rest = <<>> THEN "reading" ELSE "slicing"
           Slice == [from : 0 .. MaxRows, to : 0 .. MaxRows]
<1>1. /\ state[r] = "slicing"
      /\ Yield(r, rows[r][c.from + 1], s, cut)
      /\ slices' = [slices EXCEPT ![r] = rest]
      /\ state' = [state EXCEPT ![r] = next]
      /\ UNCHANGED <<read, buffer, count, last>> /\ UNCHANGED input
  BY DEF SendSlice, Goto
<1>2. kind[r] = "batch"
  BY <1>1 DEF LocalInv, BufferInv
<1>3. /\ Len(slices[r]) > 0 /\ slices[r][1].from = Len(sent[r])
      /\ \A i \in 1 .. Len(slices[r]) : SliceInv(r, i)
  BY <1>1, <1>2 DEF LocalInv, BatchInv
<1>4. slices[r] \in Seq(Slice)
  BY DEF TypeOK
<1>5. PICK m \in Nat : m = Len(slices[r])
  BY <1>4
<1>6. m \in Nat \ {0}
  BY <1>3, <1>5
<1>7. /\ c = slices[r][1] /\ rest \in Seq(Slice) /\ Len(rest) = m - 1
      /\ \A i \in 1 .. m - 1 : rest[i] = slices[r][i + 1]
  BY <1>4, <1>5, <1>6
<1>8. rest = <<>> <=> m = 1
  <2> HIDE DEF rest
  <2>1. rest = <<>> => Len(rest) = 0
    BY <1>7
  <2>2. rest # <<>> => Len(rest) # 0
    BY <1>7, EmptySeq
  <2> QED  BY <1>6, <1>7, <2>1, <2>2
<1>9. \A i \in 1 .. m : slices[r][i] \in Slice
  BY <1>4, <1>5, ElementOfSeq
<1>10. PICK f \in Nat, t \in Nat :
         f = c.from /\ t = c.to /\ f \in 0 .. MaxRows /\ t \in 0 .. MaxRows
  <2>1. c \in Slice
    BY <1>6, <1>7, <1>9
  <2> QED  BY <2>1
<1>11. 1 \in 1 .. Len(slices[r]) /\ SliceInv(r, 1)
  BY <1>3, <1>5, <1>6
<1>12. /\ f = Len(sent[r]) /\ f < t /\ t <= read[r]
       /\ \A k \in f + 1 .. t : rows[r][k] = rows[r][f + 1]
       /\ 1 < m => slices[r][2].from = t /\ rows[r][t + 1] # rows[r][f + 1]
       /\ m = 1 => t = read[r]
  BY <1>3, <1>5, <1>7, <1>10, <1>11 DEF SliceInv
<1>13. /\ read[r] \in Nat /\ read[r] <= Len(rows[r]) /\ Len(rows[r]) \in Nat
       /\ MaxRows \in Nat /\ Len(rows[r]) <= MaxRows /\ f \in Nat /\ t \in Nat
  BY RowsType
<1>14. t <= Len(rows[r]) /\ t <= MaxRows /\ f + 1 \in 1 .. Len(rows[r]) /\ t - f \in Nat \ {0}
  BY <1>12, <1>13
<1>15. 1 < m => t + 1 <= Len(rows[r])
  <2> SUFFICES ASSUME 1 < m PROVE t + 1 <= Len(rows[r])
    OBVIOUS
  <2>1. 2 \in 1 .. m /\ 2 \in 1 .. Len(slices[r])
    BY <1>5, <1>6
  <2>2. slices[r][2].from < slices[r][2].to /\ slices[r][2].to <= read[r]
    BY <1>3, <2>1 DEF SliceInv
  <2>3. slices[r][2].to \in Nat
    BY <1>9, <2>1
  <2> QED  BY <1>12, <1>13, <2>2, <2>3
<1>16. /\ s = [k \in 1 .. t - f |-> <<r, f + k>>]
       /\ \A k \in 1 .. t - f : f + k \in 1 .. MaxRows
  <2>1. s = [k \in 1 .. t - f |-> <<r, f + k>>]
    BY <1>10
  <2>2. ASSUME NEW k \in 1 .. t - f PROVE f + k \in 1 .. MaxRows
    BY <1>13, <1>14
  <2> QED  BY <2>1, <2>2
<1>17. /\ s \in Seq(Rows) /\ Len(s) = t - f
       /\ \A k \in 1 .. t - f : s[k] = <<r, f + k>>
  <2>1. s \in [1 .. t - f -> Rows]
    BY <1>16 DEF Rows
  <2> HIDE DEF s
  <2>2. s \in Seq(Rows) /\ Len(s) = t - f
    BY <1>14, <2>1, FunctionIsSeq
  <2> QED  BY <1>16, <2>2
<1> HIDE DEF s
<1>18. PICK l \in Sids : l = rows[r][f + 1]
  BY <1>14, RowsType
<1>19. Yield(r, l, s, cut)
  BY <1>1, <1>10, <1>18
<1>20. state'[r] = next /\ \A q \in Requests \ {r} : state'[q] = state[q]
  BY <1>1 DEF TypeOK
<1>21. Len(sent[r]) + (t - f) = t
  BY <1>12, <1>13
<1>22. Frameable(r, l, Len(s), cut)
  <2>1. /\ Len(s) \in Nat \ {0} /\ Len(sent[r]) + Len(s) = t
    BY <1>14, <1>17, <1>21
  <2>2. cut \in {"size", "sid"}
    OBVIOUS
  <2>3. cut = "sid" => t + 1 <= Len(rows[r]) /\ rows[r][t + 1] # l
    BY <1>6, <1>8, <1>12, <1>15, <1>18
  <2>4. \A i \in Len(sent[r]) + 1 .. t : rows[r][i] = l
    BY <1>12, <1>18
  <2> HIDE DEF cut
  <2> QED  BY <1>2, <1>14, <2>1, <2>2, <2>3, <2>4 DEF Frameable
<1>23. /\ sent' \in [Requests -> Seq(Rows)]
       /\ frames' \in [Requests -> Seq(Frame)]
       /\ SentInv(r)' /\ FrameInv(r)'
       /\ Len(sent'[r]) = t
       /\ \A q \in Requests \ {r} : sent'[q] = sent[q] /\ frames'[q] = frames[q]
  <2>1. \A i \in 1 .. Len(s) : s[i] = <<r, Len(sent[r]) + i>>
    BY <1>12, <1>17
  <2>2. SentInv(r) /\ FrameInv(r) /\ state[r] \in Running
    BY <1>1 DEF LocalInv, Running
  <2> HIDE DEF cut
  <2>3. /\ sent' \in [Requests -> Seq(Rows)]
        /\ frames' \in [Requests -> Seq(Frame)]
        /\ SentInv(r)' /\ FrameInv(r)'
        /\ Len(sent'[r]) = Len(sent[r]) + Len(s)
        /\ \A q \in Requests \ {r} : sent'[q] = sent[q] /\ frames'[q] = frames[q]
    BY <1>1, <1>17, <1>19, <1>22, <2>1, <2>2, YieldKeeps
  <2> QED  BY <1>17, <1>21, <2>3
<1> HIDE DEF c, rest, cut
<1>24. /\ slices'[r] = rest
       /\ \A q \in Requests \ {r} : slices'[q] = slices[q]
  BY <1>1 DEF TypeOK
<1>25. TypeOK'
  <2>1. slices' \in [Requests -> Seq(Slice)]
    BY <1>1, <1>7 DEF TypeOK
  <2> QED  BY <1>1, <1>23, <2>1 DEF TypeOK, input, Running
<1>26. BufferInv(r)'
  BY <1>1, <1>2 DEF BufferInv, input
<1>27. ASSUME NEW i \in 1 .. m - 1 PROVE SliceInv(r, i)'
  <2>1. i + 1 \in 1 .. m /\ i + 1 \in 1 .. Len(slices[r])
    BY <1>5, <1>6
  <2>2. SliceInv(r, i + 1)
    BY <1>3, <2>1
  <2>3. slices'[r][i] = slices[r][i + 1]
    BY <1>7, <1>24
  <2>4. i < m - 1 => /\ slices'[r][i + 1] = slices[r][(i + 1) + 1]
                     /\ i + 1 < Len(slices[r])
    <3> SUFFICES ASSUME i < m - 1
                 PROVE  /\ slices'[r][i + 1] = slices[r][(i + 1) + 1]
                        /\ i + 1 < Len(slices[r])
      OBVIOUS
    <3>1. i + 1 \in 1 .. m - 1
      BY <1>6
    <3>2. i + 1 < m
      BY <1>6
    <3> QED  BY <1>5, <1>7, <1>24, <3>1, <3>2
  <2>5. Len(slices'[r]) = m - 1 /\ (i = m - 1 => i + 1 = Len(slices[r]))
    BY <1>5, <1>6, <1>7, <1>24
  <2> QED  BY <1>1, <2>2, <2>3, <2>4, <2>5 DEF SliceInv, input
<1>28. BatchInv(r)'
  <2>1. CASE m = 1
    BY <1>1, <1>8, <1>12, <1>20, <1>23, <2>1 DEF BatchInv, input
  <2>2. CASE m # 1
    <3>1. 1 < m /\ 1 \in 1 .. m - 1 /\ Len(slices'[r]) = m - 1 /\ m - 1 > 0
      BY <1>6, <1>7, <1>24, <2>2
    <3>2. slices'[r][1] = slices[r][2]
      BY <1>7, <1>24, <3>1
    <3>3. slices'[r][1].from = Len(sent'[r])
      BY <1>12, <1>23, <3>1, <3>2
    <3>4. state'[r] = "slicing"
      BY <1>8, <1>20, <2>2
    <3> QED  BY <1>1, <1>27, <3>1, <3>3, <3>4 DEF BatchInv, input
  <2> QED  BY <2>1, <2>2
<1> QED
  BY <1>1, <1>20, <1>23, <1>24, <1>25, <1>26, <1>28
  DEF Kept, LocalInv, Untouched, input

-----------------------------------------------------------------------------
(* The theorems.                                                           *)

LEMMA InitInv == Init => IInv
<1> SUFFICES ASSUME Init PROVE IInv
  OBVIOUS
<1>1. rows \in [Requests -> Seq(Sids)]
  <2> SUFFICES ASSUME NEW r \in Requests PROVE rows[r] \in Seq(Sids)
    BY DEF Init
  <2>1. rows[r] \in SeqOf(Sids, MaxRows)
    BY DEF Init
  <2>2. PICK n \in 0 .. MaxRows : rows[r] \in [1 .. n -> Sids]
    BY <2>1 DEF SeqOf
  <2> QED  BY <2>2, BoundsAssumption
<1>2. \A r \in Requests : Len(rows[r]) \in Nat /\ 0 <= Len(rows[r])
  BY <1>1
<1>3. TypeOK
  <2>1. NewBuffer \in [1 .. Chunk -> Rows \cup {Blank}]
    BY DEF NewBuffer
  <2>2. 0 \in 0 .. MaxRows /\ 0 \in 0 .. Chunk
    BY BoundsAssumption, ChunkAssumption
  <2> QED  BY <1>1, <1>2, <2>1, <2>2 DEF Init, TypeOK, Running
<1>4. ASSUME NEW r \in Requests PROVE LocalInv(r)
  <2>1. /\ sent[r] = <<>> /\ frames[r] = <<>> /\ state[r] = "reading"
        /\ read[r] = 0 /\ count[r] = 0 /\ last[r] = 0 /\ Len(<<>>) = 0
    BY DEF Init
  <2> QED  BY <1>2, <2>1 DEF LocalInv, SentInv, FrameInv, BufferInv, BatchInv
<1> QED  BY <1>3, <1>4 DEF IInv

LEMMA NextInv == IInv /\ [Next]_vars => IInv'
<1> SUFFICES ASSUME IInv, [Next]_vars PROVE IInv'
  OBVIOUS
<1>1. TypeOK /\ \A r \in Requests : LocalInv(r)
  BY DEF IInv
<1>2. ASSUME NEW r \in Requests, Step(r) PROVE IInv'
  <2>1. Kept(r)
    <3>1. CASE KeepRow(r)
      BY <1>1, <3>1, KeepRowStep
    <3>2. CASE FlushBuffer(r)
      BY <1>1, <3>2, FlushBufferStep
    <3>3. CASE ResumeRow(r)
      BY <1>1, <3>3, ResumeRowStep
    <3>4. CASE FlushRest(r)
      BY <1>1, <3>4, FlushRestStep
    <3>5. CASE \E n \in 1 .. MaxBatch : TakeBatch(r, n)
      BY <1>1, <3>5, TakeBatchStep
    <3>6. CASE SendSlice(r)
      BY <1>1, <3>6, SendSliceStep
    <3>7. CASE NoMoreBatches(r) \/ StopStream(r)
      BY <1>1, <3>7, EndStep
    <3> QED  BY <1>2, <3>1, <3>2, <3>3, <3>4, <3>5, <3>6, <3>7 DEF Step
  <2>2. ASSUME NEW q \in Requests PROVE LocalInv(q)'
    <3>1. CASE q = r
      BY <2>1, <3>1 DEF Kept
    <3>2. CASE q # r
      BY <1>1, <2>1, <3>2, Elsewhere DEF Kept
    <3> QED  BY <3>1, <3>2
  <2> QED  BY <2>1, <2>2 DEF Kept, IInv
<1>3. CASE UNCHANGED vars
  <2>1. \A q \in Requests : Untouched(q)
    BY <1>3 DEF vars, Untouched
  <2>2. \A q \in Requests : LocalInv(q)'
    BY <1>1, <2>1, Elsewhere
  <2>3. TypeOK'
    BY <1>1, <1>3 DEF TypeOK, vars
  <2> QED  BY <2>2, <2>3 DEF IInv
<1> QED  BY <1>2, <1>3 DEF Next, Quiet

(* Every value stays of its type: no row is stored behind the end of a     *)
(* buffer, and no more rows are taken than the query returns.              *)
THEOREM TypeCorrect == Spec => []TypeOK
<1>1. Spec => []IInv
  BY InitInv, NextInv, PTL DEF Spec
<1>2. IInv => TypeOK
  BY DEF IInv
<1> QED  BY <1>1, <1>2, PTL

LEMMA InOrder ==
  ASSUME IInv
  PROVE  RowsInOrder
<1> SUFFICES ASSUME NEW r \in Requests
             PROVE  LET out == IF kind[r] # "batch" /\ state[r] = "reading"
                               THEN sent[r] \o Buffered(r) ELSE sent[r]
                    IN /\ \A k \in DOMAIN out : out[k] = <<r, k>>
                       /\ state[r] \in {"reading", "yielded"} => Len(out) = read[r]
                       /\ state[r] = "done" => Len(out) = Len(rows[r])
  BY DEF RowsInOrder
<1>1. TypeOK /\ LocalInv(r)
  BY DEF IInv
<1>2. /\ sent[r] \in Seq(Rows) /\ DOMAIN sent[r] = 1 .. Len(sent[r])
      /\ Len(sent[r]) \in Nat /\ count[r] \in Nat
      /\ \A k \in 1 .. Len(sent[r]) : sent[r][k] = <<r, k>>
  BY <1>1, RowsType DEF LocalInv, SentInv
<1>3. CASE kind[r] # "batch" /\ state[r] = "reading"
  <2>1. read[r] = Len(sent[r]) + count[r]
    BY <1>1, <1>3 DEF LocalInv, BufferInv
  <2>2. CASE count[r] = 0
    <3>1. Buffered(r) = <<>>
      BY <2>2 DEF Buffered, BufferOf
    <3>2. sent[r] \o Buffered(r) = sent[r]
      BY <1>2, <3>1, ConcatEmptySeq
    <3> QED  BY <1>2, <1>3, <2>1, <2>2, <3>2
  <2>3. CASE count[r] > 0
    <3>1. /\ Buffered(r) \in Seq(Rows) /\ Len(Buffered(r)) = count[r]
          /\ \A i \in 1 .. count[r] : Buffered(r)[i] = <<r, Len(sent[r]) + i>>
      BY <1>1, <1>3, <2>3, BufferedFacts
    <3> DEFINE out == sent[r] \o Buffered(r)
    <3>2. /\ DOMAIN out = 1 .. Len(out) /\ Len(out) = Len(sent[r]) + count[r]
          /\ \A k \in 1 .. Len(sent[r]) + count[r] :
               out[k] = IF k <= Len(sent[r]) THEN sent[r][k]
                                             ELSE Buffered(r)[k - Len(sent[r])]
      BY <1>2, <3>1, ConcatProperties
    <3> HIDE DEF out
    <3>3. ASSUME NEW k \in 1 .. Len(sent[r]) + count[r] PROVE out[k] = <<r, k>>
      <4>1. CASE k <= Len(sent[r])
        BY <1>2, <3>2, <4>1
      <4>2. CASE ~ (k <= Len(sent[r]))
        <5>1. k - Len(sent[r]) \in 1 .. count[r] /\ Len(sent[r]) + (k - Len(sent[r])) = k
          BY ONLY <1>2, <4>2, k \in 1 .. Len(sent[r]) + count[r], Later
        <5> QED  BY <3>1, <3>2, <4>2, <5>1
      <4> QED  BY <4>1, <4>2
    <3> QED  BY <1>3, <2>1, <3>2, <3>3 DEF out
  <2>4. count[r] = 0 \/ count[r] > 0
    BY ONLY <1>2
  <2> QED  BY <2>2, <2>3, <2>4
<1>4. CASE ~ (kind[r] # "batch" /\ state[r] = "reading")
  BY <1>1, <1>2, <1>4 DEF LocalInv, BufferInv, BatchInv
<1> QED  BY <1>3, <1>4

(* No row is lost, repeated, reordered or mixed with another request's,    *)
(* however the requests of a provider interleave.                          *)
THEOREM RowsArriveInOrder == Spec => []RowsInOrder
<1>1. Spec => []IInv
  BY InitInv, NextInv, PTL DEF Spec
<1>2. IInv => RowsInOrder
  BY InOrder
<1> QED  BY <1>1, <1>2, PTL

\* The rows of frame k are those after frame k - 1, up to its end.
LEMMA RowsOfFrame ==
  ASSUME IInv, NEW r \in Requests, NEW k \in 1 .. Len(frames[r])
  PROVE  LET f == frames[r][k] IN
         /\ From(r, k) \in Nat /\ f.upto \in Nat /\ From(r, k) < f.upto
         /\ f.upto <= Len(rows[r])
         /\ Len(FrameRows(r, k)) = f.upto - From(r, k)
         /\ DOMAIN FrameRows(r, k) = 1 .. f.upto - From(r, k)
         /\ \A i \in 1 .. f.upto - From(r, k) :
              FrameRows(r, k)[i] = <<r, From(r, k) + i>>
<1>1. TypeOK /\ LocalInv(r) /\ frames[r] \in Seq(Frame)
  BY DEF IInv, TypeOK
<1>2. \A j \in 1 .. Len(frames[r]) : frames[r][j].upto \in Nat
  <2> SUFFICES ASSUME NEW j \in 1 .. Len(frames[r]) PROVE frames[r][j].upto \in Nat
    OBVIOUS
  <2>1. frames[r][j] \in Frame
    BY <1>1, ElementOfSeq
  <2> QED  BY <2>1, BoundsAssumption DEF Frame
<1>3. PICK a \in Nat : a = From(r, k)
  <2>1. CASE k = 1
    BY <2>1 DEF From
  <2>2. CASE k # 1
    <3>1. k - 1 \in 1 .. Len(frames[r])
      BY <1>1, <2>2
    <3> QED  BY <1>2, <2>2, <3>1 DEF From
  <2> QED  BY <2>1, <2>2
<1>4. PICK b \in Nat : b = frames[r][k].upto
  BY <1>2
<1>5. a < b /\ b <= Len(sent[r]) /\ Len(sent[r]) <= Len(rows[r])
  BY <1>1, <1>3, <1>4 DEF LocalInv, FrameInv, SentInv
<1>6. /\ sent[r] \in Seq(Rows) /\ Len(sent[r]) \in Nat /\ Len(rows[r]) \in Nat
      /\ \A i \in 1 .. Len(sent[r]) : sent[r][i] = <<r, i>>
  BY <1>1, RowsType DEF LocalInv, SentInv
<1>7. PICK d \in Nat \ {0} : d = b - a /\ b = a + d
  BY <1>5
<1>8. FrameRows(r, k) = SubSeq(sent[r], a + 1, a + d)
  <2>1. (IF k = 1 THEN 1 ELSE frames[r][k - 1].upto + 1) = a + 1
    BY <1>3 DEF From
  <2> QED  BY <1>4, <1>7, <2>1 DEF FrameRows
<1>9. /\ SubSeq(sent[r], a + 1, a + d) \in Seq(Rows)
      /\ Len(SubSeq(sent[r], a + 1, a + d)) = d
      /\ \A i \in 1 .. d : SubSeq(sent[r], a + 1, a + d)[i] = sent[r][a + i]
  <2>1. a + d <= Len(sent[r]) /\ sent[r] \in Seq(Rows) /\ a \in Nat /\ d \in Nat \ {0}
    BY <1>5, <1>6, <1>7
  <2> QED  BY ONLY <2>1, SubSeqFacts
<1>10. \A i \in 1 .. d : a + i \in 1 .. Len(sent[r])
  BY <1>5, <1>6, <1>7
<1>11. /\ Len(FrameRows(r, k)) = d /\ DOMAIN FrameRows(r, k) = 1 .. d
       /\ \A i \in 1 .. d : FrameRows(r, k)[i] = <<r, a + i>>
  <2> DEFINE q == SubSeq(sent[r], a + 1, a + d)
  <2> HIDE DEF q
  <2>1. q \in Seq(Rows) /\ Len(q) = d /\ \A i \in 1 .. d : q[i] = sent[r][a + i]
    BY <1>9 DEF q
  <2>2. DOMAIN q = 1 .. d
    BY <2>1
  <2>3. \A i \in 1 .. d : q[i] = <<r, a + i>>
    BY <1>6, <1>10, <2>1
  <2> QED  BY <1>8, <2>1, <2>2, <2>3 DEF q
<1> HIDE DEF FrameRows
<1>12. b <= Len(rows[r])
  BY <1>5, <1>6
<1> QED  BY <1>3, <1>4, <1>5, <1>7, <1>11, <1>12

LEMMA BySid ==
  ASSUME IInv
  PROVE  FramesBySid
<1>1. \A r \in Requests : DOMAIN frames[r] = 1 .. Len(frames[r]) /\ Len(frames[r]) \in Nat
  BY DEF IInv, TypeOK
<1>2. ASSUME NEW r \in Requests, NEW k \in 1 .. Len(frames[r])
      PROVE  /\ FrameRows(r, k) # <<>>
             /\ kind[r] # "plain" =>
                  \A i \in DOMAIN FrameRows(r, k) :
                    rows[r][FrameRows(r, k)[i][2]] = frames[r][k].label
             /\ kind[r] = "plain" => frames[r][k].label = 0
             /\ k < Len(frames[r]) =>
                  \/ frames[r][k].cut = "size"
                  \/ frames[r][k].cut = "sid" /\ frames[r][k].label # frames[r][k + 1].label
             /\ kind[r] # "batch" /\ frames[r][k].cut = "size" =>
                  Len(FrameRows(r, k)) = Chunk
  <2>1. /\ From(r, k) \in Nat /\ frames[r][k].upto \in Nat
        /\ From(r, k) < frames[r][k].upto
        /\ Len(FrameRows(r, k)) = frames[r][k].upto - From(r, k)
        /\ DOMAIN FrameRows(r, k) = 1 .. frames[r][k].upto - From(r, k)
        /\ \A i \in 1 .. frames[r][k].upto - From(r, k) :
             FrameRows(r, k)[i] = <<r, From(r, k) + i>>
    BY RowsOfFrame
  <2>2. LocalInv(r)
    BY DEF IInv
  <2>3. FrameRows(r, k) # <<>>
    <3>1. Len(<<>>) = 0 /\ Len(FrameRows(r, k)) # 0
      BY <2>1
    <3> QED  BY <3>1
  <2>4. ASSUME kind[r] # "plain", NEW i \in 1 .. frames[r][k].upto - From(r, k)
        PROVE  rows[r][FrameRows(r, k)[i][2]] = frames[r][k].label
    <3>1. From(r, k) + i \in From(r, k) + 1 .. frames[r][k].upto
      BY <2>1
    <3>2. rows[r][From(r, k) + i] = frames[r][k].label
      BY <2>2, <2>4, <3>1 DEF LocalInv, FrameInv
    <3> QED  BY <2>1, <3>2
  <2>5. /\ kind[r] = "plain" => frames[r][k].label = 0
        /\ kind[r] # "batch" /\ frames[r][k].cut = "size" =>
             frames[r][k].upto - From(r, k) = Chunk
        /\ CutInv(r, k)
    BY <2>2 DEF LocalInv, FrameInv
  <2> QED  BY <2>1, <2>3, <2>4, <2>5 DEF CutInv
<1> QED  BY <1>1, <1>2 DEF FramesBySid, FramesPure, FramesMaximal

(* Each frame holds rows of one sid, its label, and ends only where its    *)
(* buffer or batch does or the sid changes.                                *)
THEOREM FramesHoldOneSid == Spec => []FramesBySid
<1>1. Spec => []IInv
  BY InitInv, NextInv, PTL DEF Spec
<1>2. IInv => FramesBySid
  BY BySid
<1> QED  BY <1>1, <1>2, PTL
=============================================================================

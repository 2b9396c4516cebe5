------------------------ MODULE RecordScanner_proofs ------------------------
(***************************************************************************)
(* Framing and scanning, for every record size, header size and history of *)
(* stops: a scan finds the longest whole prefix, a recovery leaves exactly *)
(* that, and takes nothing that was fsynced.                               *)
(***************************************************************************)
EXTENDS RecordScanner, TLAPS

USE RecordScannerAssumption DEF EncodedSize, FrameEnd

-----------------------------------------------------------------------------
(* The inductive invariant.                                                *)

FrameType == [start : Nat, length : Nat, payload : Nat, intact : BOOLEAN]

\* Where the first k of the frames fs end.
EndOf(fs, k) == IF k = 0 THEN 0 ELSE FrameEnd(fs[k])

IntactTo(fs, k) == \A i \in 1..k : fs[i].intact

\* One frame follows the other, and only the last can be damaged.
Chained(fs) ==
  /\ fs \in Seq(FrameType)
  /\ \A k \in 1..Len(fs) : fs[k].start = EndOf(fs, k - 1)
  /\ \A j, k \in 1..Len(fs) : j < k => EndOf(fs, j) <= fs[k].start
  /\ \A k \in 1..Len(fs) : k < Len(fs) => fs[k].intact
  /\ \A k \in 1..Len(fs) : fs[k].intact => fs[k].length = fs[k].payload

\* The file ends in the last frame.
SizeOK ==
  /\ size \in Nat /\ size <= EndOf(frames, Len(frames))
  /\ frames # << >> => frames[Len(frames)].start <= size

SyncedOK == synced \in 0..Len(frames) /\ IntactTo(frames, synced)
            /\ EndOf(frames, synced) <= size

ModeOK ==
  /\ mode \in {"down", "open", "append", "scan"}
  /\ lost \in BOOLEAN
  /\ mode \in {"open", "append"} \/ ~lost => IntactTo(frames, Len(frames))
  /\ mode = "open" => size = EndOf(frames, Len(frames))

\* A scanner that has stopped would stop again.
ScanOK ==
  mode = "scan" =>
    /\ scanned \in 0..Len(frames) /\ IntactTo(frames, scanned)
    /\ offset = EndOf(frames, scanned) /\ offset <= size
    /\ err # "none" => err = Outcome /\ err # "record"

ScannerInv == Chained(frames) /\ SizeOK /\ SyncedOK /\ ModeOK /\ ScanOK

-----------------------------------------------------------------------------
(* Frames.                                                                 *)

LEMMA EndType ==
  ASSUME NEW fs, Chained(fs)
  PROVE  /\ fs \in Seq(FrameType) /\ Len(fs) \in Nat
         /\ \A k \in 1..Len(fs) :
              /\ fs[k] \in FrameType /\ fs[k].start \in Nat
              /\ fs[k].length \in Nat /\ fs[k].payload \in Nat
              /\ fs[k].intact \in BOOLEAN
              /\ EndOf(fs, k) = fs[k].start + HeaderSize + fs[k].payload
         /\ \A k \in 0..Len(fs) : EndOf(fs, k) \in Nat
<1>1. fs \in Seq(FrameType) /\ Len(fs) \in Nat
  BY DEF Chained
<1>2. ASSUME NEW k \in 1..Len(fs)
      PROVE  /\ fs[k] \in FrameType /\ fs[k].start \in Nat
             /\ fs[k].length \in Nat /\ fs[k].payload \in Nat
             /\ fs[k].intact \in BOOLEAN
             /\ EndOf(fs, k) = fs[k].start + HeaderSize + fs[k].payload
  <2>1. fs[k] \in FrameType
    BY <1>1
  <2> QED BY <1>1, <2>1 DEF FrameType, EndOf
<1>3. ASSUME NEW k \in 0..Len(fs) PROVE EndOf(fs, k) \in Nat
  <2>1. CASE k = 0
    BY <2>1 DEF EndOf
  <2>2. CASE k # 0
    BY <1>1, <1>2, <2>2
  <2> QED BY <2>1, <2>2
<1> QED BY <1>1, <1>2, <1>3

\* Later frames end later.
LEMMA EndAscends ==
  ASSUME NEW fs, Chained(fs), NEW j \in 0..Len(fs), NEW k \in 0..Len(fs), j < k
  PROVE  EndOf(fs, j) < EndOf(fs, k) /\ EndOf(fs, j) <= fs[k].start
<1>1. /\ k \in 1..Len(fs) /\ fs[k].start \in Nat /\ fs[k].payload \in Nat
      /\ EndOf(fs, k) = fs[k].start + HeaderSize + fs[k].payload
      /\ EndOf(fs, j) \in Nat
  BY EndType
<1>2. EndOf(fs, j) <= fs[k].start
  <2>1. CASE j = 0
    BY <1>1, <2>1 DEF EndOf
  <2>2. CASE j # 0
    BY <1>1, <2>2 DEF Chained
  <2> QED BY <2>1, <2>2
<1> QED BY <1>1, <1>2

\* The first k frames.
LEMMA PrefixChained ==
  ASSUME NEW fs, Chained(fs), NEW k \in 0..Len(fs)
  PROVE  LET t == SubSeq(fs, 1, k)
         IN  /\ Chained(t) /\ Len(t) = k /\ Bytes(t) = EndOf(fs, k)
             /\ \A i \in 0..k : EndOf(t, i) = EndOf(fs, i)
             /\ \A i \in 0..k : IntactTo(fs, i) => IntactTo(t, i)
<1> DEFINE t == SubSeq(fs, 1, k)
<1>1. fs \in Seq(FrameType) /\ Len(fs) \in Nat /\ k \in Nat
  BY EndType
<1>2. t \in Seq(FrameType) /\ Len(t) = k /\ \A i \in 1..k : t[i] = fs[i]
  BY <1>1
<1> HIDE DEF t
<1>3. \A i \in 0..k : EndOf(t, i) = EndOf(fs, i)
  BY <1>1, <1>2 DEF EndOf
<1>4. Bytes(t) = EndOf(fs, k)
  <2>1. t = << >> <=> k = 0
    BY <1>2
  <2> QED BY <1>1, <1>2, <2>1 DEF Bytes, EndOf
<1>5. Chained(t)
  <2>1. \A i \in 1..k : i \in 1..Len(fs) /\ i - 1 \in 0..k /\ t[i] = fs[i]
    BY <1>1, <1>2
  <2>2. \A i \in 1..k : t[i].start = EndOf(t, i - 1)
    BY <2>1, <1>3 DEF Chained
  <2>3. \A i, j \in 1..k : i < j => EndOf(t, i) <= t[j].start
    BY <2>1, <1>3, SMTT(30) DEF Chained
  <2>4. ASSUME NEW i \in 1..k, i < k PROVE t[i].intact
    <3>1. i \in 1..Len(fs) /\ i < Len(fs)
      BY <1>1, <2>4
    <3> QED BY <2>1, <3>1 DEF Chained
  <2>5. \A i \in 1..k : t[i].intact => t[i].length = t[i].payload
    BY <2>1 DEF Chained
  <2> QED BY <1>2, <2>2, <2>3, <2>4, <2>5 DEF Chained
<1>6. \A i \in 0..k : IntactTo(fs, i) => IntactTo(t, i)
  BY <1>1, <1>2 DEF IntactTo
<1> QED BY <1>2, <1>3, <1>4, <1>5, <1>6 DEF t

\* A frame behind the last one, which must be intact.
LEMMA AppendChained ==
  ASSUME NEW fs, Chained(fs), IntactTo(fs, Len(fs)), NEW f \in FrameType,
         f.start = EndOf(fs, Len(fs)), f.intact => f.length = f.payload
  PROVE  LET t == Append(fs, f)
         IN  /\ Chained(t) /\ Len(t) = Len(fs) + 1 /\ t[Len(t)] = f
             /\ \A i \in 0..Len(fs) : EndOf(t, i) = EndOf(fs, i)
             /\ \A i \in 0..Len(fs) : IntactTo(t, i)
             /\ f.intact => IntactTo(t, Len(t))
             /\ Bytes(t) = EndOf(t, Len(t)) /\ EndOf(t, Len(t)) = FrameEnd(f)
<1> DEFINE n == Len(fs)
           t == Append(fs, f)
<1>1. fs \in Seq(FrameType) /\ n \in Nat
  BY EndType
<1>2. t \in Seq(FrameType) /\ Len(t) = n + 1 /\ t[n + 1] = f /\ \A i \in 1..n : t[i] = fs[i]
  BY <1>1
<1>3. t # << >>
  BY <1>1, <1>2
<1>4. \A i \in 1..n : fs[i].intact /\ fs[i].start = EndOf(fs, i - 1)
                      /\ fs[i].length = fs[i].payload
  BY DEF Chained, IntactTo
<1>5. \A i, j \in 1..n : i < j => EndOf(fs, i) <= fs[j].start
  BY DEF Chained
<1>6. \A i \in 0..n : EndOf(fs, i) \in Nat /\ EndOf(fs, i) <= EndOf(fs, n)
  <2> SUFFICES ASSUME NEW i \in 0..n PROVE EndOf(fs, i) \in Nat /\ EndOf(fs, i) <= EndOf(fs, n)
    OBVIOUS
  <2>1. i = n \/ i < n
    BY <1>1
  <2>2. n \in 0..n /\ EndOf(fs, i) \in Nat /\ EndOf(fs, n) \in Nat
    BY <1>1, EndType
  <2>3. i < n => EndOf(fs, i) < EndOf(fs, n)
    BY <2>2, EndAscends
  <2> QED BY <2>1, <2>2, <2>3
<1> HIDE DEF n, t
<1>7. \A i \in 0..n : EndOf(t, i) = EndOf(fs, i)
  BY <1>1, <1>2 DEF EndOf
<1>8. EndOf(t, n + 1) = FrameEnd(f)
  BY <1>1, <1>2 DEF EndOf
<1>9. f.start = EndOf(fs, n)
  BY DEF n
<1>10. \A i \in 1..(n + 1) : i \in 1..n \/ i = n + 1
  BY <1>1
<1>11. Chained(t)
  <2>1. ASSUME NEW i \in 1..(n + 1)
        PROVE  t[i].start = EndOf(t, i - 1) /\ (t[i].intact => t[i].length = t[i].payload)
               /\ (i < n + 1 => t[i].intact)
    <3>1. CASE i \in 1..n
      <4>1. i - 1 \in 0..n
        BY <1>1, <3>1
      <4> QED BY <1>2, <1>4, <1>7, <3>1, <4>1
    <3>2. CASE i = n + 1
      <4>1. i - 1 = n /\ n \in 0..n /\ ~(i < n + 1)
        BY <1>1, <3>2
      <4> QED BY <1>2, <1>7, <1>9, <3>2, <4>1
    <3> QED BY <1>10, <3>1, <3>2
  <2>2. ASSUME NEW i \in 1..(n + 1), NEW j \in 1..(n + 1), i < j
        PROVE  EndOf(t, i) <= t[j].start
    <3>1. i \in 1..n /\ i \in 0..n
      BY <1>1, <2>2
    <3>2. CASE j \in 1..n
      BY <1>2, <1>5, <1>7, <2>2, <3>1, <3>2
    <3>3. CASE j = n + 1
      BY <1>2, <1>6, <1>7, <1>9, <3>1, <3>3
    <3> QED BY <1>10, <3>2, <3>3
  <2> QED BY <1>2, <2>1, <2>2 DEF Chained
<1>12. \A i \in 0..n : IntactTo(t, i)
  BY <1>1, <1>2, <1>4 DEF IntactTo
<1>13. f.intact => IntactTo(t, n + 1)
  BY <1>2, <1>4, <1>10 DEF IntactTo
<1>14. Bytes(t) = FrameEnd(f)
  BY <1>2, <1>3 DEF Bytes
<1> QED BY <1>2, <1>7, <1>8, <1>11, <1>12, <1>13, <1>14 DEF n, t

\* The bytes of all frames.
LEMMA BytesOfFrames ==
  ASSUME NEW fs, Chained(fs)
  PROVE  Bytes(fs) = EndOf(fs, Len(fs)) /\ Bytes(fs) \in Nat /\ Len(fs) \in 0..Len(fs)
<1>1. fs = << >> <=> Len(fs) = 0
  BY DEF Chained
<1>2. Len(fs) \in 0..Len(fs)
  BY EndType
<1> QED BY <1>1, <1>2, EndType DEF Bytes, EndOf

\* What it takes for the first k frames to be whole.
LEMMA WholeIff ==
  ASSUME Chained(frames), NEW k \in Nat
  PROVE  Whole(k) <=> k <= Len(frames) /\ EndOf(frames, k) <= size /\ IntactTo(frames, k)
<1>1. CASE k <= Len(frames)
  <2>1. k \in 0..Len(frames)
    BY <1>1, EndType
  <2>2. Bytes(SubSeq(frames, 1, k)) = EndOf(frames, k)
    BY <2>1, PrefixChained
  <2> QED BY <1>1, <2>2 DEF Whole, IntactTo
<1>2. CASE ~(k <= Len(frames))
  BY <1>2 DEF Whole
<1> QED BY <1>1, <1>2

-----------------------------------------------------------------------------
(* The steps.                                                              *)

\* Appends, fsyncs, kills: the frames and what the file has of them.
LEMMA WriterSteps ==
  ASSUME ScannerInv,
         \/ \E n \in Payloads : BeginAppend(n)
         \/ WriteBytes \/ EndAppend \/ Sync \/ Kill
  PROVE  ScannerInv'
<1> USE DEF ScannerInv, file, scanner, history
<1>1. /\ Chained(frames) /\ frames \in Seq(FrameType) /\ Len(frames) \in Nat
      /\ Bytes(frames) = EndOf(frames, Len(frames)) /\ Bytes(frames) \in Nat
      /\ Len(frames) \in 0..Len(frames) /\ size \in Nat
  BY EndType, BytesOfFrames DEF SizeOK
<1>2. ASSUME NEW n \in Payloads, BeginAppend(n) PROVE ScannerInv'
  <2> USE <1>2 DEF BeginAppend
  <2>1. /\ Encoded(n) \in FrameType /\ Encoded(n).start = EndOf(frames, Len(frames))
        /\ Encoded(n).intact /\ Encoded(n).length = Encoded(n).payload
    BY <1>1 DEF Encoded, FrameType
  <2>2. IntactTo(frames, Len(frames)) /\ size = EndOf(frames, Len(frames))
    BY DEF ModeOK
  <2>a. PICK f : f = Encoded(n)
    OBVIOUS
  <2>b. PICK t : t = frames'
    OBVIOUS
  <2>c. /\ f \in FrameType /\ f.start = EndOf(frames, Len(frames)) /\ f.intact
        /\ f.length = f.payload
    BY <2>1, <2>a
  <2>d. t = Append(frames, f)
    BY <2>a, <2>b
  <2>3. /\ Chained(frames') /\ Len(frames') = Len(frames) + 1
        /\ frames'[Len(frames')] = Encoded(n)
        /\ \A i \in 0..Len(frames) : EndOf(frames', i) = EndOf(frames, i)
        /\ \A i \in 0..Len(frames) : IntactTo(frames', i)
        /\ IntactTo(frames', Len(frames'))
        /\ EndOf(frames', Len(frames')) = FrameEnd(Encoded(n))
    <3>1. /\ Chained(t) /\ Len(t) = Len(frames) + 1 /\ t[Len(t)] = f
          /\ \A i \in 0..Len(frames) : EndOf(t, i) = EndOf(frames, i)
          /\ \A i \in 0..Len(frames) : IntactTo(t, i)
          /\ IntactTo(t, Len(t))
          /\ EndOf(t, Len(t)) = FrameEnd(f)
      BY <1>1, <2>2, <2>c, <2>d, AppendChained
    <3> QED BY <2>a, <2>b, <3>1
  <2>4. SizeOK'
    <3>1. /\ Encoded(n).start = size /\ FrameEnd(Encoded(n)) = size + HeaderSize + n /\ n \in Nat
      BY <1>1, <2>1, <2>2 DEF Encoded
    <3> QED BY <1>1, <2>3, <3>1 DEF SizeOK
  <2>5. SyncedOK'
    BY <1>1, <2>3 DEF SyncedOK
  <2>6. ModeOK' /\ ScanOK'
    BY <2>3 DEF ModeOK, ScanOK
  <2> QED BY <2>3, <2>4, <2>5, <2>6
<1>3. ASSUME WriteBytes PROVE ScannerInv'
  <2>1. size' \in Nat /\ size <= size' /\ size' <= EndOf(frames, Len(frames))
    BY <1>1, <1>3 DEF WriteBytes
  <2>2. SizeOK'
    <3>1. frames # << >> => frames[Len(frames)].start \in Nat
      BY <1>1, EndType
    <3> QED BY <1>1, <1>3, <2>1, <3>1 DEF SizeOK, WriteBytes
  <2>3. SyncedOK'
    BY <1>1, <1>3, <2>1, EndType DEF SyncedOK, WriteBytes
  <2>4. ModeOK' /\ ScanOK'
    BY <1>3 DEF ModeOK, ScanOK, WriteBytes
  <2> QED BY <1>1, <1>3, <2>2, <2>3, <2>4 DEF WriteBytes
<1>4. ASSUME EndAppend \/ Sync \/ Kill PROVE ScannerInv'
  <2>1. UNCHANGED <<frames, size>> /\ mode' # "scan" /\ lost' = lost
    BY <1>4 DEF EndAppend, Sync, Kill
  <2>2. SyncedOK'
    BY <1>1, <1>4 DEF SyncedOK, ModeOK, EndAppend, Sync, Kill
  <2>3. ModeOK'
    BY <1>1, <1>4 DEF ModeOK, EndAppend, Sync, Kill
  <2> QED BY <2>1, <2>2, <2>3 DEF SizeOK, ScanOK
<1> QED BY <1>2, <1>3, <1>4

\* A power loss damages or takes only what was not fsynced.
LEMMA PowerLossStep ==
  ASSUME ScannerInv, PowerLoss
  PROVE  ScannerInv' /\ synced <= Len(frames')
<1> USE DEF ScannerInv
<1>1. /\ Chained(frames) /\ frames \in Seq(FrameType) /\ Len(frames) \in Nat /\ size \in Nat
      /\ synced \in 0..Len(frames) /\ IntactTo(frames, synced)
  BY EndType DEF SizeOK, SyncedOK
<1>2. mode' = "down" /\ lost' = TRUE /\ synced' = synced
  BY DEF PowerLoss
<1>3. ModeOK' /\ ScanOK'
  BY <1>2 DEF ModeOK, ScanOK
<1>4. CASE frames' = SubSeq(frames, 1, synced) /\ size' = Bytes(frames')
  <2>1. /\ Chained(frames') /\ Len(frames') = synced /\ IntactTo(frames', synced)
        /\ size' = EndOf(frames', Len(frames')) /\ synced \in Nat
    <3>1. synced \in 0..synced /\ synced \in Nat
      BY <1>1
    <3>2. /\ Chained(frames') /\ Len(frames') = synced /\ Bytes(frames') = EndOf(frames, synced)
          /\ \A i \in 0..synced : EndOf(frames', i) = EndOf(frames, i)
          /\ \A i \in 0..synced : IntactTo(frames, i) => IntactTo(frames', i)
      BY <1>1, <1>4, PrefixChained
    <3> QED BY <1>1, <1>4, <3>1, <3>2
  <2>2. size' \in Nat /\ (frames' # << >> => frames'[Len(frames')].start <= size')
    <3>1. \A k \in 1..Len(frames') :
            /\ frames'[k].start \in Nat /\ frames'[k].payload \in Nat
            /\ EndOf(frames', k) = frames'[k].start + HeaderSize + frames'[k].payload
      BY <2>1, EndType
    <3>2. \A k \in 0..Len(frames') : EndOf(frames', k) \in Nat
      BY <2>1, EndType
    <3>3. Len(frames') \in 0..Len(frames') /\ (frames' # << >> => Len(frames') \in 1..Len(frames'))
      BY <2>1, EndType
    <3>4. size' \in Nat
      BY <2>1, <3>2, <3>3
    <3>5. ASSUME NEW k \in 1..Len(frames'), size' = EndOf(frames', k)
          PROVE frames'[k].start <= size'
      BY <3>1, <3>5
    <3> QED BY <2>1, <3>3, <3>4, <3>5
  <2> QED BY <1>2, <1>3, <2>1, <2>2 DEF SizeOK, SyncedOK
<1>5. CASE \E k \in (synced + 1)..Len(frames) :
             LET before == SubSeq(frames, 1, k - 1) IN
             /\ \E f \in {frames[k]} \cup Damaged(frames[k]) : frames' = Append(before, f)
             /\ size' \in Bytes(before)..Bytes(frames')
             /\ size' <= size
  <2>a. PICK k \in (synced + 1)..Len(frames) :
          LET before == SubSeq(frames, 1, k - 1) IN
          /\ \E f \in {frames[k]} \cup Damaged(frames[k]) : frames' = Append(before, f)
          /\ size' \in Bytes(before)..Bytes(frames')
    BY <1>5
  <2>b. PICK before : before = SubSeq(frames, 1, k - 1)
    OBVIOUS
  <2>1. /\ before = SubSeq(frames, 1, k - 1)
        /\ \E f \in {frames[k]} \cup Damaged(frames[k]) : frames' = Append(before, f)
        /\ size' \in Bytes(before)..Bytes(frames')
    BY <2>a, <2>b
  <2>2. PICK f \in {frames[k]} \cup Damaged(frames[k]) : frames' = Append(before, f)
    BY <2>1
  <2>3. k - 1 \in 0..Len(frames) /\ k \in 1..Len(frames) /\ synced \in 0..(k - 1) /\ k \in Nat
    BY <1>1
  <2>4. frames[k] \in FrameType /\ frames[k].start = EndOf(frames, k - 1)
    BY <1>1, <2>3, EndType DEF Chained
  <2>5. /\ f \in FrameType /\ f.start = EndOf(frames, k - 1)
        /\ f.intact => f.length = f.payload
    <3>1. CASE f = frames[k]
      BY <1>1, <2>3, <2>4, <3>1 DEF Chained
    <3>2. CASE f \in Damaged(frames[k])
      <4>1. PICK g \in FrameType : g = frames[k]
        BY <2>4
      <4>2. /\ [g EXCEPT !.intact = FALSE] \in FrameType
            /\ [g EXCEPT !.intact = FALSE, !.length = 0] \in FrameType
            /\ \A h \in Damaged(g) : h.start = g.start /\ ~h.intact
        BY DEF Damaged, FrameType
      <4> QED BY <2>4, <3>2, <4>1, <4>2 DEF Damaged
    <3> QED BY <3>1, <3>2
  <2>6. /\ Chained(before) /\ Len(before) = k - 1 /\ Bytes(before) = EndOf(frames, k - 1)
        /\ \A i \in 0..(k - 1) : EndOf(before, i) = EndOf(frames, i)
        /\ IntactTo(before, synced) /\ IntactTo(before, k - 1)
    <3>1. IntactTo(frames, k - 1)
      BY <1>1, <2>3 DEF Chained, IntactTo
    <3>2. k - 1 \in 0..(k - 1)
      BY <2>3
    <3>3. /\ Chained(before) /\ Len(before) = k - 1 /\ Bytes(before) = EndOf(frames, k - 1)
          /\ \A i \in 0..(k - 1) : EndOf(before, i) = EndOf(frames, i)
          /\ \A i \in 0..(k - 1) : IntactTo(frames, i) => IntactTo(before, i)
      BY <1>1, <2>1, <2>3, PrefixChained
    <3> QED BY <1>1, <2>3, <3>1, <3>2, <3>3
  <2>7. k - 1 \in 0..(k - 1) /\ EndOf(before, k - 1) = EndOf(frames, k - 1)
    BY <2>3, <2>6
  <2>8. /\ Chained(frames') /\ Len(frames') = k /\ frames'[k] = f
        /\ \A i \in 0..(k - 1) : EndOf(frames', i) = EndOf(frames, i)
        /\ \A i \in 0..(k - 1) : IntactTo(frames', i)
        /\ Bytes(frames') = EndOf(frames', k)
    <3>1. Len(before) + 1 = k
      BY <2>3, <2>6
    <3>2. /\ Chained(frames') /\ Len(frames') = Len(before) + 1 /\ frames'[Len(frames')] = f
          /\ \A i \in 0..Len(before) : EndOf(frames', i) = EndOf(before, i)
          /\ \A i \in 0..Len(before) : IntactTo(frames', i)
          /\ Bytes(frames') = EndOf(frames', Len(frames'))
      <4>1. PICK t : t = frames'
        OBVIOUS
      <4>2. /\ t = Append(before, f) /\ f.start = EndOf(before, Len(before))
            /\ IntactTo(before, Len(before))
        BY <2>2, <2>5, <2>6, <2>7, <4>1
      <4>3. /\ Chained(t) /\ Len(t) = Len(before) + 1 /\ t[Len(t)] = f
            /\ \A i \in 0..Len(before) : EndOf(t, i) = EndOf(before, i)
            /\ \A i \in 0..Len(before) : IntactTo(t, i)
            /\ Bytes(t) = EndOf(t, Len(t))
        BY <2>5, <2>6, <4>2, AppendChained
      <4> QED BY <4>1, <4>3
    <3> QED BY <2>6, <3>1, <3>2
  <2>9. EndOf(frames, k - 1) \in Nat /\ Bytes(frames') \in Nat
    BY <1>1, <2>3, <2>8, EndType, BytesOfFrames
  <2>10. size' \in Nat /\ EndOf(frames, k - 1) <= size' /\ size' <= EndOf(frames', k)
    BY <2>1, <2>6, <2>8, <2>9
  <2>11. SizeOK'
    BY <2>5, <2>8, <2>10 DEF SizeOK
  <2>12. SyncedOK' /\ synced <= Len(frames')
    <3>1. EndOf(frames, synced) <= EndOf(frames, k - 1)
      <4>1. synced = k - 1 \/ synced < k - 1
        BY <2>3
      <4>2. EndOf(frames, synced) \in Nat
        BY <1>1, EndType
      <4>3. synced < k - 1 => EndOf(frames, synced) < EndOf(frames, k - 1)
        BY <1>1, <2>3, EndAscends
      <4> QED BY <2>9, <4>1, <4>2, <4>3
    <3>2. EndOf(frames', synced) <= size'
      <4>1. EndOf(frames, synced) \in Nat
        BY <1>1, EndType
      <4> QED BY <2>3, <2>8, <2>9, <2>10, <3>1, <4>1
    <3>3. synced \in 0..k /\ synced <= k
      BY <2>3
    <3> QED BY <1>2, <2>3, <2>8, <3>2, <3>3 DEF SyncedOK
  <2> QED BY <1>3, <2>8, <2>11, <2>12
<1> QED BY <1>4, <1>5 DEF PowerLoss

\* Open starts at the first byte, and Next goes from frame to frame.
LEMMA ScanSteps ==
  ASSUME ScannerInv, (\E l \in Limits : Open(l)) \/ ScanNext
  PROVE  ScannerInv'
<1> USE DEF ScannerInv, file, history
<1>1. /\ Chained(frames) /\ frames \in Seq(FrameType) /\ Len(frames) \in Nat
      /\ size \in Nat /\ Len(frames) \in 0..Len(frames)
  BY EndType DEF SizeOK
<1>2. UNCHANGED <<frames, size, synced, lost>> /\ mode' = "scan"
  BY DEF Open, ScanNext
<1>3. SizeOK' /\ SyncedOK' /\ Chained(frames') /\ ModeOK'
  <2>1. SizeOK' /\ SyncedOK' /\ Chained(frames')
    BY <1>2 DEF SizeOK, SyncedOK
  <2> QED BY <1>2, <2>1 DEF ModeOK
<1>4. CASE \E l \in Limits : Open(l)
  <2>1. scanned' = 0 /\ offset' = 0 /\ err' = "none"
    BY <1>4 DEF Open, NewScanner
  <2>2. IntactTo(frames, 0) /\ EndOf(frames, 0) = 0
    BY DEF IntactTo, EndOf
  <2> QED BY <1>1, <1>2, <1>3, <2>1, <2>2 DEF ScanOK
<1>5. CASE ScanNext
  <2>1. /\ scanned \in 0..Len(frames) /\ IntactTo(frames, scanned) /\ scanned \in Nat
        /\ offset = EndOf(frames, scanned) /\ offset <= size /\ err = "none"
    BY <1>1, <1>5 DEF ScanOK, ScanNext
  <2>2. CASE Outcome # "record"
    <3>1. err' = Outcome /\ UNCHANGED <<scanned, offset, limit>>
      BY <1>5, <2>2 DEF ScanNext
    <3>2. Outcome' = Outcome
      BY <1>2, <3>1 DEF Outcome, Left, Frame
    <3> QED BY <1>2, <1>3, <2>1, <2>2, <3>1, <3>2 DEF ScanOK
  <2>3. CASE Outcome = "record"
    <3>1. /\ scanned' = scanned + 1 /\ offset' = offset + (HeaderSize + Frame.length)
          /\ err' = "none"
      BY <1>5, <2>1, <2>3 DEF ScanNext
    <3>2. offset \in Nat /\ size - offset \in Nat
      BY <1>1, <2>1, EndType
    <3>3. /\ size - offset # 0 /\ ~(size - offset < HeaderSize) /\ Frame.intact
          /\ ~(size - offset - HeaderSize < Frame.length)
      BY <2>3 DEF Outcome, Left
    <3>4. scanned # Len(frames)
      BY <1>1, <2>1, <3>2, <3>3, EndType DEF SizeOK
    <3>5. scanned + 1 \in 1..Len(frames) /\ scanned + 1 \in 0..Len(frames)
      BY <1>1, <2>1, <3>4
    <3>6. /\ Frame.start = EndOf(frames, (scanned + 1) - 1) /\ Frame.start \in Nat
          /\ Frame.length = Frame.payload /\ Frame.length \in Nat
          /\ EndOf(frames, scanned + 1) = Frame.start + HeaderSize + Frame.payload
      BY <1>1, <3>3, <3>5, EndType DEF Frame, Chained
    <3>7. (scanned + 1) - 1 = scanned
      BY <2>1
    <3>8. offset' = EndOf(frames, scanned + 1) /\ offset' <= size
      BY <1>1, <2>1, <3>1, <3>2, <3>3, <3>6, <3>7, SMTT(30)
    <3>9. IntactTo(frames, scanned + 1)
      <4>1. \A i \in 1..(scanned + 1) : i \in 1..scanned \/ i = scanned + 1
        BY <2>1
      <4> QED BY <2>1, <3>3, <4>1 DEF IntactTo, Frame
    <3> QED BY <1>2, <1>3, <3>1, <3>5, <3>8, <3>9 DEF ScanOK
  <2> QED BY <2>2, <2>3
<1> QED BY <1>4, <1>5

\* Where a scanner stops that has not failed, the whole frames end.
LEMMA Verdict ==
  ASSUME ScannerInv, mode = "scan", err # "none"
  PROVE  /\ scanned \in 0..Len(frames) /\ scanned \in Nat /\ IntactTo(frames, scanned)
         /\ offset = EndOf(frames, scanned) /\ offset <= size /\ offset \in Nat
         /\ err \in {"eof", "torn", "tooLarge", "corrupt"}
         /\ err = "eof" <=> size = offset
         /\ scanned < Len(frames) /\ err # "tooLarge" =>
              ~(EndOf(frames, scanned + 1) <= size /\ frames[scanned + 1].intact)
         /\ err = "corrupt" => scanned < Len(frames) /\ ~frames[scanned + 1].intact
         /\ err = "tooLarge" => scanned < Len(frames) /\ frames[scanned + 1].length > limit
<1> USE DEF ScannerInv
<1>1. /\ Chained(frames) /\ Len(frames) \in Nat
      /\ size \in Nat /\ size <= EndOf(frames, Len(frames))
  BY EndType DEF SizeOK
<1>2. /\ scanned \in 0..Len(frames) /\ IntactTo(frames, scanned) /\ scanned \in Nat
      /\ offset = EndOf(frames, scanned) /\ offset <= size
      /\ err = Outcome /\ err # "record"
  BY <1>1 DEF ScanOK
<1>3. offset \in Nat /\ size - offset \in Nat
  BY <1>1, <1>2, EndType
<1>4. err \in {"eof", "torn", "tooLarge", "corrupt"} /\ (err = "eof" <=> size = offset)
  <2>1. size - offset = 0 <=> size = offset
    BY <1>1, <1>3
  <2> QED BY <1>2, <2>1 DEF Outcome, Left
<1>5. scanned < Len(frames) \/ size = offset
  BY <1>1, <1>2, <1>3
<1>6. ASSUME scanned < Len(frames), err # "tooLarge", frames[scanned + 1].intact
      PROVE  ~(EndOf(frames, scanned + 1) <= size)
  <2>1. scanned + 1 \in 1..Len(frames) /\ (scanned + 1) - 1 = scanned
    BY <1>1, <1>2, <1>6
  <2>2. /\ Frame.start = offset /\ Frame.length = Frame.payload /\ Frame.length \in Nat
        /\ EndOf(frames, scanned + 1) = Frame.start + HeaderSize + Frame.payload
    BY <1>1, <1>2, <1>6, <2>1, EndType DEF Frame, Chained
  <2>3. \/ size - offset = 0 \/ size - offset < HeaderSize
        \/ size - offset - HeaderSize < Frame.length
    BY <1>2, <1>6 DEF Outcome, Left, Frame
  <2> QED BY <1>1, <1>3, <2>2, <2>3
<1>7. err \in {"corrupt", "tooLarge"} => scanned < Len(frames)
  BY <1>4, <1>5
<1>8. err = "corrupt" => ~frames[scanned + 1].intact
  BY <1>2 DEF Outcome, Frame
<1>9. err = "tooLarge" => frames[scanned + 1].length > limit
  BY <1>2 DEF Outcome, Frame
<1> QED BY <1>2, <1>3, <1>4, <1>6, <1>7, <1>8, <1>9

\* Recovery keeps what the scan has returned.
LEMMA RecoveredStep ==
  ASSUME ScannerInv, Recovered
  PROVE  ScannerInv'
<1> USE DEF ScannerInv
<1>1. /\ Chained(frames) /\ Len(frames) \in Nat /\ size \in Nat
      /\ synced \in 0..Len(frames) /\ EndOf(frames, synced) <= size
  BY EndType DEF SizeOK, SyncedOK
<1>2. /\ scanned \in 0..Len(frames) /\ scanned \in Nat /\ IntactTo(frames, scanned)
      /\ offset = EndOf(frames, scanned) /\ offset \in Nat
      /\ err = "eof" <=> size = offset
  BY Verdict DEF Recovered
<1>3. /\ frames' = SubSeq(frames, 1, scanned) /\ mode' = "open" /\ lost' = FALSE
      /\ IF err = "eof" THEN UNCHANGED <<size, synced>>
         ELSE size' = offset /\ synced' = scanned
  BY DEF Recovered, Chopped
<1>4. /\ Chained(frames') /\ Len(frames') = scanned
      /\ \A i \in 0..scanned : EndOf(frames', i) = EndOf(frames, i)
      /\ \A i \in 0..scanned : IntactTo(frames, i) => IntactTo(frames', i)
  BY <1>1, <1>2, <1>3, PrefixChained
<1>5. scanned \in 0..scanned
  BY <1>2
<1>6. size' = EndOf(frames', scanned) /\ size' = offset
  BY <1>2, <1>3, <1>4, <1>5
<1>7. synced' \in 0..scanned
  <2>1. CASE err = "eof"
    <3>1. ~(scanned < synced)
      BY <1>1, <1>2, <2>1, EndAscends, EndType
    <3> QED BY <1>1, <1>2, <1>3, <2>1, <3>1
  <2> QED BY <1>3, <1>5, <2>1
<1>8. SizeOK'
  <2>1. frames' # << >> => scanned \in 1..Len(frames')
    BY <1>2, <1>4, EndType
  <2>2. \A k \in 1..Len(frames') :
          /\ frames'[k].start \in Nat /\ frames'[k].payload \in Nat
          /\ EndOf(frames', k) = frames'[k].start + HeaderSize + frames'[k].payload
    BY <1>4, EndType
  <2>3. ASSUME NEW k \in 1..Len(frames'), size' = EndOf(frames', k)
        PROVE  frames'[k].start <= size'
    BY <2>2, <2>3
  <2> QED BY <1>2, <1>4, <1>6, <2>1, <2>3 DEF SizeOK
<1>9. SyncedOK'
  <2>1. IntactTo(frames, synced')
    BY <1>2, <1>7 DEF IntactTo
  <2>2. EndOf(frames, synced') <= offset
    <3>1. synced' = scanned \/ synced' < scanned
      BY <1>2, <1>7
    <3>2. synced' \in 0..Len(frames) /\ EndOf(frames, synced') \in Nat
      BY <1>1, <1>2, <1>7, EndType
    <3>3. synced' < scanned => EndOf(frames, synced') < EndOf(frames, scanned)
      BY <1>1, <1>2, <3>2, EndAscends
    <3> QED BY <1>2, <3>1, <3>2, <3>3
  <2> QED BY <1>4, <1>6, <1>7, <2>1, <2>2 DEF SyncedOK
<1>10. ModeOK' /\ ScanOK'
  BY <1>2, <1>3, <1>4, <1>5, <1>6 DEF ModeOK, ScanOK
<1> QED BY <1>4, <1>8, <1>9, <1>10

-----------------------------------------------------------------------------
(* For any limits.                                                         *)

\* Every behaviour keeps the file a chain of frames that its end cuts, and the
\* scanner between two of them.
THEOREM ScannerInvariant == Spec => []ScannerInv
<1> USE DEF ScannerInv
<1>1. Init => ScannerInv
  <2> SUFFICES ASSUME Init PROVE ScannerInv
    OBVIOUS
  <2> USE DEF Init
  <2>1. Len(frames) = 0 /\ \A k \in 1..Len(frames) : FALSE
    OBVIOUS
  <2>2. Chained(frames)
    BY <2>1 DEF Chained
  <2>3. \A k \in 1..0 : FALSE
    OBVIOUS
  <2>4. SizeOK /\ EndOf(frames, 0) = 0
    BY <2>1 DEF SizeOK, EndOf
  <2>5. SyncedOK
    BY <2>1, <2>3, <2>4 DEF SyncedOK, IntactTo
  <2>6. ModeOK
    BY <2>1, <2>4 DEF ModeOK, IntactTo
  <2>7. ScanOK
    BY DEF ScanOK
  <2> QED BY <2>2, <2>4, <2>5, <2>6, <2>7
<1>2. ScannerInv /\ [Next]_vars => ScannerInv'
  <2> SUFFICES ASSUME ScannerInv, [Next]_vars PROVE ScannerInv'
    OBVIOUS
  <2>1. CASE UNCHANGED vars
    BY <2>1 DEF vars, file, scanner, history, SizeOK, SyncedOK, ModeOK, ScanOK,
                Outcome, Left, Frame
  <2> QED BY <2>1, WriterSteps, PowerLossStep, ScanSteps, RecoveredStep DEF Next
<1> QED BY <1>1, <1>2, PTL DEF Spec

\* An append finds nothing but whole records in the file, and goes right
\* behind them (WriteAt of Segment.Append at size).
THEOREM ReadyToAppendHolds == Spec => []ReadyToAppend
<1>1. ScannerInv => ReadyToAppend
  <2> SUFFICES ASSUME ScannerInv, mode = "open"
               PROVE  Whole(Len(frames)) /\ size = Bytes(frames)
    BY DEF ReadyToAppend
  <2>1. Chained(frames) /\ IntactTo(frames, Len(frames)) /\ size \in Nat
        /\ size = EndOf(frames, Len(frames))
    BY DEF ScannerInv, ModeOK, SizeOK
  <2>2. Len(frames) \in Nat /\ Bytes(frames) = EndOf(frames, Len(frames))
    BY <2>1, EndType, BytesOfFrames
  <2> QED BY <2>1, <2>2, WholeIff
<1> QED BY <1>1, ScannerInvariant, PTL

-----------------------------------------------------------------------------
(* For limits that agree.                                                  *)

(***************************************************************************)
(* What one Open lets be appended, the next one lets be read.  A log       *)
(* reopened with a smaller WithMaxRecordSize may break it.                 *)
(***************************************************************************)
LimitsAgree ==
  \A l, m \in Limits : \A n \in Payloads : EncodedSize(n) <= l => n <= m

\* No frame claims more than any limit.
LimitsOK ==
  /\ limit \in Limits
  /\ \A k \in 1..Len(frames) : \A l \in Limits : frames[k].length <= l

LEMMA LimitsStep ==
  ASSUME LimitsAgree, ScannerInv, LimitsOK, [Next]_vars
  PROVE  LimitsOK'
<1>1. /\ Chained(frames) /\ frames \in Seq(FrameType) /\ Len(frames) \in Nat
      /\ limit \in Limits /\ synced \in 0..Len(frames)
      /\ \A k \in 1..Len(frames) : \A l \in Limits : frames[k].length <= l
  BY EndType DEF ScannerInv, LimitsOK, SyncedOK
<1>2. CASE UNCHANGED <<frames, limit>>
  BY <1>1, <1>2 DEF LimitsOK
<1>3. ASSUME NEW n \in Payloads, BeginAppend(n) PROVE LimitsOK'
  <2>1. frames' = Append(frames, Encoded(n)) /\ limit' = limit /\ EncodedSize(n) <= limit
    BY <1>3 DEF BeginAppend
  <2>2. Encoded(n).length = n /\ \A l \in Limits : n <= l
    BY <1>1, <2>1 DEF LimitsAgree, Encoded
  <2>3. \A k \in 1..Len(frames') : (k \in 1..Len(frames) /\ frames'[k] = frames[k])
                                   \/ frames'[k] = Encoded(n)
    BY <1>1, <2>1
  <2> QED BY <1>1, <2>1, <2>2, <2>3 DEF LimitsOK
<1>4. ASSUME NEW j \in 0..Len(frames), frames' = SubSeq(frames, 1, j), limit' \in Limits
      PROVE  LimitsOK'
  <2>1. \A k \in 1..Len(frames') : k \in 1..Len(frames) /\ frames'[k] = frames[k]
    BY <1>1, <1>4
  <2> QED BY <1>1, <1>4, <2>1 DEF LimitsOK
<1>5. CASE PowerLoss
  <2>1. limit' = limit
    BY <1>5 DEF PowerLoss
  <2>2. CASE frames' = SubSeq(frames, 1, synced)
    BY <1>1, <1>4, <2>1, <2>2
  <2>3. CASE \E k \in (synced + 1)..Len(frames) :
               \E f \in {frames[k]} \cup Damaged(frames[k]) :
                 frames' = Append(SubSeq(frames, 1, k - 1), f)
    <3>a. PICK k \in (synced + 1)..Len(frames) :
            \E f \in {frames[k]} \cup Damaged(frames[k]) :
              frames' = Append(SubSeq(frames, 1, k - 1), f)
      BY <2>3
    <3>1. PICK f \in {frames[k]} \cup Damaged(frames[k]) :
            frames' = Append(SubSeq(frames, 1, k - 1), f)
      BY <3>a
    <3>2. k \in 1..Len(frames) /\ k \in Nat /\ frames[k] \in FrameType
      BY <1>1
    <3>3. \A l \in Limits : f.length <= l
      <4>1. f.length = frames[k].length \/ f.length = 0
        <5>1. PICK g \in FrameType : g = frames[k]
          BY <3>2
        <5>2. [g EXCEPT !.intact = FALSE].length = g.length
              /\ [g EXCEPT !.intact = FALSE, !.length = 0].length = 0
          BY DEF FrameType
        <5> QED BY <3>1, <5>1, <5>2 DEF Damaged
      <4> QED BY <1>1, <3>2, <4>1
    <3>4. \A i \in 1..Len(frames') : (i \in 1..Len(frames) /\ frames'[i] = frames[i])
                                     \/ frames'[i] = f
      <4>1. PICK t : t = SubSeq(frames, 1, k - 1)
        OBVIOUS
      <4>2. /\ t \in Seq(FrameType) /\ Len(t) = k - 1
            /\ \A i \in 1..(k - 1) : t[i] = frames[i] /\ i \in 1..Len(frames)
        BY <1>1, <3>2, <4>1
      <4>3. PICK u : u = frames'
        OBVIOUS
      <4>4. u = Append(t, f) /\ f \in FrameType
        <5>1. f \in FrameType
          <6>1. PICK g \in FrameType : g = frames[k]
            BY <3>2
          <6>2. /\ [g EXCEPT !.intact = FALSE] \in FrameType
                /\ [g EXCEPT !.intact = FALSE, !.length = 0] \in FrameType
            BY DEF FrameType
          <6> QED BY <3>1, <6>1, <6>2 DEF Damaged
        <5> QED BY <3>1, <4>1, <4>3, <5>1
      <4>5. Len(u) = k /\ u[k] = f /\ \A i \in 1..(k - 1) : u[i] = t[i]
        BY <3>2, <4>2, <4>4
      <4>6. \A i \in 1..k : i \in 1..(k - 1) \/ i = k
        BY <3>2
      <4> QED BY <4>2, <4>3, <4>5, <4>6
    <3> QED BY <1>1, <2>1, <3>3, <3>4 DEF LimitsOK
  <2> QED BY <1>5, <2>2, <2>3 DEF PowerLoss
<1>6. CASE \E l \in Limits : Open(l)
  BY <1>1, <1>6 DEF Open, LimitsOK, file
<1>7. CASE Recovered
  <2>1. scanned \in 0..Len(frames) /\ frames' = SubSeq(frames, 1, scanned) /\ limit' = limit
    BY <1>7, Verdict DEF Recovered, Chopped
  <2> QED BY <1>1, <1>4, <2>1
<1> QED BY <1>2, <1>3, <1>5, <1>6, <1>7
        DEF Next, WriteBytes, EndAppend, Sync, Kill, ScanNext, vars, file

\* So no record is refused for its size.
LEMMA NeverTooLarge ==
  ASSUME ScannerInv, LimitsOK, mode = "scan"
  PROVE  err # "tooLarge"
<1> SUFFICES ASSUME err = "tooLarge" PROVE FALSE
  OBVIOUS
<1>1. /\ scanned \in Nat /\ Len(frames) \in Nat /\ scanned < Len(frames)
      /\ frames[scanned + 1].length > limit
  BY Verdict, EndType DEF ScannerInv
<1>2. scanned + 1 \in 1..Len(frames) /\ limit \in Nat
  BY <1>1 DEF LimitsOK
<1>3. frames[scanned + 1].length \in Nat /\ frames[scanned + 1].length <= limit
  BY <1>2, EndType DEF ScannerInv, LimitsOK
<1> QED BY <1>1, <1>2, <1>3

\* Limits that agree keep doing so.
LEMMA LimitsHold ==
  ASSUME LimitsAgree
  PROVE  Spec => [](ScannerInv /\ LimitsOK)
<1>1. Init => LimitsOK
  <2>1. ASSUME Init PROVE Len(frames) = 0 /\ \A k \in 1..0 : FALSE
    BY <2>1 DEF Init
  <2> QED BY <2>1 DEF Init, LimitsOK
<1>2. ScannerInv /\ LimitsOK /\ [Next]_vars => LimitsOK'
  BY LimitsStep
<1> QED BY <1>1, <1>2, ScannerInvariant, PTL DEF Spec

\* The scanner returns the longest prefix of whole records, and ends cleanly
\* exactly at the end of the file (Scanner.Next, scanner.go).
THEOREM ScanFindsPrefixHolds ==
  ASSUME LimitsAgree
  PROVE  Spec => []ScanFindsPrefix
<1>1. ScannerInv /\ LimitsOK => ScanFindsPrefix
  <2> SUFFICES ASSUME ScannerInv, LimitsOK, mode = "scan", err # "none"
               PROVE  /\ Whole(scanned) /\ ~Whole(scanned + 1)
                      /\ offset = Bytes(SubSeq(frames, 1, scanned))
                      /\ err = "eof" <=> size = offset
    BY DEF ScanFindsPrefix
  <2>1. /\ Chained(frames) /\ Len(frames) \in Nat /\ size \in Nat
        /\ size <= EndOf(frames, Len(frames)) /\ err # "tooLarge"
    BY EndType, NeverTooLarge DEF ScannerInv, SizeOK
  <2>2. /\ scanned \in 0..Len(frames) /\ scanned \in Nat /\ IntactTo(frames, scanned)
        /\ offset = EndOf(frames, scanned) /\ offset <= size
        /\ err = "eof" <=> size = offset
        /\ scanned < Len(frames) =>
             ~(EndOf(frames, scanned + 1) <= size /\ frames[scanned + 1].intact)
    BY <2>1, Verdict
  <2>3. scanned <= Len(frames)
    BY <2>1, <2>2
  <2>4. Whole(scanned)
    BY <2>1, <2>2, <2>3, WholeIff
  <2>5. ~Whole(scanned + 1)
    <3> SUFFICES ASSUME Whole(scanned + 1) PROVE FALSE
      OBVIOUS
    <3>1. /\ scanned + 1 <= Len(frames) /\ EndOf(frames, scanned + 1) <= size
          /\ IntactTo(frames, scanned + 1)
      <4>1. scanned + 1 \in Nat
        BY <2>2
      <4> QED BY <2>1, <4>1, WholeIff
    <3>2. scanned < Len(frames) /\ scanned + 1 \in 1..(scanned + 1)
      BY <2>1, <2>2, <3>1
    <3>3. frames[scanned + 1].intact
      BY <3>1, <3>2 DEF IntactTo
    <3> QED BY <2>2, <3>1, <3>2, <3>3
  <2>6. offset = Bytes(SubSeq(frames, 1, scanned))
    BY <2>1, <2>2, PrefixChained
  <2> QED BY <2>2, <2>4, <2>5, <2>6
<1> QED BY <1>1, LimitsHold, PTL

\* Of a file that has not been through a power loss the scanner never says
\* ErrCorrupt, whatever kill cut an append short (scanner.go:11).
THEOREM KilledIsTornHolds ==
  ASSUME LimitsAgree
  PROVE  Spec => []KilledIsTorn
<1>1. ScannerInv /\ LimitsOK => KilledIsTorn
  <2> SUFFICES ASSUME ScannerInv, LimitsOK, mode = "scan", ~lost, err # "none"
               PROVE  err \in {"eof", "torn"}
    BY DEF KilledIsTorn
  <2>1. /\ err \in {"eof", "torn", "tooLarge", "corrupt"} /\ scanned \in Nat
        /\ err = "corrupt" => scanned < Len(frames) /\ ~frames[scanned + 1].intact
    BY Verdict
  <2>2. err # "tooLarge"
    BY NeverTooLarge
  <2>3. ASSUME scanned < Len(frames) PROVE frames[scanned + 1].intact
    <3>1. IntactTo(frames, Len(frames)) /\ Len(frames) \in Nat
      BY EndType DEF ScannerInv, ModeOK
    <3>2. scanned + 1 \in 1..Len(frames)
      BY <2>1, <2>3, <3>1
    <3> QED BY <3>1, <3>2 DEF IntactTo
  <2> QED BY <2>1, <2>2, <2>3
<1> QED BY <1>1, LimitsHold, PTL

\* Neither a power loss nor the truncation behind it (truncateTornTail,
\* wal.go:253) takes a record that was fsynced.
THEOREM SyncedKeptHolds ==
  ASSUME LimitsAgree
  PROVE  Spec => SyncedKept
<1>1. ASSUME ScannerInv, LimitsOK, [Next]_vars
      PROVE  [synced <= Len(frames')]_vars
  <2>1. /\ Chained(frames) /\ frames \in Seq(FrameType) /\ Len(frames) \in Nat
        /\ synced \in 0..Len(frames) /\ synced <= Len(frames)
        /\ IntactTo(frames, synced) /\ EndOf(frames, synced) <= size /\ size \in Nat
    BY <1>1, EndType DEF ScannerInv, SyncedOK, SizeOK
  <2>2. CASE UNCHANGED frames
    BY <2>1, <2>2
  <2>3. CASE \E n \in Payloads : BeginAppend(n)
    <3>1. PICK n \in Payloads : frames' = Append(frames, Encoded(n))
      BY <2>3 DEF BeginAppend
    <3>2. Len(frames') = Len(frames) + 1
      BY <2>1, <3>1
    <3> QED BY <2>1, <3>2
  <2>4. CASE PowerLoss
    BY <1>1, <2>4, PowerLossStep
  <2>5. CASE Recovered
    <3>1. /\ scanned \in 0..Len(frames) /\ scanned \in Nat
          /\ scanned < Len(frames) =>
               ~(EndOf(frames, scanned + 1) <= size /\ frames[scanned + 1].intact)
      BY <1>1, <2>5, Verdict, NeverTooLarge DEF Recovered
    <3>2. frames' = SubSeq(frames, 1, scanned) /\ Len(frames') = scanned
      BY <2>1, <2>5, <3>1 DEF Recovered, Chopped
    <3>3. ASSUME scanned < synced PROVE FALSE
      <4>1. /\ scanned + 1 \in 1..synced /\ scanned + 1 \in 0..Len(frames)
            /\ scanned < Len(frames)
        BY <2>1, <3>1, <3>3
      <4>2. frames[scanned + 1].intact
        BY <2>1, <4>1 DEF IntactTo
      <4>3. scanned + 1 = synced \/ scanned + 1 < synced
        BY <2>1, <4>1
      <4>4. EndOf(frames, scanned + 1) \in Nat /\ EndOf(frames, synced) \in Nat
        BY <2>1, <4>1, EndType
      <4>5. scanned + 1 < synced => EndOf(frames, scanned + 1) < EndOf(frames, synced)
        BY <2>1, <4>1, EndAscends
      <4>6. EndOf(frames, scanned + 1) <= size
        BY <2>1, <4>3, <4>4, <4>5
      <4> QED BY <3>1, <4>1, <4>2, <4>6
    <3> QED BY <2>1, <3>1, <3>2, <3>3
  <2> QED BY <1>1, <2>2, <2>3, <2>4, <2>5
          DEF Next, WriteBytes, EndAppend, Sync, Kill, Open, ScanNext, vars, file
<1> QED BY <1>1, LimitsHold, PTL DEF Spec, SyncedKept
=============================================================================

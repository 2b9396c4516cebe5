--------------------------- MODULE RecordScanner ---------------------------
(***************************************************************************)
(* The records of one segment file as bytes: what Encode and Append write, *)
(* what a stop leaves of it, and what Scanner and the truncation of the    *)
(* torn tail make of that.  WalStore takes the outcome for granted: its    *)
(* files are records with junk behind them.                                *)
(*                                                                         *)
(* A frame is where it starts, the record's Length field, the payload      *)
(* bytes it takes in the file and whether its checksum matches; sizes are  *)
(* what the code counts, in any unit.                                      *)
(***************************************************************************)
EXTENDS Naturals, Sequences

CONSTANTS
  HeaderSize,   \* record.HeaderSize
  Payloads,     \* sizes of the payloads appended
  Limits,       \* maxRecordSize, of each Open
  MaxRecords    \* bound: records appended

ASSUME RecordScannerAssumption ==
  /\ HeaderSize \in Nat \ {0}
  /\ Payloads \subseteq Nat /\ Limits \subseteq Nat /\ MaxRecords \in Nat

VARIABLES
  frames,   \* the frames in the file, the last one perhaps cut short
  size,     \* bytes in the file
  synced,   \* frames a power loss cannot take
  limit,    \* maxRecordSize of the process that has the file open
  mode,     \* "down", "open", "scan" or, in the middle of Append, "append"
  scanned,  \* Scanner: records returned
  offset,   \* Scanner: validBytes
  err,      \* Scanner: how it has stopped
  appended, \* history: records appended
  lost      \* history: the file has been through a power loss since it was
            \* last recovered

file == <<frames, size, synced>>
scanner == <<scanned, offset, err>>
history == <<appended, lost>>
vars == <<file, limit, mode, scanner, history>>

EncodedSize(n) == HeaderSize + n

\* Where the frames fs end.
FrameEnd(f) == f.start + EncodedSize(f.payload)
Bytes(fs) == IF fs = << >> THEN 0 ELSE FrameEnd(fs[Len(fs)])

\* Encode, for the end of the file.
Encoded(n) ==
  [start |-> Bytes(frames), length |-> n, payload |-> n, intact |-> TRUE]

-----------------------------------------------------------------------------
(* Append, Sync, and the ways to stop.                                     *)

\* AppendBatch refuses a record above the limit; the write begins.
BeginAppend(n) ==
  /\ mode = "open" /\ appended < MaxRecords
  /\ EncodedSize(n) <= limit
  /\ frames' = Append(frames, Encoded(n))
  /\ appended' = appended + 1
  /\ mode' = "append"
  /\ UNCHANGED <<size, synced, limit, scanner, lost>>

\* WriteAt writes the frame from its first byte to its last.
WriteBytes ==
  /\ mode = "append" /\ size < Bytes(frames)
  /\ size' = size + 1
  /\ UNCHANGED <<frames, synced, limit, mode, scanner, history>>

EndAppend ==
  /\ mode = "append" /\ size = Bytes(frames)
  /\ mode' = "open"
  /\ UNCHANGED <<file, limit, scanner, history>>

Sync ==
  /\ mode = "open"
  /\ synced' = Len(frames)
  /\ UNCHANGED <<frames, size, limit, mode, scanner, history>>

Kill ==
  /\ mode # "down"
  /\ mode' = "down"
  /\ UNCHANGED <<file, limit, scanner, history>>

(***************************************************************************)
(* The file ends anywhere in the first frame that was not synced, or       *)
(* later; of that frame the payload or all of it may have been lost.  What *)
(* is behind a damaged frame is never reached.                             *)
(***************************************************************************)
Damaged(f) == {[f EXCEPT !.intact = FALSE],
               [f EXCEPT !.intact = FALSE, !.length = 0]}

PowerLoss ==
  /\ mode # "down"
  /\ mode' = "down" /\ lost' = TRUE
  /\ \/ frames' = SubSeq(frames, 1, synced) /\ size' = Bytes(frames')
     \/ \E k \in (synced + 1)..Len(frames) :
          LET before == SubSeq(frames, 1, k - 1) IN
          /\ \E f \in {frames[k]} \cup Damaged(frames[k]) : frames' = Append(before, f)
          /\ size' \in Bytes(before)..Bytes(frames')
          /\ size' <= size
  /\ UNCHANGED <<synced, limit, scanner, appended>>

-----------------------------------------------------------------------------
(* Scanner, and truncateTornTail.                                          *)

NewScanner == scanned' = 0 /\ offset' = 0 /\ err' = "none"

Open(l) ==
  /\ mode = "down"
  /\ limit' = l
  /\ mode' = "scan" /\ NewScanner
  /\ UNCHANGED <<file, history>>

Left == size - offset
Frame == frames[scanned + 1]

\* Mutants: a short payload is not noticed; a short header is a clean end; a
\* record is checked before it is known to be all there.
ShortPayloadRead ==
  IF Left = 0 THEN "eof"
  ELSE IF Left < HeaderSize THEN "torn"
  ELSE IF Frame.intact THEN "record" ELSE "corrupt"

ShortHeaderIsEOF ==
  IF Left < HeaderSize THEN "eof"
  ELSE IF Left - HeaderSize < Frame.length THEN "torn"
  ELSE IF Frame.intact THEN "record" ELSE "corrupt"

CheckedFirst ==
  IF Left = 0 THEN "eof"
  ELSE IF Left < HeaderSize THEN "torn"
  ELSE IF Left - HeaderSize < Frame.length \/ ~Frame.intact THEN "corrupt"
  ELSE "record"

\* Next.
Outcome ==
  IF Left = 0 THEN "eof"
  ELSE IF Left < HeaderSize THEN "torn"
  ELSE IF Frame.length > limit THEN "tooLarge"
  ELSE IF Left - HeaderSize < Frame.length THEN "torn"
  ELSE IF ~Frame.intact THEN "corrupt"
  ELSE "record"

ScanNext ==
  /\ mode = "scan" /\ err = "none"
  /\ IF Outcome = "record"
     THEN /\ scanned' = scanned + 1
          /\ offset' = offset + EncodedSize(Frame.length)
          /\ UNCHANGED err
     ELSE err' = Outcome /\ UNCHANGED <<scanned, offset>>
  /\ UNCHANGED <<file, limit, mode, history>>

\* Mutant: the last record goes with what is torn behind it.
ChoppedBefore == SubSeq(frames, 1, IF scanned = 0 THEN 0 ELSE scanned - 1)

Chopped == SubSeq(frames, 1, scanned)

\* A clean end leaves the file as it is.
Recovered ==
  /\ mode = "scan" /\ err # "none"
  /\ frames' = Chopped
  /\ IF err = "eof" THEN UNCHANGED <<size, synced>>
     ELSE size' = offset /\ synced' = scanned
  /\ mode' = "open" /\ lost' = FALSE
  /\ NewScanner
  /\ UNCHANGED <<limit, appended>>

Init ==
  /\ frames = << >> /\ size = 0 /\ synced = 0
  /\ limit \in Limits /\ mode = "open"
  /\ scanned = 0 /\ offset = 0 /\ err = "none"
  /\ appended = 0 /\ lost = FALSE

Next ==
  \/ \E n \in Payloads : BeginAppend(n)
  \/ WriteBytes \/ EndAppend \/ Sync \/ Kill \/ PowerLoss
  \/ \E l \in Limits : Open(l)
  \/ ScanNext \/ Recovered

Spec == Init /\ [][Next]_vars

-----------------------------------------------------------------------------
(* Properties.                                                             *)

\* The first k frames are all there and undamaged.
Whole(k) ==
  /\ k <= Len(frames) /\ Bytes(SubSeq(frames, 1, k)) <= size
  /\ \A i \in 1..k : frames[i].intact

(***************************************************************************)
(* A scan returns the longest prefix of whole records, its offset is the   *)
(* end of that prefix, and only a file that ends there ends cleanly.       *)
(***************************************************************************)
ScanFindsPrefix ==
  mode = "scan" /\ err # "none" =>
    /\ Whole(scanned) /\ ~Whole(scanned + 1)
    /\ offset = Bytes(SubSeq(frames, 1, scanned))
    /\ err = "eof" <=> size = offset

(***************************************************************************)
(* No recovery, and no series of them with stops in between, takes a       *)
(* record that was fsynced.                                                *)
(***************************************************************************)
SyncedKept == [][synced <= Len(frames')]_vars

(***************************************************************************)
(* The next record goes right behind the last whole one: nothing that a    *)
(* stop has left stays in the file, where it would end the scan of a       *)
(* sealed segment early.                                                   *)
(***************************************************************************)
ReadyToAppend == mode = "open" => Whole(Len(frames)) /\ size = Bytes(frames)

(***************************************************************************)
(* Of a record whose write was not finished, by a stop or because a reader *)
(* is faster, the scanner says ErrTorn (scanner.go:11), which a reader     *)
(* takes for the end of the segment, and not corruption.                   *)
(***************************************************************************)
KilledIsTorn == mode = "scan" /\ ~lost => err \in {"none", "eof", "torn"}

(***************************************************************************)
(* wal.go:253: truncateTornTail chops an incomplete record off the final   *)
(* segment.                                                                *)
(***************************************************************************)
OnlyIncompleteChopped ==
  mode = "scan" /\ err \notin {"none", "eof"} => ~Whole(scanned + 1)
=============================================================================

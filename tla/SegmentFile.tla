---------------------------- MODULE SegmentFile ----------------------------
(***************************************************************************)
(* One segment file of the log as internal/segment sees it: a header       *)
(* followed by framed records, of which only a prefix is known to be on    *)
(* stable storage.  Everything here is a constant-level operator on the    *)
(* contents of one file; directories and names are in WalState.            *)
(*                                                                         *)
(* A record is its LSN, the incarnation (Open call) of the process that    *)
(* wrote it, which identifies the payload, and its encoded size in units.  *)
(* The fixed 28 header bytes are not counted in any size.                  *)
(***************************************************************************)
EXTENDS Integers, Sequences, FiniteSets, Functions

Rec == [lsn : Nat, gen : Nat, size : Nat]

(***************************************************************************)
(* hdr    : "absent" (no readable header), "cached" (written, not fsynced) *)
(*          or "durable";                                                  *)
(* data   : the records in the file, as the page cache shows them;         *)
(* synced : how many of them a power failure cannot take away;             *)
(* junk   : units of undecodable bytes after the last record.              *)
(***************************************************************************)
File == [hdr : {"absent", "cached", "durable"},
         data : Seq(Rec), synced : Nat, junk : Nat]

\* The file O_CREATE|O_EXCL leaves: empty, not even a header.
NewFile == [hdr |-> "absent", data |-> << >>, synced |-> 0, junk |-> 0]

\* fsync of the file (Segment.Sync, and the file.Sync of Create).
Fsynced(f) ==
  [f EXCEPT !.synced = Len(f.data),
            !.hdr = IF f.hdr = "cached" THEN "durable" ELSE f.hdr]

\* Bytes of records, the tracked Segment.size less the header.
Bytes(f) == SumFunction([i \in DOMAIN f.data |-> f.data[i].size])

(***************************************************************************)
(* Segment.Append writes at the tracked size, which excludes what a failed *)
(* write left behind, so a record overwrites as much of it as it is long.  *)
(***************************************************************************)
Appended(f, r) ==
  [f EXCEPT !.data = Append(f.data, r),
            !.junk = IF f.junk > r.size THEN f.junk - r.size ELSE 0]

\* A WriteAt that fails in its n-th unit: the tracked size does not move.
PartlyWritten(f, n) == [f EXCEPT !.junk = IF f.junk > n THEN f.junk ELSE n]

(***************************************************************************)
(* ScanResult of Segment.Scan: the records up to the first that does not   *)
(* decode, and whether scanning stopped early.                             *)
(***************************************************************************)
ScanRecords(f) == Len(f.data)
ScanLastLSN(f) == IF f.data = << >> THEN 0 ELSE f.data[Len(f.data)].lsn
ScanFails(f) == f.junk > 0

\* Segment.TruncateTo(ValidEnd): the torn tail is cut off, the rest fsynced.
TruncatedToValidEnd(f) == Fsynced([f EXCEPT !.junk = 0])

(***************************************************************************)
(* RewriteFrom copies the records whose LSN is at least fromLSN into a new *)
(* file and fsyncs it.  LSNs ascend in a file, so they are a suffix.       *)
(***************************************************************************)
\* Mutants: the bound is off by one.
FirstKeptTooLow(data, fromLSN) ==
  Cardinality({i \in DOMAIN data : data[i].lsn + 1 < fromLSN}) + 1
FirstKeptTooHigh(data, fromLSN) ==
  Cardinality({i \in DOMAIN data : data[i].lsn <= fromLSN}) + 1

FirstKept(data, fromLSN) ==
  Cardinality({i \in DOMAIN data : data[i].lsn < fromLSN}) + 1

Rewritten(f, fromLSN) ==
  LET kept == SubSeq(f.data, FirstKept(f.data, fromLSN), Len(f.data))
  IN  [hdr |-> "durable", data |-> kept, synced |-> Len(kept), junk |-> 0]

(***************************************************************************)
(* Power failure.  Of the records written since the last fsync a prefix    *)
(* survives (recovery ignores whatever survives behind the first missing   *)
(* one); the first lost record may leave undecodable bytes; a header that  *)
(* was not fsynced may be lost.  What survives is on stable storage.       *)
(***************************************************************************)
HasUnsynced(f) == f.hdr = "cached" \/ f.synced < Len(f.data)

MaySurvive(f, keep, torn) ==
  /\ keep \in f.synced..Len(f.data)
  /\ torn => keep < Len(f.data) \/ f.junk > 0 \/ f.hdr = "cached"

AfterPowerLoss(f, keep, torn) ==
  [hdr |-> IF f.hdr = "cached" /\ torn THEN "absent"
           ELSE Fsynced(f).hdr,
   data |-> SubSeq(f.data, 1, keep),
   synced |-> keep,
   junk |-> IF torn THEN 1 ELSE 0]
=============================================================================

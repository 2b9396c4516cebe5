----------------------------- MODULE WalReader -----------------------------
(***************************************************************************)
(* The cursor of NewReader and Replay, over files that the writer adds to, *)
(* deletes and replaces while they are read.  Also the scan of a follower  *)
(* (WalFollower).                                                          *)
(*                                                                         *)
(* An open file stays readable after it is unlinked.  The reader sees      *)
(* records of a file that were written after it opened it, or, while such  *)
(* a record is being written, the torn beginning of it; all of them lie    *)
(* above its snapshot.                                                     *)
(***************************************************************************)
EXTENDS SharedLog, Sequences

CONSTANT MaxLSN   \* bound: no record is assigned an LSN above it

ASSUME WalReaderAssumption == MaxLSN \in Nat

VARIABLES
  cursor,   \* the Reader
  seen      \* LSNs it has yielded, in order

reader == <<cursor, seen>>

(***************************************************************************)
(* step: before NewReader, between two segments, with one to look for      *)
(* again, in one, or at an end: of the snapshot, on an error, by Close.    *)
(* start and end are the window, from what is left of it; names are the    *)
(* segments still to read, missing one that was gone; file is the open     *)
(* segment and top its end when it was unlinked.                           *)
(***************************************************************************)
NoCursor == [step |-> "new", start |-> 0, from |-> 0, end |-> 0, names |-> {},
             missing |-> 0, file |-> 0, top |-> 0]

Finished == {"ended", "failed", "closed"}
CursorTypeOK ==
  /\ cursor \in [step : {"new", "next", "relist", "scan"} \cup Finished,
                 start : Nat, from : Nat, end : Nat, names : SUBSET Nat,
                 missing : Nat, file : Nat, top : Nat]
  /\ seen \in Seq(Nat)

\* Mutant: the end of the window is exclusive.
HalfOpen(from, end) ==
  cursor' = [NoCursor EXCEPT
    !.step = IF from > end THEN "ended" ELSE "next",
    !.start = from, !.from = from, !.end = end - 1, !.names = bases]

\* newReaderFrom, on the index as it is now.
NewCursor(from, end) ==
  cursor' = [NoCursor EXCEPT
    !.step = IF end = 0 \/ from > end THEN "ended" ELSE "next",
    !.start = from, !.from = from, !.end = end, !.names = bases]

\* finish: the current segment is closed.
Stopped(how) == [NoCursor EXCEPT !.step = how, !.start = cursor.start, !.end = cursor.end]

NewReader(from) ==
  /\ open /\ cursor.step = "new"
  /\ NewCursor(from, lastLSN)
  /\ UNCHANGED <<log, seen>>

-----------------------------------------------------------------------------
(* openNext and relistAfter.                                               *)

OpenNext == \E b \in cursor.names :
  /\ cursor.step = "next" /\ IsMin(b, cursor.names)
  /\ cursor' = IF b \in DOMAIN segs
               THEN [cursor EXCEPT !.step = "scan", !.names = @ \ {b}, !.file = b]
               ELSE [cursor EXCEPT !.step = "relist", !.names = @ \ {b}, !.missing = b]
  /\ UNCHANGED <<log, seen>>

\* Mutants: the segment is skipped, as if Truncate had deleted it; the oldest
\* of the segments found is taken to be the missing one.
NotRelisted == cursor.names
RelistedAbove ==
  {b \in DOMAIN segs : b > cursor.missing /\ ~IsMin(b, DOMAIN segs)}

Relisted == {b \in DOMAIN segs : b > cursor.missing}

Relist ==
  /\ cursor.step = "relist"
  /\ cursor' = [cursor EXCEPT !.step = "next", !.names = Relisted, !.missing = 0]
  /\ UNCHANGED <<log, seen>>

Exhausted ==
  /\ cursor.step = "next" /\ cursor.names = {}
  /\ cursor' = Stopped("ended")
  /\ UNCHANGED <<log, seen>>

-----------------------------------------------------------------------------
(* Next and accept, in the open segment.                                   *)

Top == IF cursor.file \in DOMAIN segs THEN segs[cursor.file] ELSE cursor.top

\* The first record that is not skipped, if the file has it.
NextRecord == IF cursor.from < cursor.file THEN cursor.file ELSE cursor.from
HasNext == cursor.step = "scan" /\ NextRecord < Top

Accepts(n) == HasNext /\ n = NextRecord /\ n <= cursor.end

\* Mutant: the window does not advance past what was yielded.
NotAdvanced(n) == cursor.from

Advanced(n) == n + 1

\* Advanced past n, and the record read: within the file, the next one.
Yield(n) ==
  /\ Accepts(n)
  /\ cursor' = [cursor EXCEPT !.from = Advanced(n)]
  /\ seen' = Append(seen, n)
  /\ UNCHANGED log

BeyondSnapshot ==
  /\ HasNext /\ NextRecord > cursor.end
  /\ cursor' = Stopped("ended")
  /\ UNCHANGED <<log, seen>>

\* A clean end or a torn record.
EndOfSegment ==
  /\ cursor.step = "scan"
  /\ ~HasNext \/ NextRecord > cursor.end
  /\ cursor' = [cursor EXCEPT !.step = "next", !.file = 0, !.top = 0]
  /\ UNCHANGED <<log, seen>>

\* ErrCorrupt, where a failed write has left a record, or a file or the
\* directory that cannot be read.
ReadFails ==
  /\ cursor.step \in {"next", "relist", "scan"}
  /\ cursor.step = "next" => cursor.names # {}
  /\ cursor' = Stopped("failed")
  /\ UNCHANGED <<log, seen>>

\* Reader.Close; Replay calls it when its callback returns an error.
CloseReader ==
  /\ cursor.step \in {"next", "scan"}
  /\ cursor' = Stopped("closed")
  /\ UNCHANGED <<log, seen>>

Scan == OpenNext \/ Relist \/ Exhausted \/ BeyondSnapshot \/ EndOfSegment

Read ==
  \/ \E from \in 0..(MaxLSN + 1) : NewReader(from)
  \/ Scan \/ (\E n \in 1..MaxLSN : Yield(n)) \/ ReadFails \/ CloseReader

\* The writer takes a step; a file that it unlinks stays open.
Unlinks == cursor.file \in DOMAIN segs /\ cursor.file \notin DOMAIN segs'

Beside(step) ==
  /\ step /\ nextLSN' <= MaxLSN + 1
  /\ cursor' = IF Unlinks THEN [cursor EXCEPT !.top = segs[cursor.file]] ELSE cursor
  /\ UNCHANGED seen

-----------------------------------------------------------------------------

\* An empty log.
NewLog ==
  /\ open = TRUE
  /\ segs = [b \in {1} |-> 1] /\ bases = {1}
  /\ nextLSN = 1 /\ firstLSN = 0 /\ lastLSN = 0
  /\ drop = NoDrop

ReaderInit == NewLog /\ cursor = NoCursor /\ seen = << >>

readerVars == <<log, reader>>

(***************************************************************************)
(* A reader that ends without an error has yielded every record of its     *)
(* window that is still on disk: what it has missed was deleted, never     *)
(* skipped because a cut moved it into a file the snapshot does not name.  *)
(***************************************************************************)
ReaderComplete ==
  cursor.step = "ended" =>
    \A n \in cursor.start..cursor.end : OnDisk(n) => n \in Range(seen)

(***************************************************************************)
(* Records come in ascending order and once each, also where a cut has put *)
(* the same records into two files.                                        *)
(***************************************************************************)
YieldsAscend ==
  \A i, j \in DOMAIN seen : i < j => seen[i] < seen[j]
=============================================================================

---------------------------- MODULE WalRecovery ----------------------------
(***************************************************************************)
(* Open: the recovery of a log from whatever its directory holds.  The     *)
(* deletions are durable one by one, so a crash in the middle of recovery  *)
(* is recovered from by the next Open.                                     *)
(***************************************************************************)
EXTENDS WalState, SequencesExt

OnDisk(base) == files[dir[base]]

Closed == pc = "closed"

\* segment.List: the segments in the directory. They are taken from the list
\* in ascending order.
Listed == DOMAIN dir

\* Leftover temporary files are removed, and the directory fsynced if there were
\* any; then the segments are listed.
OpenDir ==
  /\ Closed
  /\ temps' = {}
  /\ durableDir' = IF temps = {} THEN durableDir ELSE dir
  /\ files' = Collected(files, Live(dir, durableDir', active, fresh))
  /\ IF DOMAIN dir = {}
     THEN /\ job' = [NoJob EXCEPT !.kind = "init", !.base = 1]
          /\ pc' = "createOpen"
     ELSE /\ job' = [NoJob EXCEPT !.kind = "recover", !.paths = Listed]
          /\ pc' = "scan"
  /\ UNCHANGED <<dir, mem, batch, fresh, gen, faults, hist>>

\* Open returns an error and the process has no WAL.
OpenFails ==
  /\ pc' = "closed"
  /\ job' = NoJob

\* initEmptyLog, once the first segment is created.
InstallEmpty ==
  /\ pc = "installEmpty"
  /\ active' = fresh
  /\ index' = <<1>>
  /\ nextLSN' = 1
  /\ pc' = "idle"
  /\ job' = NoJob
  /\ fresh' = Nil
  /\ crashed' = {} /\ corrupt' = FALSE
  /\ UNCHANGED <<disk, firstLSN, lastLSN, batch, gen, faults, acked, promised,
                 floor, cutDone>>

-----------------------------------------------------------------------------
(* openAndScanSegments.  job.idx holds the segments collected so far.      *)

Scanning == pc = "scan" /\ job.paths # {}
Path == Min(job.paths)
IsFirst == job.idx = << >>
IsFinal == job.paths = {Path}

\* A base below the expected one is the mark of an interrupted cut.
Overlaps == ~IsFirst /\ Path < job.expected
Gap == ~IsFirst /\ Path > job.expected

\* No readable header, a gap, or damage before the final segment.
Unrecoverable ==
  \/ OnDisk(Path).hdr = "absent"
  \/ Gap
  \/ ~Overlaps /\ ScanFails(OnDisk(Path)) /\ ~IsFinal

ScanSegment ==
  /\ Scanning
  /\ ~Unrecoverable
  /\ ~Overlaps
  /\ job' = [job EXCEPT !.paths = job.paths \ {Path},
                        !.idx = Append(job.idx, Path),
                        !.expected = Path + ScanRecords(OnDisk(Path))]
  /\ UNCHANGED <<disk, mem, pc, batch, fresh, gen, faults, hist>>

OpenCorrupt ==
  /\ Scanning
  /\ Unrecoverable
  /\ corrupt' = TRUE
  /\ OpenFails
  /\ UNCHANGED <<disk, mem, batch, fresh, gen, faults, acked, promised, floor,
                 cutDone, crashed>>

(***************************************************************************)
(* reconcileBoundary: the overlapping segment supersedes those collected,  *)
(* which are deleted; scanning restarts with it.                           *)
(***************************************************************************)
Reconcile ==
  /\ Scanning
  /\ ~Unrecoverable
  /\ Overlaps
  /\ job' = [job EXCEPT !.names = job.idx, !.idx = << >>]
  /\ pc' = "reconcile"
  /\ UNCHANGED <<disk, mem, batch, fresh, gen, faults, hist>>

Reconciled ==
  /\ pc = "reconcile" /\ job.names = << >>
  /\ pc' = "scan"
  /\ UNCHANGED <<disk, mem, batch, job, fresh, gen, faults, hist>>

-----------------------------------------------------------------------------
(* truncateTornTail, pruneEmptyTrailing and installState.                  *)

LastCollected == job.idx[Len(job.idx)]

\* The segments of a log that are kept open once recovery ends: up to the
\* last one with a record, all of them if none has one.
WithRecords == {i \in DOMAIN job.idx : ScanRecords(OnDisk(job.idx[i])) > 0}

ActiveIdx == IF WithRecords = {} THEN Len(job.idx) ELSE Max(WithRecords)

\* Mutant: the empty segments are dropped from the index only.
PruneNothing == << >>

\* What pruneEmptyTrailing deletes, in the order it does.
Prunable ==
  Reverse(SubSeq(job.idx, ActiveIdx + 1, Len(job.idx)))
    \o (IF WithRecords = {} THEN SubSeq(job.idx, 2, Len(job.idx)) ELSE << >>)

Survivors ==
  IF WithRecords = {} THEN <<job.idx[1]>> ELSE SubSeq(job.idx, 1, ActiveIdx)

TruncateTornTail ==
  /\ pc = "scan" /\ job.paths = {}
  /\ files' = IF ScanFails(OnDisk(LastCollected))
              THEN [files EXCEPT ![dir[LastCollected]] =
                      TruncatedToValidEnd(OnDisk(LastCollected))]
              ELSE files
  /\ job' = [job EXCEPT !.names = Prunable, !.idx = Survivors]
  /\ pc' = "prune"
  /\ UNCHANGED <<dir, durableDir, temps, mem, batch, fresh, gen, faults, hist>>

\* The truncation fails, or the fsync after it does.  (Bytes that a power loss
\* brings back after the latter are as if the truncation had failed; the model
\* has them back only there, and the next Open truncates them in any case.)
TruncateTornTailFails ==
  /\ pc = "scan" /\ job.paths = {}
  /\ ScanFails(OnDisk(LastCollected))
  /\ Fault("truncate")
  /\ \/ UNCHANGED files
     \/ files' = [files EXCEPT ![dir[LastCollected]].junk = 0]
  /\ OpenFails
  /\ UNCHANGED <<dir, durableDir, temps, mem, batch, fresh, gen, hist>>

\* computeBounds, over the segments that survive.
FirstRecovered ==
  IF WithRecords = {} THEN 0 ELSE job.idx[Min(WithRecords)]
LastRecovered ==
  IF WithRecords = {} THEN 0 ELSE ScanLastLSN(OnDisk(job.idx[Max(WithRecords)]))

(***************************************************************************)
(* installState.  The base of the active segment keeps the LSNs going when *)
(* no record is left to derive them from.                                  *)
(***************************************************************************)
\* Mutants: an exclusive bound; the bounds come from the records alone, or
\* from the active segment alone.
LastExclusive == MaxOf(LastRecovered - 1, LastCollected - 2)
NextFromRecords == LastRecovered + 1
NextFromBase == LastCollected

LastInstalled == MaxOf(LastRecovered, LastCollected - 1)
NextInstalled == MaxOf(LastRecovered + 1, LastCollected)

InstallState ==
  /\ pc = "prune" /\ job.names = << >>
  /\ active' = dir[LastCollected]
  /\ index' = job.idx
  /\ firstLSN' = FirstRecovered
  /\ lastLSN' = LastInstalled
  /\ nextLSN' = NextInstalled
  /\ pc' = "idle"
  /\ job' = NoJob
  /\ crashed' = {} /\ corrupt' = FALSE
  /\ UNCHANGED <<disk, batch, fresh, gen, faults, acked, promised, floor,
                 cutDone>>
=============================================================================

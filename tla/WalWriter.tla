----------------------------- MODULE WalWriter -----------------------------
(***************************************************************************)
(* The writer goroutine: group commits with the segment roll, Sync,        *)
(* Truncate and CutOffset.  A handler is split where a crash, a failed     *)
(* system call or a reader could observe it half done.                     *)
(***************************************************************************)
EXTENDS WalState

ActiveFile == files[active]

-----------------------------------------------------------------------------
(* commit: the requests of a batch, one record at a time.                  *)

RecordsIn(b) == SumFunction([i \in DOMAIN b |-> Len(b[i])])

(***************************************************************************)
(* commit skips a request whose context is done before it writes anything  *)
(* for it; b is what remains.                                              *)
(***************************************************************************)
BeginCommit(b) ==
  /\ pc = "idle"
  /\ nextLSN + RecordsIn(b) <= MaxLSN + 1
  /\ batch' = [NoBatch EXCEPT !.reqs = b]
  /\ pc' = "write"
  /\ UNCHANGED <<disk, mem, job, fresh, gen, faults, hist>>

Writing == pc = "write" /\ batch.reqs # << >> /\ Head(batch.reqs) # << >>
PayloadSize == Head(Head(batch.reqs))

\* A record never splits: an active segment that holds one and has no room rolls.
NeedsRoll(size) ==
  ActiveFile.data # << >> /\ Bytes(ActiveFile) + size > MaxSegmentSize

(***************************************************************************)
(* The request under way fails: its caller gets the error, the records it  *)
(* has already written stay in the segment and keep their LSNs.            *)
(***************************************************************************)
RequestFails ==
  /\ batch' = [batch EXCEPT !.reqs = Tail(batch.reqs), !.cur = {}]
  /\ pc' = "write"

NewRec == [lsn |-> nextLSN, gen |-> gen, size |-> PayloadSize]

WriteRecord ==
  /\ Writing
  /\ ~NeedsRoll(PayloadSize)
  /\ files' = [files EXCEPT ![active] = Appended(ActiveFile, NewRec)]
  /\ nextLSN' = nextLSN + 1
  /\ batch' = [batch EXCEPT
       !.reqs = <<Tail(Head(batch.reqs))>> \o Tail(batch.reqs),
       !.cur = batch.cur \cup {NewRec}]
  /\ UNCHANGED <<dir, durableDir, temps, active, index, firstLSN, lastLSN, pc,
                 job, fresh, gen, faults, hist>>

WriteRecordFails ==
  /\ Writing
  /\ ~NeedsRoll(PayloadSize)
  /\ Fault("append")
  /\ \E n \in 0..PayloadSize :
       files' = [files EXCEPT ![active] = PartlyWritten(ActiveFile, n)]
  /\ RequestFails
  /\ UNCHANGED <<dir, durableDir, temps, mem, job, fresh, gen, hist>>

CompleteRequest ==
  /\ pc = "write" /\ batch.reqs # << >> /\ Head(batch.reqs) = << >>
  /\ batch' = [reqs |-> Tail(batch.reqs), cur |-> {},
               done |-> batch.done \cup batch.cur, wrote |-> TRUE]
  /\ UNCHANGED <<disk, mem, pc, job, fresh, gen, faults, hist>>

(***************************************************************************)
(* finishBatch and the delivery of the results: fsync unless the interval  *)
(* flusher owns durability, publish the bounds, answer the callers.        *)
(***************************************************************************)
\* Mutant: no policy fsyncs a commit.
FsyncNever == FALSE

FsyncOnCommit == SyncPolicy # "SyncInterval"

\* Mutants: an emptied log starts at 1 again; so does every log.
FirstOfEmptyIsOne == IF firstLSN = 0 THEN 1 ELSE firstLSN
FirstIsOne == 1

PublishedFirst == IF firstLSN = 0 THEN index[1] ELSE firstLSN

FinishBatch ==
  /\ pc = "write" /\ batch.reqs = << >>
  /\ files' = IF batch.wrote /\ FsyncOnCommit
              THEN [files EXCEPT ![active] = Fsynced(ActiveFile)] ELSE files
  /\ lastLSN' = IF batch.wrote THEN nextLSN - 1 ELSE lastLSN
  /\ firstLSN' = IF batch.wrote THEN PublishedFirst ELSE firstLSN
  /\ acked' = acked \cup batch.done
  /\ promised' = IF SyncPolicy # "SyncInterval" THEN acked' ELSE promised
  /\ pc' = "idle"
  /\ batch' = NoBatch
  /\ UNCHANGED <<dir, durableDir, temps, active, index, nextLSN, job, fresh,
                 gen, faults, floor, cutDone, crashed, corrupt>>

\* The fsync fails: no bound is published, every request of the batch fails.
FinishBatchFails ==
  /\ pc = "write" /\ batch.reqs = << >> /\ batch.wrote /\ FsyncOnCommit
  /\ Fault("sync")
  /\ pc' = "idle"
  /\ batch' = NoBatch
  /\ UNCHANGED <<disk, mem, job, fresh, gen, hist>>

-----------------------------------------------------------------------------
(* roll, and segment.Create as roll, cutEverything and initEmptyLog use it. *)

\* Mutant: the segment is sealed as it is.
SealedAsIs == ActiveFile

Sealed == Fsynced(ActiveFile)

StartRoll ==
  /\ Writing
  /\ NeedsRoll(PayloadSize)
  /\ files' = [files EXCEPT ![active] = Sealed]
  /\ job' = [NoJob EXCEPT !.kind = "roll", !.base = nextLSN]
  /\ pc' = "createOpen"
  /\ UNCHANGED <<dir, durableDir, temps, mem, batch, fresh, gen, faults, hist>>

StartRollFails ==
  /\ Writing
  /\ NeedsRoll(PayloadSize)
  /\ Fault("sync")
  /\ RequestFails
  /\ UNCHANGED <<disk, mem, job, fresh, gen, hist>>

\* Create returns an error to its caller; the file stays as it is.
CreateFails ==
  /\ IF job.kind = "roll" THEN RequestFails
     ELSE /\ pc' = IF job.kind = "init" THEN "closed" ELSE "idle"
          /\ UNCHANGED batch
  /\ job' = NoJob
  /\ fresh' = Nil

\* OpenFile with O_EXCL.
CreateOpen ==
  /\ pc = "createOpen"
  /\ job.base \notin DOMAIN dir
  /\ \E i \in FreeInodes :
       /\ files' = [files EXCEPT ![i] = NewFile]
       /\ dir' = Link(dir, job.base, i)
       /\ fresh' = i
  /\ pc' = "createHeader"
  /\ UNCHANGED <<durableDir, temps, mem, batch, job, gen, faults, hist>>

CreateOpenFails ==
  /\ pc = "createOpen"
  /\ \/ job.base \in DOMAIN dir /\ UNCHANGED faults
     \/ Fault("create")
  /\ CreateFails
  /\ UNCHANGED <<disk, mem, gen, hist>>

\* The header is written, then the file is fsynced.
CreateHeader ==
  /\ pc = "createHeader"
  /\ files' = [files EXCEPT ![fresh].hdr = "cached"]
  /\ pc' = "createSync"
  /\ UNCHANGED <<dir, durableDir, temps, mem, batch, job, fresh, gen, faults, hist>>

CreateSync ==
  /\ pc = "createSync"
  /\ files' = [files EXCEPT ![fresh] = Fsynced(files[fresh])]
  /\ pc' = "createSyncDir"
  /\ UNCHANGED <<dir, durableDir, temps, mem, batch, job, fresh, gen, faults, hist>>

CreateHeaderFails ==
  /\ pc \in {"createHeader", "createSync"}
  /\ Fault("header")
  /\ CreateFails
  /\ UNCHANGED <<disk, mem, gen, hist>>

CreateSyncDir ==
  /\ pc = "createSyncDir"
  /\ durableDir' = dir
  /\ files' = Collected(files, Live(dir, dir, active, fresh))
  /\ pc' = CASE job.kind = "roll" -> "installRoll"
             [] job.kind = "cutAll" -> "remove"
             [] job.kind = "init" -> "installEmpty"
  /\ UNCHANGED <<dir, temps, mem, batch, job, fresh, gen, faults, hist>>

CreateSyncDirFails ==
  /\ pc = "createSyncDir"
  /\ Fault("dirsync")
  /\ CreateFails
  /\ UNCHANGED <<disk, mem, gen, hist>>

(***************************************************************************)
(* The new segment becomes active; closing the sealed one may fail, which  *)
(* fails the request although the roll has happened.                       *)
(***************************************************************************)
InstallRoll ==
  /\ pc = "installRoll"
  /\ active' = fresh
  /\ index' = Append(index, job.base)
  /\ \/ pc' = "write" /\ UNCHANGED <<batch, faults>>
     \/ Fault("close") /\ RequestFails
  /\ files' = Collected(files, Live(dir, durableDir, active', Nil))
  /\ job' = NoJob
  /\ fresh' = Nil
  /\ UNCHANGED <<dir, durableDir, temps, nextLSN, firstLSN, lastLSN, gen, hist>>

-----------------------------------------------------------------------------
(* Sync, and the tick of the interval flusher.                             *)

\* Mutant: Sync answers without an fsync.
NotFlushed == ActiveFile

Flushed == Fsynced(ActiveFile)

SyncActive ==
  /\ pc = "idle"
  /\ files' = [files EXCEPT ![active] = Flushed]
  /\ promised' = acked
  /\ UNCHANGED <<dir, durableDir, temps, mem, pc, batch, job, fresh, gen, faults,
                 acked, floor, cutDone, crashed, corrupt>>

-----------------------------------------------------------------------------
(* Truncate and CutOffset.                                                 *)

\* How far a bound reaches: LSNs that do not exist yet cannot be dropped.
Reach(upTo) == MinOf(upTo, nextLSN)

StartDrop(upTo, newJob, step) ==
  /\ job' = newJob
  /\ pc' = step
  /\ floor' = MaxOf(floor, Reach(upTo))
  /\ UNCHANGED <<disk, mem, batch, fresh, gen, faults, acked, promised, cutDone,
                 crashed, corrupt>>

\* How many segments doTruncate may delete: those followed by one that starts
\* at or below upTo (bases ascend, so these come first).
\* Mutant: one segment too many when the bound is its last LSN.
DeletableTooFar(idx, upTo) ==
  Cardinality({i \in 2..Len(idx) : idx[i] <= upTo + 1})

Deletable(idx, upTo) == Cardinality({i \in 2..Len(idx) : idx[i] <= upTo})

\* Mutant: the newest one first.
NewestFirst(d) == <<index[d]>> \o SubSeq(index, 1, d - 1)

DeletedByTruncate(d) == SubSeq(index, 1, d)

Truncate(upTo) ==
  LET d == Deletable(index, upTo)
  IN  /\ pc = "idle"
      /\ d > 0
      /\ StartDrop(upTo,
           [NoJob EXCEPT !.kind = "truncate",
                         !.names = DeletedByTruncate(d),
                         !.idx = SubSeq(index, d + 1, Len(index))],
           "remove")

\* The last segment whose base is at or below cut.
Boundary(idx, cut) ==
  MaxOf(1, Cardinality({i \in DOMAIN idx : idx[i] <= cut}))

(***************************************************************************)
(* doCut: nothing to cut, everything to cut, a cut at a segment's base, or *)
(* a cut inside one.                                                       *)
(***************************************************************************)
CutNothing(cut) == firstLSN = 0 \/ cut <= firstLSN

CutNoop(upTo) ==
  /\ pc = "idle"
  /\ CutNothing(Reach(upTo))
  /\ cutDone' = MaxOf(cutDone, Reach(upTo))
  /\ floor' = MaxOf(floor, Reach(upTo))
  /\ UNCHANGED <<disk, mem, pc, batch, job, fresh, gen, faults, acked, promised,
                 crashed, corrupt>>

DeletedByCutEverything == index

CutEverything(upTo) ==
  /\ pc = "idle"
  /\ ~CutNothing(Reach(upTo))
  /\ Reach(upTo) >= nextLSN
  /\ StartDrop(upTo,
       [NoJob EXCEPT !.kind = "cutAll", !.base = nextLSN,
                     !.names = DeletedByCutEverything, !.idx = <<nextLSN>>],
       "clearLeftover")

CutInside(upTo) ==
  LET cut == Reach(upTo)
      b == Boundary(index, cut)
      above == SubSeq(index, b + 1, Len(index))
  IN  /\ pc = "idle"
      /\ ~CutNothing(cut)
      /\ cut < nextLSN
      /\ \/ /\ index[b] = cut
            /\ StartDrop(upTo,
                 [NoJob EXCEPT !.kind = "cutBelow", !.base = cut,
                               !.names = SubSeq(index, 1, b - 1),
                               !.idx = <<cut>> \o above],
                 "remove")
         \/ /\ index[b] # cut
            /\ StartDrop(upTo,
                 [NoJob EXCEPT !.kind = "cutRewrite", !.base = cut,
                               !.names = SubSeq(index, 1, b),
                               !.idx = <<cut>> \o above],
                 "rewrite")

\* The operation under way returns an error; a replacement is closed.
JobFails ==
  /\ pc' = "idle"
  /\ job' = NoJob
  /\ fresh' = Nil

\* cutEverything first removes a leftover <nextLSN>.wal.
ClearLeftover ==
  /\ pc = "clearLeftover"
  /\ dir' = Unlink(dir, job.base)
  /\ files' = Collected(files, Live(dir', durableDir, active, fresh))
  /\ pc' = "createOpen"
  /\ UNCHANGED <<durableDir, temps, mem, batch, job, fresh, gen, faults, hist>>

ClearLeftoverFails ==
  /\ pc = "clearLeftover"
  /\ Fault("remove")
  /\ JobFails
  /\ UNCHANGED <<disk, mem, batch, gen, hist>>

-----------------------------------------------------------------------------
(* RewriteFrom.                                                            *)

\* The boundary segment is the active one: nothing is above the cut segment.
CutsActive == Len(job.idx) = 1

OldBoundary == job.names[Len(job.names)]

\* The boundary segment can be opened and scanned to its end.
SourceReadable ==
  \/ CutsActive
  \/ /\ OldBoundary \in DOMAIN dir
     /\ files[dir[OldBoundary]].hdr # "absent"
     /\ ~ScanFails(files[dir[OldBoundary]])

Source == IF CutsActive THEN ActiveFile ELSE files[dir[OldBoundary]]

\* The surviving records are written to <cut>.wal.tmp, which is fsynced.
RewriteTemp ==
  /\ pc = "rewrite"
  /\ SourceReadable
  /\ \E i \in FreeInodes :
       /\ files' = [files EXCEPT ![i] = Rewritten(Source, job.base)]
       /\ fresh' = i
  /\ temps' = temps \cup {job.base}
  /\ pc' = "publish"
  /\ UNCHANGED <<dir, durableDir, mem, batch, job, gen, faults, hist>>

\* Mutant: the error is ignored.
RewriteTempErrorIgnored ==
  /\ pc = "rewrite"
  /\ Fault("temp")
  /\ pc' = "remove"
  /\ UNCHANGED <<disk, mem, batch, job, fresh, gen, hist>>

\* On an error the temporary file is removed again.
RewriteTempFails ==
  /\ pc = "rewrite"
  /\ \/ ~SourceReadable /\ UNCHANGED faults
     \/ Fault("temp")
  /\ temps' = temps \ {job.base}
  /\ JobFails
  /\ UNCHANGED <<files, dir, durableDir, mem, batch, gen, hist>>

(***************************************************************************)
(* The rename publishes the complete file under its name; the fsync of the *)
(* directory makes that durable.                                           *)
(***************************************************************************)
PublishRewrite ==
  /\ pc = "publish"
  /\ dir' = Link(dir, job.base, fresh)
  /\ temps' = temps \ {job.base}
  /\ files' = Collected(files, Live(dir', durableDir, active, fresh))
  /\ pc' = "publishSync"
  /\ UNCHANGED <<durableDir, mem, batch, job, fresh, gen, faults, hist>>

PublishSync ==
  /\ pc = "publishSync"
  /\ durableDir' = dir
  /\ files' = Collected(files, Live(dir, dir, active, fresh))
  /\ pc' = "remove"
  /\ UNCHANGED <<dir, temps, mem, batch, job, fresh, gen, faults, hist>>

PublishFails ==
  /\ \/ pc = "publish" /\ Fault("rename")
     \/ pc = "publishSync" /\ Fault("dirsync")
  /\ temps' = temps \ {job.base}
  /\ files' = Collected(files, Live(dir, durableDir, active, Nil))
  /\ JobFails
  /\ UNCHANGED <<dir, durableDir, mem, batch, gen, hist>>

-----------------------------------------------------------------------------
(* The installation of the new index and bounds, after the deletions.      *)

Removed(kind) == pc = "remove" /\ job.names = << >> /\ job.kind = kind

Installed(newActive, newFirst) ==
  /\ active' = newActive
  /\ index' = job.idx
  /\ firstLSN' = newFirst
  /\ files' = Collected(files, Live(dir, durableDir, newActive, Nil))
  /\ pc' = "idle"
  /\ job' = NoJob
  /\ fresh' = Nil
  /\ UNCHANGED <<dir, durableDir, temps, nextLSN, lastLSN, batch, gen, faults,
                 acked, promised, floor, crashed, corrupt>>

FinishTruncate ==
  /\ Removed("truncate")
  /\ Installed(active, job.idx[1])
  /\ UNCHANGED cutDone

FinishCutBelow ==
  /\ Removed("cutBelow")
  /\ Installed(active, job.base)
  /\ cutDone' = MaxOf(cutDone, job.base)

FinishCutRewrite ==
  /\ Removed("cutRewrite")
  /\ Installed(IF CutsActive THEN fresh ELSE active, job.base)
  /\ cutDone' = MaxOf(cutDone, job.base)

FinishCutEverything ==
  /\ Removed("cutAll")
  /\ Installed(fresh, 0)
  /\ cutDone' = MaxOf(cutDone, job.base)
=============================================================================

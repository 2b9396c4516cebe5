------------------------- MODULE Durability_proofs -------------------------
(***************************************************************************)
(* Sealed segments and published records are on stable storage, while at   *)
(* most the calls of HarmlessCalls fail, no request is empty and no        *)
(* process is killed: Durable is inductive relative to IInv and Agreement. *)
(* Most steps move nothing and unsync nothing; the frame lemma deals with  *)
(* those.                                                                  *)
(*                                                                         *)
(* On top of it the second half proves what a crash may leave: Survival is *)
(* inductive relative to the three invariants before it, and what is       *)
(* acknowledged, cut or deleted stays so through kills and power losses.   *)
(*                                                                         *)
(* The last part proves that Open finds a directory it can read: Reopens   *)
(* is inductive on top of Survival.                                        *)
(***************************************************************************)
EXTENDS WalSurvival, Agreement_proofs

USE WalStateAssumption DEF ControlOK, TypeOK

\* A step that leaves no file with less on stable storage than it had.
KeepsSynced == \A i \in Inodes : Synced(i) => Synced(i)'

-----------------------------------------------------------------------------
(* Files.                                                                  *)

LEMMA FsyncedSynced ==
  ASSUME NEW f \in File
  PROVE  ~HasUnsynced(Fsynced(f))
<1>1. Fsynced(f).synced = Len(f.data) /\ Fsynced(f).data = f.data /\ Len(f.data) \in Nat
      /\ Fsynced(f).hdr = (IF f.hdr = "cached" THEN "durable" ELSE f.hdr)
  BY DEF Fsynced, File
<1> QED BY <1>1 DEF HasUnsynced

LEMMA NewFileSynced == ~HasUnsynced(NewFile)
BY DEF HasUnsynced, NewFile

\* TruncateTo fsyncs what it leaves.
LEMMA TruncatedSynced ==
  ASSUME NEW f \in File
  PROVE  ~HasUnsynced(TruncatedToValidEnd(f))
<1>1. [f EXCEPT !.junk = 0] \in File
  BY TruncatedType
<1> QED BY <1>1, FsyncedSynced DEF TruncatedToValidEnd

\* RewriteFrom fsyncs what it writes.
LEMMA RewrittenSynced ==
  ASSUME NEW f \in File, NEW lsn \in Nat
  PROVE  ~HasUnsynced(Rewritten(f, lsn))
<1>1. Rewritten(f, lsn) \in File
  BY RewrittenType
<1>2. /\ Rewritten(f, lsn).hdr = "durable"
      /\ Rewritten(f, lsn).synced = Len(Rewritten(f, lsn).data)
  BY DEF Rewritten
<1>3. Len(Rewritten(f, lsn).data) \in Nat
  BY <1>1 DEF File
<1> QED BY <1>2, <1>3 DEF HasUnsynced

\* What a power loss leaves is on stable storage.
LEMMA SurvivorSynced ==
  ASSUME NEW f \in File, NEW keep, NEW torn \in BOOLEAN, MaySurvive(f, keep, torn)
  PROVE  ~HasUnsynced(AfterPowerLoss(f, keep, torn))
<1>1. keep \in 0..Len(f.data) /\ f.data \in Seq(Rec) /\ Len(f.data) \in Nat
  BY AfterPowerLossType DEF File
<1>2. keep \in Nat /\ Len(SubSeq(f.data, 1, keep)) = keep
  <2>1. keep \in Nat /\ keep <= Len(f.data)
    BY <1>1
  <2> QED BY <1>1, <2>1, SplitAt
<1>3. AfterPowerLoss(f, keep, torn).hdr # "cached"
  BY DEF AfterPowerLoss, Fsynced, File
<1>4. /\ AfterPowerLoss(f, keep, torn).synced = keep
      /\ AfterPowerLoss(f, keep, torn).data = SubSeq(f.data, 1, keep)
  BY DEF AfterPowerLoss
<1> QED BY <1>2, <1>3, <1>4 DEF HasUnsynced

\* An fsync of one file, and the loss of files nobody names, unsync nothing.
LEMMA FsyncKeeps ==
  ASSUME ControlOK, NEW j \in Inodes,
         files' = files \/ files' = [files EXCEPT ![j] = Fsynced(files[j])]
  PROVE  KeepsSynced
<1>1. files \in [Inodes -> File]
  BY DEF DiskTypeOK
<1> QED BY <1>1, FsyncedSynced DEF KeepsSynced, Synced

LEMMA CollectionKeeps ==
  ASSUME ControlOK, NEW live, files' = Collected(files, live)
  PROVE  KeepsSynced
BY NewFileSynced DEF KeepsSynced, Synced, Collected

-----------------------------------------------------------------------------
(* The steps.                                                              *)

\* What a step has to see to, once it unsyncs no file.
LEMMA DurableNext ==
  ASSUME ControlOK, ControlOK', Durable, KeepsSynced,
         DirAhead' \/ durableDir' = dir' \/ (~DirAhead /\ UNCHANGED <<dir, durableDir>>),
         \A b \in DOMAIN dir' : dir'[b] \notin {active', fresh'} =>
           \/ b \in DOMAIN dir /\ dir'[b] = dir[b] /\ dir[b] \notin {active, fresh}
           \/ Synced(dir[b])',
         HasFresh' /\ pc' \notin {"createHeader", "createSync"} =>
           \/ HasFresh /\ pc \notin {"createHeader", "createSync"} /\ fresh' = fresh
           \/ Synced(fresh)',
         job'.kind = "roll" => (job.kind = "roll" /\ active' = active) \/ Synced(active)',
         FsyncOnCommit /\ Opened' /\ ~Unpublished' =>
           (Opened /\ ~Unpublished /\ active' = active) \/ Synced(active)'
  PROVE  Durable'
<1>1. \A i \in Inodes : Synced(i) => ~HasUnsynced(files'[i])
  BY DEF KeepsSynced, Synced
<1>2. (Opened => active \in Inodes) /\ (HasFresh => fresh \in Inodes)
  BY OpenedIff
<1>3. job.kind = "roll" => active \in Inodes
  BY WriterOpened, OpenedIff
<1>4. ~DirAhead' => durableDir' = dir'
  BY DEF Durable
<1>5. \A b \in DOMAIN dir' : dir'[b] \notin {active', fresh'} => Synced(dir[b])'
  <2> SUFFICES ASSUME NEW b \in DOMAIN dir', dir'[b] \notin {active', fresh'}
               PROVE  ~HasUnsynced(files'[dir'[b]])
    BY DEF Synced
  <2>1. CASE b \in DOMAIN dir /\ dir'[b] = dir[b] /\ dir[b] \notin {active, fresh}
    <3>1. dir[b] \in Inodes /\ Synced(dir[b])
      BY <2>1, SegsType DEF Durable
    <3> QED BY <2>1, <3>1, <1>1
  <2>2. CASE Synced(dir[b])'
    BY <2>2 DEF Synced
  <2> QED BY <2>1, <2>2
<1>6. HasFresh' /\ pc' \notin {"createHeader", "createSync"} => Synced(fresh)'
  BY <1>1, <1>2 DEF Durable, Synced
<1>7. job'.kind = "roll" => Synced(active)'
  BY <1>1, <1>3 DEF Durable, Synced
<1>8. FsyncOnCommit' /\ Opened' /\ ~Unpublished' => Synced(active)'
  BY <1>1, <1>2 DEF Durable, Synced, FsyncOnCommit
<1> QED BY <1>4, <1>5, <1>6, <1>7, <1>8 DEF Durable

\* A step that changes files only, and goes on with the same operation.
LEMMA FrameDurable ==
  ASSUME ControlOK, ControlOK', Durable, KeepsSynced, ~DirAhead,
         UNCHANGED <<dir, durableDir, active, fresh, nextLSN, lastLSN>>,
         pc \notin {"createHeader", "createSync"},
         job'.kind = "roll" => job.kind = "roll"
  PROVE  Durable'
<1>1. (Opened' <=> Opened) /\ (HasFresh' <=> HasFresh)
  BY OpenedIff, OpenedIffNext
<1> QED BY <1>1, DurableNext DEF Unpublished

\* A step that touches no file.
LEMMA NoFileTouched ==
  ASSUME ControlOK, ControlOK', Durable, UNCHANGED <<files, dir, durableDir>>,
         UNCHANGED mem, fresh' = fresh, ~DirAhead,
         pc \notin {"createHeader", "createSync"}, job'.kind = "roll" => job.kind = "roll"
  PROVE  Durable'
<1>1. KeepsSynced
  BY DEF KeepsSynced, Synced
<1> QED BY <1>1, FrameDurable DEF mem

\* Where the names are on stable storage.
LEMMA NotAhead ==
  ASSUME Agreement,
         pc \notin {"createOpen", "createHeader", "createSync", "createSyncDir", "publishSync"},
         pc \in {"remove", "reconcile", "prune"} => job.names = << >>
  PROVE  ~DirAhead
BY DEF DirAhead, Agreement, DeletionOK

-----------------------------------------------------------------------------
(* Group commits.                                                          *)

\* A record is at risk until the batch is finished.
LEMMA WriteRecordDurable ==
  ASSUME ControlOK, ControlOK', PlacementOK, Agreement, Durable, WriteRecord
  PROVE  Durable'
<1> USE DEF WriteRecord, Writing
<1>1. /\ Opened /\ ~HasFresh /\ job.kind = "none" /\ ~job.unlinked /\ ~DirAhead
  BY ServingFacts, NotAhead
<1>2. ~DirAhead' /\ ~HasFresh'
  BY <1>1 DEF DirAhead, HasFresh
<1>3. Unpublished'
  <2>1. lastLSN < nextLSN /\ lastLSN \in Nat /\ nextLSN \in Nat
    BY <1>1 DEF Agreement, BoundsOK, MemTypeOK
  <2> QED BY <2>1 DEF Unpublished
<1>4. \A b \in DOMAIN dir' : dir'[b] \notin {active', fresh'} => Synced(dir[b])'
  <2>1. \A i \in Inodes : i # active => files'[i] = files[i]
    BY DEF DiskTypeOK
  <2> QED BY <2>1, SegsType DEF Durable, Synced
<1> QED BY <1>1, <1>2, <1>3, <1>4 DEF Durable

\* The fsync covers what LastLSN is about to cover.
LEMMA FinishBatchDurable ==
  ASSUME ControlOK, ControlOK', PlacementOK, Agreement, Durable, FinishBatch
  PROVE  Durable'
<1> USE DEF FinishBatch
<1>1. Opened /\ ~HasFresh /\ job.kind = "none" /\ ~DirAhead /\ active \in Inodes
  BY ServingFacts, NotAhead, OpenedIff
<1>2. ~HasFresh' /\ job'.kind = "none"
  BY <1>1 DEF HasFresh
<1>3. KeepsSynced
  BY <1>1, FsyncKeeps DEF ActiveFile
<1>4. ASSUME FsyncOnCommit PROVE ~Unpublished \/ Synced(active)'
  <2>1. CASE batch.wrote
    <3>1. files' = [files EXCEPT ![active] = Fsynced(ActiveFile)] /\ active' = active
      BY <1>4, <2>1
    <3> QED BY <3>1, <1>1, FsyncedSynced, ActiveType DEF Synced, DiskTypeOK
  <2>2. CASE ~batch.wrote
    BY <2>2 DEF Agreement, BatchOK, Committing
  <2> QED BY <2>1, <2>2
<1>5. \A b \in DOMAIN dir' : dir'[b] \notin {active', fresh'} =>
        b \in DOMAIN dir /\ dir'[b] = dir[b] /\ dir[b] \notin {active, fresh}
  OBVIOUS
<1> QED BY <1>1, <1>2, <1>3, <1>4, <1>5, DurableNext

\* A segment is sealed with everything in it on stable storage.
LEMMA StartRollDurable ==
  ASSUME ControlOK, ControlOK', PlacementOK, Agreement, Durable, StartRoll
  PROVE  Durable'
<1> USE DEF StartRoll, Writing, mem
<1>1. Opened /\ ~HasFresh /\ ~DirAhead /\ active \in Inodes
  BY ServingFacts, NotAhead, OpenedIff
<1>2. KeepsSynced /\ Synced(active)'
  <2>1. files' = [files EXCEPT ![active] = Fsynced(files[active])] /\ active' = active
    BY DEF Sealed, ActiveFile
  <2>2. KeepsSynced
    BY <1>1, <2>1, FsyncKeeps
  <2>3. files \in [Inodes -> File]
    BY DEF DiskTypeOK
  <2>4. files'[active'] = Fsynced(files[active]) /\ files[active] \in File
    BY <1>1, <2>1, <2>3
  <2> QED BY <2>2, <2>4, FsyncedSynced DEF Synced
<1>3. ~HasFresh'
  BY DEF HasFresh
<1> QED BY <1>1, <1>2, <1>3, DurableNext DEF Unpublished

\* Sync makes the active segment durable.
LEMMA SyncActiveDurable ==
  ASSUME ControlOK, ControlOK', PlacementOK, Agreement, Durable, SyncActive
  PROVE  Durable'
<1> USE DEF SyncActive, mem
<1>1. Opened /\ ~DirAhead /\ active \in Inodes
  BY ServingFacts, NotAhead, OpenedIff
<1>2. KeepsSynced
  BY <1>1, FsyncKeeps DEF Flushed, ActiveFile
<1> QED BY <1>1, <1>2, FrameDurable

\* The sealed segment is left behind, the new one has its header and its name.
LEMMA InstallRollDurable ==
  ASSUME ControlOK, ControlOK', PlacementOK, Agreement, Durable, InstallRoll
  PROVE  Durable'
<1> USE DEF InstallRoll
<1>1. /\ HasFresh /\ fresh \in Inodes /\ job.kind = "roll" /\ ~DirAhead
      /\ active \in Inodes
  BY NotAhead, OpenedIff, WriterOpened DEF HasFresh, StepsOK, Kinds
<1>2. Synced(fresh) /\ Synced(active)
  BY <1>1 DEF Durable
<1>3. KeepsSynced
  BY CollectionKeeps
<1>5. ~HasUnsynced(files'[fresh]) /\ ~HasUnsynced(files'[active])
  BY <1>1, <1>2, <1>3 DEF KeepsSynced, Synced
<1>6. Synced(active)'
  BY <1>5 DEF Synced
<1>7. ~HasFresh' /\ job'.kind = "none"
  BY DEF HasFresh, NoJob, RequestFails
<1>8. \A b \in DOMAIN dir' : dir'[b] \notin {active', fresh'} =>
        \/ b \in DOMAIN dir /\ dir'[b] = dir[b] /\ dir[b] \notin {active, fresh}
        \/ Synced(dir[b])'
  BY <1>5 DEF Synced
<1> QED BY <1>1, <1>3, <1>6, <1>7, <1>8, DurableNext

-----------------------------------------------------------------------------
(* Creation of a segment.                                                  *)

\* The new name and the new file are not yet counted on.
LEMMA CreateOpenDurable ==
  ASSUME ControlOK, ControlOK', PlacementOK, Agreement, Durable, CreateOpen
  PROVE  Durable'
<1> USE DEF CreateOpen, mem
<1>1. ~HasFresh /\ fresh \notin Inodes
  BY BaseIsFree DEF StepsOK
<1>2. KeepsSynced
  BY NewFileSynced DEF KeepsSynced, Synced, DiskTypeOK
<1>3. DirAhead' /\ (Opened' <=> Opened)
  BY DEF DirAhead, Opened
<1>4. ASSUME NEW b \in DOMAIN dir', dir'[b] \notin {active', fresh'}
      PROVE  b \in DOMAIN dir /\ dir'[b] = dir[b] /\ dir[b] \notin {active, fresh}
  <2>1. /\ fresh' = dir'[job.base] /\ DOMAIN dir' = DOMAIN dir \cup {job.base}
        /\ \A c \in DOMAIN dir : KeptName(c)
    BY CreateOpenSegs
  <2>2. b \in DOMAIN dir /\ dir'[b] = dir[b]
    BY <1>4, <2>1 DEF KeptName
  <2> QED BY <1>1, <1>4, <2>2, SegsType
<1> QED BY <1>2, <1>3, <1>4, DurableNext DEF Unpublished

\* The header is in the cache only.
LEMMA CreateHeaderDurable ==
  ASSUME ControlOK, ControlOK', PlacementOK, Agreement, Durable, CreateHeader
  PROVE  Durable'
<1> USE DEF CreateHeader, mem
<1>1. HasFresh /\ fresh \in Inodes /\ fresh # active
  BY OpenedIff DEF HasFresh, PlacementOK, FreshOK
<1>2. \A i \in Inodes : i # fresh => files'[i] = files[i]
  BY DEF DiskTypeOK
<1>3. DirAhead' /\ (Opened' <=> Opened)
  BY DEF DirAhead, Opened
<1>4. \A b \in DOMAIN dir' : dir'[b] \notin {active', fresh'} => Synced(dir[b])'
  BY <1>2, SegsType DEF Durable, Synced
<1>5. job'.kind = "roll" => Synced(active)'
  <2>1. job.kind = "roll" => active \in Inodes
    BY WriterOpened, OpenedIff
  <2> QED BY <1>1, <1>2, <2>1 DEF Durable, Synced
<1>6. FsyncOnCommit' /\ Opened' /\ ~Unpublished' => Synced(active)'
  <2>1. Opened => active \in Inodes
    BY OpenedIff
  <2> QED BY <1>1, <1>2, <1>3, <2>1 DEF Durable, Synced, FsyncOnCommit, Unpublished
<1> QED BY <1>3, <1>4, <1>5, <1>6 DEF Durable

\* Then the file is fsynced, and the directory.
LEMMA CreateSyncDurable ==
  ASSUME ControlOK, ControlOK', PlacementOK, Agreement, Durable, CreateSync \/ CreateSyncDir
  PROVE  Durable'
<1> USE DEF mem
<1>1. /\ UNCHANGED <<dir, active, nextLSN, lastLSN, job, fresh>>
      /\ HasFresh /\ fresh \in Inodes /\ job.kind \in {"init", "roll", "cutAll"}
  BY OpenedIff DEF CreateSync, CreateSyncDir, HasFresh, StepsOK, Kinds
<1>2. KeepsSynced
  BY <1>1, FsyncKeeps, CollectionKeeps DEF CreateSync, CreateSyncDir
<1>3. Opened' <=> Opened
  BY <1>1, OpenedIff, OpenedIffNext
<1>4. DirAhead' \/ durableDir' = dir'
  BY DEF DirAhead, CreateSync, CreateSyncDir
<1>5. \/ HasFresh /\ pc \notin {"createHeader", "createSync"} /\ fresh' = fresh
      \/ Synced(fresh)'
  <2>1. CASE CreateSync
    BY <2>1, <1>1, FsyncedSynced DEF CreateSync, Synced, DiskTypeOK
  <2>2. CASE CreateSyncDir
    BY <2>2, <1>1 DEF CreateSyncDir
  <2> QED BY <2>1, <2>2
<1> QED BY <1>1, <1>2, <1>3, <1>4, <1>5, DurableNext DEF Unpublished

-----------------------------------------------------------------------------
(* Truncate and CutOffset.                                                 *)

LEMMA ClearLeftoverDurable ==
  ASSUME ControlOK, ControlOK', PlacementOK, Agreement, Durable, ClearLeftover
  PROVE  Durable'
<1> USE DEF ClearLeftover, mem
<1>1. Opened /\ job.kind = "cutAll" /\ ~HasFresh
  BY WriterOpened DEF StepsOK, Kinds, HasFresh
<1>2. KeepsSynced
  BY CollectionKeeps
<1>3. DirAhead' /\ ~HasFresh'
  BY <1>1 DEF DirAhead, HasFresh
<1>4. \A b \in DOMAIN dir' : b \in DOMAIN dir /\ dir'[b] = dir[b]
  BY DEF Unlink, Restrict
<1> QED BY <1>1, <1>2, <1>3, <1>4, DurableNext DEF Unpublished

\* The replacement is fsynced before it is published.
LEMMA RewriteTempDurable ==
  ASSUME ControlOK, ControlOK', PlacementOK, Agreement, Durable, RewriteTemp
  PROVE  Durable'
<1> USE DEF RewriteTemp, mem
<1>1. /\ Opened /\ job.kind = "cutRewrite" /\ ~HasFresh /\ ~DirAhead
      /\ fresh \notin Inodes /\ job.base \in Nat
  BY WriterOpened, NotAhead, JobType DEF StepsOK, Kinds, HasFresh
<1>2. PICK i \in FreeInodes : /\ files' = [files EXCEPT ![i] = Rewritten(Source, job.base)]
                              /\ fresh' = i
  OBVIOUS
<1>3. Source \in File
  <2>1. CASE CutsActive
    BY <1>1, <2>1, ActiveType DEF Source
  <2>2. CASE ~CutsActive
    BY <2>2, SegsType DEF Source, SourceReadable
  <2> QED BY <2>1, <2>2
<1>4. ~HasUnsynced(files'[i]) /\ i \in Inodes
  BY <1>1, <1>2, <1>3, RewrittenSynced DEF DiskTypeOK, FreeInodes
<1>5. KeepsSynced
  BY <1>2, <1>4 DEF KeepsSynced, Synced, DiskTypeOK
<1>6. Synced(fresh)' /\ ~DirAhead'
  BY <1>1, <1>2, <1>4 DEF Synced, DirAhead
<1>7. \A b \in DOMAIN dir : dir[b] # fresh
  BY <1>1, SegsType
<1> QED BY <1>1, <1>5, <1>6, <1>7, DurableNext DEF Unpublished

\* The rename brings in a file that is on stable storage.
LEMMA PublishRewriteDurable ==
  ASSUME ControlOK, ControlOK', PlacementOK, Agreement, Durable, PublishRewrite
  PROVE  Durable'
<1> USE DEF PublishRewrite, mem
<1>1. Opened /\ job.kind = "cutRewrite" /\ HasFresh
  BY WriterOpened DEF StepsOK, Kinds, HasFresh
<1>2. KeepsSynced
  BY CollectionKeeps
<1>3. DirAhead'
  BY DEF DirAhead
<1>4. ASSUME NEW b \in DOMAIN dir', dir'[b] \notin {active', fresh'}
      PROVE  b \in DOMAIN dir /\ dir'[b] = dir[b] /\ dir[b] \notin {active, fresh}
  BY <1>4 DEF Link
<1> QED BY <1>1, <1>2, <1>3, <1>4, DurableNext DEF Unpublished

\* A replacement that is not renamed is dropped.
LEMMA PublishFailsDurable ==
  ASSUME ControlOK, ControlOK', PlacementOK, Agreement, Durable, PublishFails, HarmlessFailures
  PROVE  Durable'
<1> USE DEF PublishFails, JobFails, mem
<1>1. pc = "publish"
  BY NoFault DEF HarmlessCalls
<1>2. Opened /\ Opened' /\ HasFresh /\ ~HasFresh' /\ ~DirAhead /\ job'.kind = "none"
  BY <1>1, WriterOpened, NotAhead DEF StepsOK, Kinds, HasFresh, Opened, NoJob
<1>3. KeepsSynced
  BY CollectionKeeps
<1>4. Synced(fresh) /\ fresh \in Inodes
  BY <1>1, <1>2, OpenedIff DEF Durable
<1>5. \A b \in DOMAIN dir : dir[b] = fresh => Synced(dir[b])'
  BY <1>3, <1>4 DEF KeepsSynced, Synced
<1> QED BY <1>2, <1>3, <1>5, DurableNext DEF Unpublished

LEMMA PublishSyncDurable ==
  ASSUME ControlOK, ControlOK', PlacementOK, Agreement, Durable, PublishSync
  PROVE  Durable'
<1> USE DEF PublishSync, mem
<1>1. Opened /\ job.kind = "cutRewrite" /\ HasFresh
  BY WriterOpened DEF StepsOK, Kinds, HasFresh
<1>2. KeepsSynced
  BY CollectionKeeps
<1> QED BY <1>1, <1>2, DurableNext DEF Unpublished

\* A name is gone, then the directory is fsynced.
LEMMA DeleteDurable ==
  ASSUME ControlOK, ControlOK', PlacementOK, Agreement, Durable, RemoveFile \/ SyncRemoval
  PROVE  Durable'
<1> USE DEF mem
<1>1. /\ UNCHANGED <<active, nextLSN, lastLSN, fresh, pc>>
      /\ pc \in {"remove", "reconcile", "prune"} /\ job'.kind = job.kind
  BY DEF RemoveFile, SyncRemoval, Deleting, ControlTypeOK
<1>2. job.kind # "roll" /\ (Opened' <=> Opened) /\ (HasFresh' <=> HasFresh)
  BY <1>1 DEF StepsOK, Kinds, Opened, HasFresh
<1>3. KeepsSynced
  BY CollectionKeeps DEF RemoveFile, SyncRemoval
<1>4. DirAhead' \/ durableDir' = dir'
  BY DEF RemoveFile, SyncRemoval, DirAhead, ControlTypeOK
<1>5. \A b \in DOMAIN dir' : b \in DOMAIN dir /\ dir'[b] = dir[b]
  BY RemoveFileKept DEF KeptName, SyncRemoval
<1> QED BY <1>1, <1>2, <1>3, <1>4, <1>5, DurableNext DEF Unpublished

\* The active segment is replaced when it is the only one that is left.
LEMMA FinishDurable ==
  ASSUME ControlOK, ControlOK', PlacementOK, Agreement, Durable,
         FinishTruncate \/ FinishCutBelow \/ FinishCutRewrite \/ FinishCutEverything
  PROVE  Durable'
<1> DEFINE a == IF ReplacesActive THEN fresh ELSE active
           f == IF job.kind = "cutAll" THEN 0 ELSE job.idx[1]
<1>1. pc = "remove" /\ job.names = << >> /\ Installed(a, f)
  BY FinishInstalls
<1>2. /\ DOMAIN dir = Range(job.idx) /\ Opened /\ Opened' /\ Dropping /\ ~DirAhead
      /\ job.kind \in {"truncate", "cutBelow", "cutRewrite", "cutAll"}
  BY <1>1, InstalledKept, NotAhead DEF Dropping, StepsOK, Kinds
<1> HIDE DEF a, f
<1>3. /\ dir' = dir /\ durableDir' = durableDir /\ active' = a /\ lastLSN' = lastLSN
      /\ nextLSN' = nextLSN /\ ~HasFresh' /\ job'.kind = "none"
  BY <1>1 DEF Installed, HasFresh, NoJob
<1>4. KeepsSynced
  BY <1>1, CollectionKeeps DEF Installed
<1>5. HasFresh => Synced(fresh) /\ fresh \in Inodes /\ ~HasUnsynced(files'[fresh])
  BY <1>1, <1>4, OpenedIff DEF Durable, KeepsSynced, Synced
<1>6. ReplacesActive => HasFresh
  BY <1>1 DEF ReplacesActive, HasFresh
<1>7. ASSUME ReplacesActive, NEW b \in DOMAIN dir
      PROVE  dir[b] = fresh
  <2>1. Len(job.idx) = 1
    <3>1. job.kind = "cutAll" => job.idx = <<nextLSN>>
      BY DEF PlacementOK, PlanOK
    <3>2. \A x : Len(<<x>>) = 1
      OBVIOUS
    <3> QED BY <1>7, <3>1, <3>2, Zenon DEF ReplacesActive, CutsActive
  <2>2. dir[job.idx[1]] = fresh
    BY <1>2, <1>7, <2>1 DEF Agreement, EndOK, LogIndex, LastOf
  <2>3. b = job.idx[1]
    BY <1>2, <2>1, JobType DEF Range
  <2> QED BY <2>2, <2>3
<1>8. ASSUME NEW b \in DOMAIN dir, dir[b] \notin {active', fresh'}
      PROVE  dir[b] \notin {active, fresh} \/ ~HasUnsynced(files'[dir[b]])
  <2>1. ~ReplacesActive
    BY <1>3, <1>7, <1>8 DEF a
  <2>2. dir[b] = fresh => HasFresh
    BY SegsType, OpenedIff DEF StepsOK
  <2> QED BY <1>3, <1>5, <1>8, <2>1, <2>2 DEF a
<1>9. FsyncOnCommit /\ ~Unpublished' =>
        (Opened /\ ~Unpublished /\ active' = active) \/ Synced(active)'
  BY <1>2, <1>3, <1>5, <1>6 DEF a, Unpublished, Synced
<1>10. \A b \in DOMAIN dir' : dir'[b] \notin {active', fresh'} =>
         \/ b \in DOMAIN dir /\ dir'[b] = dir[b] /\ dir[b] \notin {active, fresh}
         \/ Synced(dir[b])'
  BY <1>3, <1>8 DEF Synced
<1> QED BY <1>2, <1>3, <1>4, <1>9, <1>10, DurableNext

-----------------------------------------------------------------------------
(* Recovery and the ways to stop.                                          *)

\* The steps of Open up to the one that installs the state.
LEMMA RecoveringDurable ==
  ASSUME ControlOK, ControlOK', PlacementOK, Agreement, Durable,
         \/ OpenDir \/ ScanSegment \/ OpenCorrupt \/ Reconcile \/ Reconciled
         \/ TruncateTornTail \/ TruncateTornTailFails
  PROVE  Durable'
<1> USE DEF mem, disk
<1>1. ~DirAhead /\ pc \in {"closed", "scan", "reconcile"}
  <2>1. pc \in {"closed", "scan", "reconcile"} /\ (pc = "reconcile" => job.names = << >>)
    BY DEF OpenDir, Closed, ScanSegment, OpenCorrupt, Reconcile, Scanning, Reconciled,
           TruncateTornTail, TruncateTornTailFails
  <2> QED BY <2>1, NotAhead
<1>2. CASE ScanSegment \/ OpenCorrupt \/ Reconcile \/ Reconciled
  <2>1. job'.kind # "roll"
    BY <1>1, <1>2
    DEF ScanSegment, OpenCorrupt, OpenFails, Reconcile, Reconciled, NoJob,
        StepsOK, Kinds, ControlTypeOK
  <2>2. UNCHANGED <<files, dir, durableDir>> /\ UNCHANGED mem /\ fresh' = fresh
    BY <1>2 DEF ScanSegment, OpenCorrupt, Reconcile, Reconciled
  <2> QED BY <1>1, <2>1, <2>2, NoFileTouched
<1>3. CASE OpenDir
  <2> USE <1>3 DEF OpenDir
  <2>1. job'.kind # "roll"
    BY DEF NoJob
  <2>2. durableDir' = durableDir
    BY <1>1 DEF Durable
  <2> QED BY <1>1, <2>1, <2>2, CollectionKeeps, FrameDurable
<1>4. CASE TruncateTornTail
  <2> USE <1>4 DEF TruncateTornTail
  <2>1. job'.kind # "roll"
    BY DEF StepsOK, Kinds, ControlTypeOK
  <2>2. job.idx # << >> /\ Range(job.idx) \subseteq DOMAIN dir
    BY DEF RecoveryOK, ScanOK
  <2>3. LastCollected \in DOMAIN dir
    BY <2>2, JobType, LastElement DEF LastCollected, Range
  <2>4. dir[LastCollected] \in Inodes /\ OnDisk(LastCollected) \in File
    BY <2>3, SegsType DEF OnDisk
  <2>5. KeepsSynced
    BY <2>4, TruncatedSynced DEF KeepsSynced, Synced, DiskTypeOK
  <2> QED BY <1>1, <2>1, <2>5, FrameDurable
<1>5. CASE TruncateTornTailFails
  <2> USE <1>5 DEF TruncateTornTailFails, OpenFails
  <2>1. \A i \in Inodes : files'[i] = files[i] \/ files'[i] = [files[i] EXCEPT !.junk = 0]
    BY DEF DiskTypeOK
  <2>2. KeepsSynced
    <3> SUFFICES ASSUME NEW i \in Inodes, ~HasUnsynced(files[i])
                 PROVE  ~HasUnsynced(files'[i])
      BY DEF KeepsSynced, Synced
    <3>1. ~HasUnsynced([files[i] EXCEPT !.junk = 0])
      BY DEF HasUnsynced, DiskTypeOK, File
    <3> QED BY <2>1, <3>1
  <2> QED BY <1>1, <2>2, FrameDurable DEF NoJob
<1> QED BY <1>2, <1>3, <1>4, <1>5

\* Every file that recovery finds is on stable storage, its active segment too.
LEMMA InstallDurable ==
  ASSUME ControlOK, ControlOK', PlacementOK, Agreement, Durable,
         InstallEmpty \/ InstallState
  PROVE  Durable'
<1> USE DEF disk
<1>1. /\ UNCHANGED <<files, dir, durableDir>> /\ ~DirAhead /\ job'.kind = "none"
      /\ ~HasFresh' /\ pc \in {"installEmpty", "prune"}
  BY NotAhead DEF InstallEmpty, InstallState, HasFresh, NoJob
<1>2. KeepsSynced
  BY <1>1 DEF KeepsSynced, Synced
<1>3. active \notin Inodes
  BY <1>1, WriterOpened DEF StepsOK, Opened, Kinds
<1>4. CASE InstallEmpty
  <2>1. HasFresh /\ Synced(fresh)
    BY <1>4 DEF InstallEmpty, HasFresh, Durable
  <2>2. Synced(active)'
    BY <1>1, <1>4, <2>1 DEF InstallEmpty, Synced
  <2>3. \A b \in DOMAIN dir : dir[b] # active
    BY <1>3, SegsType
  <2> QED BY <1>1, <1>2, <1>4, <2>2, <2>3, DurableNext DEF InstallEmpty
<1>5. CASE InstallState
  <2>1. fresh \notin Inodes
    BY <1>5 DEF InstallState, StepsOK, HasFresh
  <2>2. \A b \in DOMAIN dir : dir[b] \notin {active, fresh} /\ Synced(dir[b])
    BY <1>3, <2>1, SegsType DEF Durable
  <2>3. LastCollected \in DOMAIN dir
    <3>1. job.idx # << >> /\ Range(job.idx) \subseteq DOMAIN dir
      BY <1>5 DEF InstallState, RecoveryOK, PruneOK
    <3> QED BY <3>1, JobType, LastElement DEF LastCollected, Range
  <2>4. Synced(active)'
    BY <1>1, <1>5, <2>2, <2>3 DEF InstallState, Synced
  <2> QED BY <1>1, <1>2, <2>2, <2>4, DurableNext
<1> QED BY <1>4, <1>5

\* Close fsyncs the active segment, and everything else is on stable storage.
LEMMA CloseDurable ==
  ASSUME ControlOK, ControlOK', PlacementOK, Agreement, Durable, Close
  PROVE  Durable'
<1> USE DEF Close, Stop, MemoryLost
<1>1. Opened /\ ~HasFresh /\ ~DirAhead /\ fresh \notin Inodes
  BY ServingFacts, NotAhead DEF StepsOK
<1>2. ~Opened' /\ ~HasFresh' /\ job'.kind = "none"
  BY DEF Opened, HasFresh, NoJob
<1>3. KeepsSynced
  <2> SUFFICES ASSUME NEW i \in Inodes, ~HasUnsynced(files[i])
               PROVE  ~HasUnsynced(files'[i])
    BY DEF KeepsSynced, Synced
  <2>1. ~HasUnsynced(Fsynced(files[i]))
    BY FsyncedSynced DEF DiskTypeOK
  <2> QED BY <2>1, NewFileSynced
<1>4. \A b \in DOMAIN dir : dir[b] = active => ~HasUnsynced(files'[dir[b]])
  <2> SUFFICES ASSUME NEW b \in DOMAIN dir, dir[b] = active
               PROVE  ~HasUnsynced(files'[dir[b]])
    OBVIOUS
  <2>1. dir[b] \in Inodes /\ files[dir[b]] \in File
    BY SegsType
  <2> QED BY <2>1, FsyncedSynced, NewFileSynced
<1>5. \A b \in DOMAIN dir' :
        \/ b \in DOMAIN dir /\ dir'[b] = dir[b] /\ dir[b] \notin {active, fresh}
        \/ Synced(dir[b])'
  BY <1>1, <1>4, SegsType DEF Synced
<1> QED BY <1>1, <1>2, <1>3, <1>5, DurableNext

\* What a power loss leaves is on stable storage, names and files.
LEMMA PowerLossDurable ==
  ASSUME ControlOK, ControlOK', PowerLoss, Durable
  PROVE  Durable'
<1> USE DEF PowerLoss, Stop, MemoryLost
<1>1. ~Opened' /\ ~HasFresh' /\ job'.kind = "none" /\ durableDir' = dir'
  BY DEF Opened, HasFresh, NoJob
<1>2. ASSUME NEW i \in Inodes PROVE ~HasUnsynced(files'[i])
  <2>1. PICK keep \in [Unsynced -> 0..MaxLSN], torn \in [Unsynced -> BOOLEAN] :
          /\ \A j \in Unsynced : MaySurvive(files[j], keep[j], torn[j])
          /\ files' = [j \in Inodes |->
               CASE j \notin Range(dir') -> NewFile
                 [] j \in Range(dir') \cap Unsynced ->
                      AfterPowerLoss(files[j], keep[j], torn[j])
                 [] OTHER -> files[j]]
    OBVIOUS
  <2>2. CASE i \notin Range(dir')
    BY <2>1, <2>2, NewFileSynced
  <2>3. CASE i \in Range(dir') /\ i \in Unsynced
    <3>1. files[i] \in File /\ torn[i] \in BOOLEAN /\ MaySurvive(files[i], keep[i], torn[i])
      BY <2>1, <2>3 DEF DiskTypeOK
    <3>2. ~HasUnsynced(AfterPowerLoss(files[i], keep[i], torn[i]))
      BY <3>1, SurvivorSynced
    <3> QED BY <2>1, <2>3, <3>2
  <2>4. CASE i \in Range(dir') /\ i \notin Unsynced
    BY <2>1, <2>4 DEF Unsynced
  <2> QED BY <2>2, <2>3, <2>4
<1>3. Range(dir') \subseteq Inodes
  BY DEF DiskTypeOK
<1>4. \A b \in DOMAIN dir' : ~HasUnsynced(files'[dir'[b]])
  BY <1>2, <1>3 DEF Range
<1> QED BY <1>1, <1>4 DEF Durable, Synced

-----------------------------------------------------------------------------
(* The specification.                                                      *)

LEMMA InitDurable == Init => Durable
<1> SUFFICES ASSUME Init PROVE Durable
  OBVIOUS
<1>1. ~Opened /\ ~HasFresh /\ job.kind = "none" /\ DOMAIN dir = {} /\ durableDir = dir
  BY DEF Init, Opened, HasFresh, NoJob
<1> QED BY <1>1 DEF Durable

\* Every step but a kill keeps what is durable.
LEMMA NextDurable ==
  ASSUME ControlOK, ControlOK', PlacementOK, Agreement, Durable, Next,
         HarmlessFailures, NoKills
  PROVE  Durable'
<1>1. ASSUME Commit PROVE Durable'
  <2>1. ~WriteRecordFails /\ ~FinishBatchFails /\ ~StartRollFails
    BY NoFault DEF HarmlessCalls, WriteRecordFails, FinishBatchFails, StartRollFails
  <2>2. ASSUME (\E b \in Batches : BeginCommit(b)) \/ CompleteRequest PROVE Durable'
    <3>1. /\ pc \in {"idle", "write"} /\ UNCHANGED <<files, dir, durableDir>>
          /\ UNCHANGED mem /\ UNCHANGED <<job, fresh>>
      BY <2>2 DEF BeginCommit, CompleteRequest, disk
    <3> QED BY <3>1, NotAhead, NoFileTouched
  <2> QED
    BY <1>1, <2>1, <2>2, WriteRecordDurable, FinishBatchDurable, StartRollDurable,
       InstallRollDurable DEF Commit
<1>2. ASSUME Create PROVE Durable'
  <2>1. ~CreateHeaderFails /\ ~CreateSyncDirFails
    BY NoFault DEF HarmlessCalls, CreateHeaderFails, CreateSyncDirFails
  <2>2. ~CreateOpenFails
    BY NoFault, BaseIsFree DEF HarmlessCalls, CreateOpenFails
  <2> QED
    BY <1>2, <2>1, <2>2, CreateOpenDurable, CreateHeaderDurable, CreateSyncDurable DEF Create
<1>3. ASSUME Drop PROVE Durable'
  <2>1. ~ClearLeftoverFails
    BY NoFault DEF HarmlessCalls, ClearLeftoverFails
  <2>2. ASSUME NEW upTo, Truncate(upTo) \/ CutNoop(upTo) \/ CutEverything(upTo)
                           \/ CutInside(upTo)
        PROVE  Durable'
    <3>1. /\ pc = "idle" /\ UNCHANGED <<files, dir, durableDir>> /\ UNCHANGED mem
          /\ fresh' = fresh
      BY <2>2 DEF Truncate, CutNoop, CutEverything, CutInside, StartDrop, disk
    <3>2. job'.kind = "roll" => job.kind = "roll"
      BY <2>2 DEF Truncate, CutNoop, CutEverything, CutInside, StartDrop, NoJob
    <3> QED BY <3>1, <3>2, NotAhead, NoFileTouched
  <2>3. ASSUME RewriteTempFails PROVE Durable'
    <3>1. /\ pc = "rewrite" /\ UNCHANGED <<files, dir, durableDir>> /\ UNCHANGED mem
          /\ fresh' = Nil /\ pc' = "idle" /\ job'.kind = "none"
      BY <2>3 DEF RewriteTempFails, JobFails, NoJob
    <3>2. ~DirAhead /\ ~HasFresh' /\ fresh \notin Inodes /\ Opened
      BY <3>1, NotAhead, WriterOpened DEF HasFresh, StepsOK
    <3>3. KeepsSynced
      BY <3>1 DEF KeepsSynced, Synced
    <3>4. \A b \in DOMAIN dir : dir[b] # fresh
      BY <3>2, SegsType
    <3> QED BY <3>1, <3>2, <3>3, <3>4, DurableNext DEF mem, Unpublished
  <2> QED
    BY <1>3, <2>1, <2>2, <2>3, ClearLeftoverDurable, RewriteTempDurable,
       PublishFailsDurable, PublishRewriteDurable, PublishSyncDurable, FinishDurable DEF Drop
<1>4. ASSUME Delete PROVE Durable'
  <2>1. ~RemovalFails
    BY NoFault DEF HarmlessCalls, RemovalFails
  <2> QED BY <1>4, <2>1, DeleteDurable DEF Delete
<1>5. ASSUME Recover PROVE Durable'
  BY <1>5, RecoveringDurable, InstallDurable DEF Recover
<1>6. ~CloseUnflushed /\ ~Kill
  BY NoFault DEF HarmlessCalls, CloseUnflushed, Kill, Stop, NoKills
<1> QED
  BY <1>1, <1>2, <1>3, <1>4, <1>5, <1>6, SyncActiveDurable, CloseDurable,
     PowerLossDurable DEF Next

\* Nothing changes in a stuttering step.
LEMMA StutterDurable ==
  ASSUME Durable, UNCHANGED vars
  PROVE  Durable'
<1> USE DEF vars, disk, mem
<1>1. /\ (DirAhead' <=> DirAhead) /\ (HasFresh' <=> HasFresh) /\ (Opened' <=> Opened)
      /\ (Unpublished' <=> Unpublished)
  BY DEF DirAhead, HasFresh, Opened, Unpublished
<1> QED BY <1>1 DEF Durable, Synced, FsyncOnCommit

(***************************************************************************)
(* Outside the active segment, the segment under construction and the name *)
(* being added or removed, everything is on stable storage.  Other failed  *)
(* calls break this, and so does a kill: recovery fsyncs neither the       *)
(* directory nor the records it finds in the page cache.                   *)
(***************************************************************************)
THEOREM DurabilityHolds ==
  ASSUME HarmlessFailures, NoEmptyRequests, NoKills
  PROVE  Spec => [](IInv /\ Agreement /\ Durable)
<1>1. Init => Durable
  BY InitDurable
<1>2. IInv /\ IInv' /\ Agreement /\ Durable /\ [Next]_vars => Durable'
  <2>1. IInv /\ IInv' /\ Agreement /\ Durable /\ Next => Durable'
    BY NextDurable DEF IInv
  <2> QED BY <2>1, StutterDurable
<1> QED BY AgreementHolds, <1>1, <1>2, PTL DEF Spec

(***************************************************************************)
(* Between operations the sealed segments and all names are on stable      *)
(* storage, so that the fsync of the active segment by a commit or by Sync *)
(* is all there is to do.                                                  *)
(***************************************************************************)
THEOREM SealedDurableHolds ==
  ASSUME HarmlessFailures, NoEmptyRequests, NoKills
  PROVE  Spec => []SealedDurable
<1>1. IInv /\ Agreement /\ Durable => SealedDurable
  <2> SUFFICES ASSUME ControlOK, PlacementOK, Agreement, Durable, pc = "idle"
               PROVE  /\ durableDir = dir
                      /\ \A b \in DOMAIN dir : dir[b] # active => ~HasUnsynced(files[dir[b]])
    BY DEF SealedDurable, IInv
  <2>1. ~DirAhead /\ fresh \notin Inodes
    BY ServingFacts, NotAhead DEF StepsOK
  <2> QED BY <2>1, SegsType DEF Durable, Synced
<1> QED BY DurabilityHolds, <1>1, PTL

(***************************************************************************)
(* With a policy that fsyncs every commit, what LastLSN covers is on       *)
(* stable storage: no power loss takes a record a reader has been shown.   *)
(***************************************************************************)
THEOREM PublishedDurableHolds ==
  ASSUME HarmlessFailures, NoEmptyRequests, NoKills
  PROVE  Spec => []PublishedDurable
<1>1. IInv /\ Agreement /\ Durable => PublishedDurable
  <2> SUFFICES ASSUME ControlOK, PlacementOK, Agreement, Durable, pc = "idle",
                      SyncPolicy # "SyncInterval", NEW b \in DOMAIN dir,
                      NEW i \in DOMAIN files[dir[b]].data
               PROVE  i <= files[dir[b]].synced
    BY DEF PublishedDurable, IInv
  <2>1. Opened /\ ~Unpublished /\ fresh \notin Inodes
    BY ServingFacts DEF StepsOK
  <2>2. dir[b] \in Inodes /\ files[dir[b]] \in File
    BY SegsType
  <2>3. ~HasUnsynced(files[dir[b]])
    BY <2>1, <2>2 DEF Durable, Synced, FsyncOnCommit
  <2>4. PICK f \in File : f = files[dir[b]]
    BY <2>2
  <2>5. f.synced \in Nat /\ Len(f.data) \in Nat /\ i \in 1..Len(f.data)
    BY <2>4 DEF File
  <2> QED BY <2>3, <2>4, <2>5 DEF HasUnsynced
<1> QED BY DurabilityHolds, <1>1, PTL

-----------------------------------------------------------------------------
(* Crash consistency.  Home, Kept and Sound speak of any files and any     *)
(* directory, so that the lemmas about them serve the directory as it is,  *)
(* the one on stable storage, and what a power loss leaves of them: when   *)
(* files grow, when a name is added or removed, and when power is lost.    *)

\* The files that d names hold their records in place.
Proper(fs, d) ==
  /\ DOMAIN d \subseteq Nat
  /\ \A b \in DOMAIN d :
       /\ fs[d[b]] \in File /\ fs[d[b]].synced <= Len(fs[d[b]].data)
       /\ \A k \in DOMAIN fs[d[b]].data : fs[d[b]].data[k].lsn = b + k - 1

\* The file g has the records of f, and at least as many of them on stable storage.
Grows(f, g) ==
  /\ Len(f.data) <= Len(g.data) /\ f.synced <= g.synced
  /\ \A k \in DOMAIN f.data : g.data[k] = f.data[k]

LEMMA ExtentFacts ==
  ASSUME NEW fs, NEW d, Proper(fs, d), NEW b \in DOMAIN d
  PROVE  /\ b \in Nat /\ Len(fs[d[b]].data) \in Nat /\ fs[d[b]].synced \in Nat
         /\ fs[d[b]].synced <= Len(fs[d[b]].data)
         /\ DOMAIN fs[d[b]].data = 1..Len(fs[d[b]].data)
         /\ \A hard : /\ Extent(fs[d[b]], hard) \in Nat
                      /\ Extent(fs[d[b]], hard) <= Len(fs[d[b]].data)
<1>1. b \in Nat /\ fs[d[b]] \in File /\ fs[d[b]].synced <= Len(fs[d[b]].data)
  BY DEF Proper
<1>2. PICK f \in File : f = fs[d[b]]
  BY <1>1
<1>3. Len(f.data) \in Nat /\ f.synced \in Nat /\ DOMAIN f.data = 1..Len(f.data)
  BY DEF File
<1> QED BY <1>1, <1>2, <1>3 DEF Extent

\* A home stays one when its file grows.
LEMMA HomeGrows ==
  ASSUME NEW fs, NEW gs, NEW d, Proper(fs, d), Proper(gs, d), NEW b \in DOMAIN d,
         Grows(fs[d[b]], gs[d[b]]), NEW hard, NEW r \in Rec
  PROVE  /\ r.lsn < b + Extent(fs[d[b]], hard) => r.lsn < b + Extent(gs[d[b]], hard)
         /\ Home(fs, d, r, b, hard) => Home(gs, d, r, b, hard)
<1>1. /\ b \in Nat /\ r.lsn \in Nat
      /\ Extent(fs[d[b]], hard) \in Nat /\ Extent(gs[d[b]], hard) \in Nat
      /\ Extent(fs[d[b]], hard) <= Len(fs[d[b]].data) /\ Len(fs[d[b]].data) \in Nat
      /\ DOMAIN fs[d[b]].data = 1..Len(fs[d[b]].data)
  BY ExtentFacts DEF Rec
<1>2. Extent(fs[d[b]], hard) <= Extent(gs[d[b]], hard)
  BY DEF Grows, Extent
<1>3. r.lsn < b + Extent(fs[d[b]], hard) => r.lsn < b + Extent(gs[d[b]], hard)
  BY <1>1, <1>2
<1>4. ASSUME Home(fs, d, r, b, hard) PROVE Home(gs, d, r, b, hard)
  <2>1. b <= r.lsn /\ r.lsn < b + Extent(fs[d[b]], hard)
    BY <1>4 DEF Home
  <2>2. r.lsn - b + 1 \in 1..Len(fs[d[b]].data)
    BY <2>1, <1>1
  <2>3. gs[d[b]].data[r.lsn - b + 1] = fs[d[b]].data[r.lsn - b + 1]
    BY <2>2, <1>1 DEF Grows
  <2> QED BY <1>3, <1>4, <2>1, <2>3 DEF Home
<1> QED BY <1>3, <1>4

LEMMA KeptGrows ==
  ASSUME NEW fs, NEW gs, NEW d, Proper(fs, d), Proper(gs, d),
         \A b \in DOMAIN d : Grows(fs[d[b]], gs[d[b]]),
         NEW fl \in Nat, NEW gl \in Nat, fl <= gl,
         NEW A \in SUBSET Rec, NEW B \in SUBSET A, NEW hard, Kept(fs, d, fl, A, hard)
  PROVE  Kept(gs, d, gl, B, hard)
<1> SUFFICES ASSUME NEW r \in B
             PROVE  /\ gl <= r.lsn => \E b \in DOMAIN d : Home(gs, d, r, b, hard)
                    /\ \E b \in DOMAIN d : r.lsn < b + Extent(gs[d[b]], hard)
  BY DEF Kept
<1>1. r \in Rec /\ r.lsn \in Nat
  BY DEF Rec
<1>2. /\ fl <= r.lsn => \E b \in DOMAIN d : Home(fs, d, r, b, hard)
      /\ \E b \in DOMAIN d : r.lsn < b + Extent(fs[d[b]], hard)
  BY DEF Kept
<1>3. gl <= r.lsn => fl <= r.lsn
  BY <1>1
<1> QED BY <1>1, <1>2, <1>3, HomeGrows

\* What is all on stable storage survives a power loss.
LEMMA KeptWhole ==
  ASSUME NEW fs, NEW d, \A b \in DOMAIN d : Whole(fs[d[b]]),
         NEW fl, NEW A, Kept(fs, d, fl, A, FALSE)
  PROVE  Kept(fs, d, fl, A, TRUE)
<1>1. \A b \in DOMAIN d : Extent(fs[d[b]], TRUE) = Extent(fs[d[b]], FALSE)
  BY DEF Extent, Whole
<1>2. \A r, b : b \in DOMAIN d /\ Home(fs, d, r, b, FALSE) => Home(fs, d, r, b, TRUE)
  BY <1>1 DEF Home
<1> QED BY <1>1, <1>2 DEF Kept

\* Overlaps depend on the records only.
LEMMA SoundGrows ==
  ASSUME NEW fs, NEW gs, NEW d, Proper(fs, d), Proper(gs, d),
         \A b \in DOMAIN d : Grows(fs[d[b]], gs[d[b]]) /\ gs[d[b]].data = fs[d[b]].data,
         NEW fl \in Nat, NEW gl \in Nat, fl <= gl,
         NEW P \in SUBSET Rec, NEW cut, Sound(fs, d, fl, P, cut)
  PROVE  Sound(gs, d, gl, P, cut)
<1>1. MayLosePower => Kept(gs, d, gl, P, TRUE)
  BY KeptGrows DEF Sound
<1>2. CutOverlaps(gs, d, gl)
  <2> SUFFICES ASSUME NEW b \in DOMAIN d, NEW c \in DOMAIN d,
                      b < c, c < b + Len(gs[d[b]].data)
               PROVE  c <= gl /\ Whole(gs[d[c]]) /\ CopiedTo(gs[d[b]], c, gs[d[c]])
    BY DEF CutOverlaps
  <2>1. c <= fl /\ Whole(fs[d[c]]) /\ CopiedTo(fs[d[b]], c, fs[d[c]])
    BY DEF Sound, CutOverlaps
  <2>2. c <= gl
    BY <2>1, ExtentFacts
  <2>3. Whole(gs[d[c]])
    BY <2>1, ExtentFacts DEF Whole, Grows
  <2> QED BY <2>1, <2>2, <2>3 DEF CopiedTo
<1> QED BY <1>1, <1>2 DEF Sound

\* The directory e is d with a new name.
Links(d, e, base) ==
  /\ base \in Nat \ DOMAIN d /\ DOMAIN e = DOMAIN d \cup {base}
  /\ \A b \in DOMAIN d : e[b] = d[b]

\* A new, empty segment above all others.
LEMMA KeptLinked ==
  ASSUME NEW fs, NEW d, NEW e, NEW base, Links(d, e, base), Proper(fs, d), Proper(fs, e),
         fs[e[base]].data = << >>,
         \A b \in DOMAIN d : b + Len(fs[d[b]].data) <= base,
         NEW fl, NEW A \in SUBSET Rec, NEW hard, Kept(fs, d, fl, A, hard)
  PROVE  Kept(fs, e, fl, A, hard)
<1> SUFFICES ASSUME NEW r \in A
             PROVE  /\ fl <= r.lsn => \E b \in DOMAIN e : Home(fs, e, r, b, hard)
                    /\ \E b \in DOMAIN e : r.lsn < b + Extent(fs[e[b]], hard)
  BY DEF Kept
<1>1. r.lsn \in Nat /\ base \in Nat
  BY DEF Links, Rec
<1>2. PICK b \in DOMAIN d : r.lsn < b + Extent(fs[d[b]], hard)
  BY DEF Kept
<1>3. r.lsn < base
  <2>1. /\ b \in Nat /\ Extent(fs[d[b]], hard) \in Nat /\ Len(fs[d[b]].data) \in Nat
        /\ Extent(fs[d[b]], hard) <= Len(fs[d[b]].data)
    BY ExtentFacts
  <2>2. b + Len(fs[d[b]].data) <= base
    OBVIOUS
  <2> QED BY <1>1, <1>2, <2>1, <2>2
<1>4. ASSUME NEW x \in DOMAIN d, Home(fs, d, r, x, hard) PROVE Home(fs, e, r, x, hard)
  BY <1>3, <1>4 DEF Home, Links
<1> QED BY <1>2, <1>4 DEF Kept, Links

LEMMA SoundLinked ==
  ASSUME NEW fs, NEW d, NEW e, NEW base, Links(d, e, base), Proper(fs, d), Proper(fs, e),
         fs[e[base]].data = << >>,
         \A b \in DOMAIN d : b + Len(fs[d[b]].data) <= base,
         NEW fl, NEW P \in SUBSET Rec, NEW cut \in Nat, Sound(fs, d, fl, P, cut)
  PROVE  Sound(fs, e, fl, P, cut)
<1>1. MayLosePower => Kept(fs, e, fl, P, TRUE)
  BY KeptLinked DEF Sound
<1>2. base \in Nat /\ \A b \in DOMAIN d : b \in Nat /\ Len(fs[d[b]].data) \in Nat
  BY ExtentFacts DEF Links
<1>3. CutOverlaps(fs, e, fl)
  <2> SUFFICES ASSUME NEW b \in DOMAIN e, NEW c \in DOMAIN e,
                      b < c, c < b + Len(fs[e[b]].data)
               PROVE  b \in DOMAIN d /\ c \in DOMAIN d
    BY DEF CutOverlaps, Sound, Links
  <2>1. Len(<< >>) = 0
    OBVIOUS
  <2>2. c \in Nat /\ b \in Nat
    BY DEF Proper
  <2>3. b # base
    BY <1>2, <2>1, <2>2
  <2>4. b \in DOMAIN d /\ e[b] = d[b]
    BY <2>3 DEF Links
  <2>5. b + Len(fs[d[b]].data) <= base
    BY <2>4
  <2>6. c # base
    BY <1>2, <2>4, <2>5
  <2> QED BY <2>4, <2>6 DEF Links
<1>4. CutOff(e, cut)
  <2>1. cut <= base
    <3>1. CASE DOMAIN d = {}
      BY <1>2, <3>1 DEF Sound, CutOff
    <3>2. CASE DOMAIN d # {}
      <4>1. PICK b \in DOMAIN d : TRUE
        BY <3>2
      <4>2. cut <= b /\ b + Len(fs[d[b]].data) <= base
        BY DEF Sound, CutOff
      <4> QED BY <1>2, <4>1, <4>2
    <3> QED BY <3>1, <3>2
  <2> QED BY <2>1 DEF Sound, CutOff, Links
<1> QED BY <1>1, <1>3, <1>4 DEF Sound

\* A segment rewritten from the LSN base on, which is published beside the old one.
LEMMA KeptRewritten ==
  ASSUME NEW fs, NEW d, NEW e, NEW base, Links(d, e, base), Proper(fs, d), Proper(fs, e),
         \A b \in DOMAIN d : b < base => CopiedTo(fs[d[b]], base, fs[e[base]]),
         Whole(fs[e[base]]), NEW fl \in Nat, base <= fl,
         NEW A \in SUBSET Rec, NEW hard, Kept(fs, d, fl, A, hard)
  PROVE  Kept(fs, e, fl, A, hard)
<1> SUFFICES ASSUME NEW r \in A
             PROVE  /\ fl <= r.lsn => \E b \in DOMAIN e : Home(fs, e, r, b, hard)
                    /\ \E b \in DOMAIN e : r.lsn < b + Extent(fs[e[b]], hard)
  BY DEF Kept
<1>1. r.lsn \in Nat /\ base \in Nat /\ base \in DOMAIN e /\ base \notin DOMAIN d
  BY DEF Links, Rec
<1>2. \E b \in DOMAIN e : r.lsn < b + Extent(fs[e[b]], hard)
  BY DEF Kept, Links
<1>3. ASSUME fl <= r.lsn PROVE \E b \in DOMAIN e : Home(fs, e, r, b, hard)
  <2>1. PICK b \in DOMAIN d : Home(fs, d, r, b, hard)
    BY <1>3 DEF Kept
  <2>2. b \in Nat /\ b # base /\ base <= r.lsn
    BY <1>1, <1>3, ExtentFacts
  <2>3. CASE base < b
    <3>1. Home(fs, e, r, b, hard)
      BY <1>1, <2>1, <2>2, <2>3 DEF Home, Links
    <3> QED BY <3>1 DEF Links
  <2>4. CASE b < base
    <3>1. r \in Range(fs[d[b]].data)
      <4>1. /\ Len(fs[d[b]].data) \in Nat /\ DOMAIN fs[d[b]].data = 1..Len(fs[d[b]].data)
            /\ Extent(fs[d[b]], hard) \in Nat
            /\ Extent(fs[d[b]], hard) <= Len(fs[d[b]].data)
        BY ExtentFacts
      <4>2. b <= r.lsn /\ r.lsn < b + Extent(fs[d[b]], hard)
        BY <2>1 DEF Home
      <4>3. r.lsn - b + 1 \in DOMAIN fs[d[b]].data
        BY <1>1, <2>2, <4>1, <4>2
      <4> QED BY <2>1, <4>3 DEF Home, Range
    <3>2. PICK k \in DOMAIN fs[e[base]].data : fs[e[base]].data[k] = r
      BY <2>2, <2>4, <3>1 DEF CopiedTo, Range
    <3>3. r.lsn = base + k - 1 /\ k \in 1..Len(fs[e[base]].data)
          /\ Len(fs[e[base]].data) \in Nat
      BY <1>1, <3>2, ExtentFacts DEF Proper
    <3>4. Extent(fs[e[base]], hard) = Len(fs[e[base]].data)
      BY DEF Extent, Whole
    <3>5. r.lsn - base + 1 = k /\ r.lsn < base + Extent(fs[e[base]], hard)
      BY <1>1, <3>3, <3>4
    <3>6. \A c \in DOMAIN e : base < c => r.lsn < c
      <4> SUFFICES ASSUME NEW c \in DOMAIN e, base < c PROVE r.lsn < c
        OBVIOUS
      <4>1. c \in DOMAIN d /\ c \in Nat
        BY <1>1, ExtentFacts DEF Links
      <4>2. b < c
        BY <1>1, <2>2, <2>4, <4>1
      <4> QED BY <2>1, <4>1, <4>2 DEF Home
    <3>7. Home(fs, e, r, base, hard)
      BY <2>2, <3>2, <3>5, <3>6 DEF Home
    <3> QED BY <1>1, <3>7
  <2> QED BY <1>1, <2>2, <2>3, <2>4
<1> QED BY <1>2, <1>3

LEMMA SoundRewritten ==
  ASSUME NEW fs, NEW d, NEW e, NEW base, Links(d, e, base), Proper(fs, d), Proper(fs, e),
         \A b \in DOMAIN d : b < base => CopiedTo(fs[d[b]], base, fs[e[base]]),
         \A c \in DOMAIN d : base < c => base + Len(fs[e[base]].data) <= c,
         NEW low \in DOMAIN d, low < base,
         Whole(fs[e[base]]), NEW fl \in Nat, base <= fl,
         NEW P \in SUBSET Rec, NEW cut \in Nat, Sound(fs, d, fl, P, cut)
  PROVE  Sound(fs, e, fl, P, cut)
<1>1. MayLosePower => Kept(fs, e, fl, P, TRUE)
  BY KeptRewritten DEF Sound
<1>2. CutOverlaps(fs, e, fl)
  <2> SUFFICES ASSUME NEW b \in DOMAIN e, NEW c \in DOMAIN e,
                      b < c, c < b + Len(fs[e[b]].data)
               PROVE  c <= fl /\ Whole(fs[e[c]]) /\ CopiedTo(fs[e[b]], c, fs[e[c]])
    BY DEF CutOverlaps
  <2>1. b \in Nat /\ c \in Nat /\ Len(fs[e[b]].data) \in Nat
    BY ExtentFacts
  <2>2. b # base
    <3>1. SUFFICES ASSUME b = base PROVE FALSE
      OBVIOUS
    <3>2. c \in DOMAIN d
      BY <2>1, <3>1 DEF Links
    <3>3. b + Len(fs[e[b]].data) <= c
      BY <3>1, <3>2
    <3> QED BY <2>1, <3>3
  <2>3. b \in DOMAIN d /\ e[b] = d[b]
    BY <2>2 DEF Links
  <2>4. CASE c = base
    BY <2>3, <2>4
  <2>5. CASE c # base
    BY <2>3, <2>5 DEF Links, Sound, CutOverlaps
  <2> QED BY <2>4, <2>5
<1>3. CutOff(e, cut)
  <2>1. cut <= low /\ low \in Nat /\ base \in Nat
    BY ExtentFacts DEF Sound, CutOff, Links
  <2> QED BY <2>1 DEF Sound, CutOff, Links
<1> QED BY <1>1, <1>2, <1>3 DEF Sound

\* The directory e is d without the name x.
Unlinks(d, e, x) ==
  DOMAIN e = DOMAIN d \ {x} /\ \A b \in DOMAIN e : e[b] = d[b]

\* A segment whose records are below the bound or in a later one; the LSNs it
\* has used are below the end of another.
LEMMA KeptUnlinked ==
  ASSUME NEW fs, NEW d, NEW e, NEW x \in DOMAIN d, Unlinks(d, e, x), Proper(fs, d),
         NEW fl \in Nat, CutOverlaps(fs, d, fl), NEW hard,
         \A r \in Range(fs[d[x]].data) : fl <= r.lsn =>
           \E c \in DOMAIN e : x < c /\ r \in Range(fs[d[c]].data),
         \E c \in DOMAIN e :
           x < c \/ (fs[d[x]].data = << >> /\ x <= c + Extent(fs[d[c]], hard)),
         NEW A \in SUBSET Rec, Kept(fs, d, fl, A, hard)
  PROVE  Kept(fs, e, fl, A, hard)
<1> SUFFICES ASSUME NEW r \in A
             PROVE  /\ fl <= r.lsn => \E b \in DOMAIN e : Home(fs, e, r, b, hard)
                    /\ \E b \in DOMAIN e : r.lsn < b + Extent(fs[e[b]], hard)
  BY DEF Kept
<1>1. r.lsn \in Nat
  BY DEF Rec
<1>2. ASSUME NEW b \in DOMAIN d, b # x, Home(fs, d, r, b, hard)
      PROVE  b \in DOMAIN e /\ Home(fs, e, r, b, hard)
  <2>1. b \in DOMAIN e /\ e[b] = d[b]
    BY <1>2 DEF Unlinks
  <2> QED BY <1>2, <2>1 DEF Home, Unlinks
<1>3. /\ x \in Nat /\ Len(fs[d[x]].data) \in Nat
      /\ DOMAIN fs[d[x]].data = 1..Len(fs[d[x]].data)
      /\ Extent(fs[d[x]], hard) \in Nat
      /\ Extent(fs[d[x]], hard) <= Len(fs[d[x]].data)
  BY ExtentFacts
<1>4. ASSUME fl <= r.lsn, Home(fs, d, r, x, hard) PROVE FALSE
  <2>1. x <= r.lsn /\ r.lsn < x + Extent(fs[d[x]], hard)
    BY <1>4 DEF Home
  <2>2. r.lsn - x + 1 \in 1..Len(fs[d[x]].data)
    BY <1>1, <1>3, <2>1
  <2>3. r \in Range(fs[d[x]].data)
    BY <1>3, <1>4, <2>2 DEF Home, Range
  <2>4. PICK c \in DOMAIN e : x < c /\ r \in Range(fs[d[c]].data)
    BY <1>4, <2>3
  <2>5. c \in DOMAIN d
    BY DEF Unlinks
  <2>6. r.lsn < c
    BY <1>4, <2>4, <2>5 DEF Home
  <2>7. PICK k \in DOMAIN fs[d[c]].data : r = fs[d[c]].data[k]
    BY <2>4 DEF Range
  <2>8. r.lsn = c + k - 1 /\ c \in Nat /\ k \in 1..Len(fs[d[c]].data)
    BY <2>5, <2>7, ExtentFacts DEF Proper
  <2> QED BY <1>1, <2>6, <2>8
<1>5. fl <= r.lsn => \E b \in DOMAIN e : Home(fs, e, r, b, hard)
  BY <1>2, <1>4 DEF Kept
<1>6. ASSUME r.lsn < x + Extent(fs[d[x]], hard)
      PROVE  \E b \in DOMAIN e : r.lsn < b + Extent(fs[e[b]], hard)
  <2>1. PICK c \in DOMAIN e :
          x < c \/ (fs[d[x]].data = << >> /\ x <= c + Extent(fs[d[c]], hard))
    OBVIOUS
  <2>2. c \in DOMAIN d /\ e[c] = d[c]
    BY DEF Unlinks
  <2>3. /\ c \in Nat /\ Len(fs[d[c]].data) \in Nat /\ Extent(fs[d[c]], hard) \in Nat
        /\ DOMAIN fs[d[c]].data = 1..Len(fs[d[c]].data)
    BY <2>2, ExtentFacts
  <2>4. CASE x < c
    <3>1. CASE x + Len(fs[d[x]].data) <= c
      <4>1. /\ r.lsn < x + Extent(fs[d[x]], hard)
            /\ Extent(fs[d[x]], hard) <= Len(fs[d[x]].data)
        BY <1>3, <1>6
      <4>2. r.lsn < c + Extent(fs[d[c]], hard)
        <5>1. r.lsn < x + Len(fs[d[x]].data)
          BY <1>1, <1>3, <4>1
        <5>2. r.lsn < c
          BY <1>1, <1>3, <2>3, <3>1, <5>1
        <5> QED BY <1>1, <2>3, <5>2
      <4> QED BY <2>2, <4>2
    <3>2. CASE c < x + Len(fs[d[x]].data)
      <4>1. Whole(fs[d[c]]) /\ CopiedTo(fs[d[x]], c, fs[d[c]])
        BY <2>2, <2>4, <3>2 DEF CutOverlaps
      <4> DEFINE n == Len(fs[d[x]].data)
                 q == fs[d[x]].data[n]
      <4>2. n \in DOMAIN fs[d[x]].data /\ q.lsn = x + n - 1
        <5>1. n \in 1..n
          BY <1>3, <2>3, <2>4, <3>2
        <5> QED BY <1>3, <5>1 DEF Proper
      <4>3. q \in Range(fs[d[c]].data)
        <5>1. q \in Range(fs[d[x]].data)
          BY <4>2 DEF Range
        <5>2. c <= q.lsn
          BY <1>3, <2>3, <3>2, <4>2
        <5> QED BY <4>1, <5>1, <5>2 DEF CopiedTo
      <4>4. PICK k \in DOMAIN fs[d[c]].data : q = fs[d[c]].data[k]
        BY <4>3 DEF Range
      <4>5. q.lsn = c + k - 1 /\ k <= Len(fs[d[c]].data) /\ k \in Nat
        BY <2>2, <2>3, <4>4, SMTT(30) DEF Proper
      <4>6. Extent(fs[d[c]], hard) = Len(fs[d[c]].data)
        BY <4>1 DEF Extent, Whole
      <4> DEFINE ex == Extent(fs[d[x]], hard)
                 ec == Extent(fs[d[c]], hard)
      <4>7. n \in Nat /\ ex \in Nat /\ ex <= n /\ ec \in Nat /\ q.lsn <= c + ec - 1
        <5>1. q.lsn <= c + Len(fs[d[c]].data) - 1
          BY <2>3, <4>5
        <5> QED BY <1>3, <2>3, <4>6, <5>1
      <4>8. r.lsn < c + ec
        <5>1. r.lsn < x + ex /\ q.lsn = x + n - 1
          BY <1>6, <4>2
        <5> HIDE DEF n, q, ex, ec
        <5> QED BY <1>1, <1>3, <2>3, <4>7, <5>1
      <4> QED BY <2>2, <4>8
    <3> QED BY <1>3, <2>3, <3>1, <3>2
  <2>5. CASE fs[d[x]].data = << >> /\ x <= c + Extent(fs[d[c]], hard)
    <3>1. Extent(fs[d[x]], hard) = 0
      <4>1. Len(<< >>) = 0
        OBVIOUS
      <4> QED BY <1>3, <2>5, <4>1
    <3>2. r.lsn < c + Extent(fs[d[c]], hard)
      BY <1>1, <1>3, <1>6, <2>3, <2>5, <3>1
    <3> QED BY <2>2, <3>2
  <2> QED BY <2>1, <2>4, <2>5
<1>7. \E b \in DOMAIN e : r.lsn < b + Extent(fs[e[b]], hard)
  <2>1. PICK b \in DOMAIN d : r.lsn < b + Extent(fs[d[b]], hard)
    BY DEF Kept
  <2>2. CASE b = x
    BY <1>6, <2>1, <2>2
  <2>3. CASE b # x
    BY <2>1, <2>3 DEF Unlinks
  <2> QED BY <2>2, <2>3
<1> QED BY <1>5, <1>7

LEMMA SoundUnlinked ==
  ASSUME NEW fs, NEW d, NEW e, NEW x \in DOMAIN d, Unlinks(d, e, x), Proper(fs, d),
         NEW fl \in Nat,
         \A r \in Range(fs[d[x]].data) : fl <= r.lsn =>
           \E c \in DOMAIN e : x < c /\ r \in Range(fs[d[c]].data),
         \E c \in DOMAIN e :
           x < c \/ (fs[d[x]].data = << >> /\ x <= c + Extent(fs[d[c]], MayLosePower)),
         NEW P \in SUBSET Rec, NEW cut, Sound(fs, d, fl, P, cut)
  PROVE  Sound(fs, e, fl, P, cut)
<1>1. MayLosePower => Kept(fs, e, fl, P, TRUE)
  <2> SUFFICES ASSUME MayLosePower PROVE Kept(fs, e, fl, P, TRUE)
    OBVIOUS
  <2>1. Kept(fs, d, fl, P, TRUE) /\ CutOverlaps(fs, d, fl)
    BY DEF Sound
  <2>2. \E c \in DOMAIN e :
          x < c \/ (fs[d[x]].data = << >> /\ x <= c + Extent(fs[d[c]], TRUE))
    BY DEF Extent
  <2> QED BY <2>1, <2>2, KeptUnlinked
<1>2. CutOverlaps(fs, e, fl) /\ CutOff(e, cut)
  BY DEF Sound, CutOverlaps, CutOff, Unlinks
<1> QED BY <1>1, <1>2 DEF Sound

\* A power loss leaves of f what is on stable storage and perhaps more.
Survives(f, g) ==
  /\ f.synced <= g.synced /\ Whole(g) /\ Len(g.data) <= Len(f.data)
  /\ \A k \in DOMAIN g.data : g.data[k] = f.data[k]
  /\ Whole(f) => g.data = f.data

LEMMA KeptSurvives ==
  ASSUME NEW fs, NEW gs, NEW d, Proper(fs, d), Proper(gs, d),
         \A b \in DOMAIN d : Survives(fs[d[b]], gs[d[b]]),
         NEW fl, NEW P \in SUBSET Rec, Kept(fs, d, fl, P, TRUE), NEW hard
  PROVE  Kept(gs, d, fl, P, hard)
<1>1. ASSUME NEW r \in P, NEW b \in DOMAIN d
      PROVE  /\ r.lsn < b + Extent(fs[d[b]], TRUE) => r.lsn < b + Extent(gs[d[b]], hard)
             /\ Home(fs, d, r, b, TRUE) => Home(gs, d, r, b, hard)
  <2>1. /\ b \in Nat /\ r.lsn \in Nat
        /\ fs[d[b]].synced \in Nat /\ gs[d[b]].synced \in Nat
        /\ DOMAIN gs[d[b]].data = 1..Len(gs[d[b]].data) /\ Len(gs[d[b]].data) \in Nat
    BY ExtentFacts DEF Rec
  <2>2. /\ Extent(fs[d[b]], TRUE) = fs[d[b]].synced
        /\ Extent(gs[d[b]], hard) = gs[d[b]].synced /\ gs[d[b]].synced = Len(gs[d[b]].data)
        /\ fs[d[b]].synced <= gs[d[b]].synced
    BY DEF Extent, Survives, Whole
  <2> DEFINE ef == Extent(fs[d[b]], TRUE)
             eg == Extent(gs[d[b]], hard)
  <2>5. ef \in Nat /\ eg \in Nat /\ ef <= eg /\ eg = Len(gs[d[b]].data)
    BY <2>1, <2>2
  <2> HIDE DEF ef, eg
  <2>3. r.lsn < b + ef => r.lsn < b + eg
    BY <2>1, <2>5
  <2>4. ASSUME Home(fs, d, r, b, TRUE) PROVE Home(gs, d, r, b, hard)
    <3>1. b <= r.lsn /\ r.lsn < b + ef
      BY <2>4 DEF Home, ef
    <3>2. r.lsn - b + 1 \in 1..eg
      BY <2>1, <2>5, <3>1
    <3>3. gs[d[b]].data[r.lsn - b + 1] = fs[d[b]].data[r.lsn - b + 1]
      BY <2>1, <2>5, <3>2 DEF Survives
    <3> QED BY <2>3, <2>4, <3>1, <3>3 DEF Home, eg
  <2> QED BY <2>3, <2>4 DEF ef, eg
<1> QED BY <1>1 DEF Kept

LEMMA SoundSurvives ==
  ASSUME NEW fs, NEW gs, NEW d, Proper(fs, d), Proper(gs, d), MayLosePower,
         \A b \in DOMAIN d : Survives(fs[d[b]], gs[d[b]]),
         NEW fl, NEW P \in SUBSET Rec, NEW cut, Sound(fs, d, fl, P, cut)
  PROVE  Sound(gs, d, fl, P, cut)
<1>1. MayLosePower => Kept(gs, d, fl, P, TRUE)
  BY KeptSurvives DEF Sound
<1>2. CutOverlaps(gs, d, fl)
  <2> SUFFICES ASSUME NEW b \in DOMAIN d, NEW c \in DOMAIN d,
                      b < c, c < b + Len(gs[d[b]].data)
               PROVE  c <= fl /\ Whole(gs[d[c]]) /\ CopiedTo(gs[d[b]], c, gs[d[c]])
    BY DEF CutOverlaps
  <2>1. /\ b \in Nat /\ c \in Nat /\ Len(fs[d[b]].data) \in Nat /\ Len(gs[d[b]].data) \in Nat
        /\ DOMAIN fs[d[b]].data = 1..Len(fs[d[b]].data)
        /\ DOMAIN gs[d[b]].data = 1..Len(gs[d[b]].data)
        /\ Len(gs[d[b]].data) <= Len(fs[d[b]].data)
    BY ExtentFacts DEF Survives
  <2>2. c < b + Len(fs[d[b]].data)
    BY <2>1
  <2>3. c <= fl /\ Whole(fs[d[c]]) /\ CopiedTo(fs[d[b]], c, fs[d[c]])
    BY <2>2 DEF Sound, CutOverlaps
  <2>4. gs[d[c]].data = fs[d[c]].data /\ Whole(gs[d[c]])
    BY <2>3 DEF Survives
  <2>5. Range(gs[d[b]].data) \subseteq Range(fs[d[b]].data)
    <3>1. \A k \in DOMAIN gs[d[b]].data :
            k \in DOMAIN fs[d[b]].data /\ gs[d[b]].data[k] = fs[d[b]].data[k]
      BY <2>1 DEF Survives
    <3> QED BY <3>1 DEF Range
  <2> QED BY <2>3, <2>4, <2>5 DEF CopiedTo
<1> QED BY <1>1, <1>2 DEF Sound

-----------------------------------------------------------------------------
(* Steps: what one has to do to keep the two directories as they must be.  *)

Known == ControlOK /\ PlacementOK /\ Agreement /\ (MayLosePower => Durable)

Bounded(f) == f.synced <= Len(f.data)

\* The file g has the records of f and no others.
SameRecords(f, g) == Grows(f, g) /\ g.data = f.data

\* A step that takes no record from a file that has a name.
FilesKept ==
  \A i \in Inodes :
    /\ Bounded(files'[i])
    /\ i \in Range(dir') \cup Range(durableDir') => SameRecords(files[i], files'[i])

LEMMA DirsProper ==
  ASSUME ControlOK, PlacementOK, StorageOK, NEW d \in {dir, durableDir}
  PROVE  Proper(files, d)
<1>1. DOMAIN d \subseteq Nat
  BY DEF DiskTypeOK
<1>2. ASSUME NEW b \in DOMAIN d
      PROVE  d[b] \in Inodes /\ files[d[b]] \in File /\ Placed(d[b], b)
  BY NamedType DEF PlacementOK, NamesOK
<1> QED BY <1>1, <1>2 DEF Proper, Placed, StorageOK

LEMMA NextDirsProper ==
  ASSUME ControlOK', PlacementOK', StorageOK', NEW d \in {dir', durableDir'}
  PROVE  Proper(files', d)
<1>1. DOMAIN d \subseteq Nat /\ files' \in [Inodes -> File] /\ Range(d) \subseteq Inodes
  BY DEF DiskTypeOK
<1>2. ASSUME NEW b \in DOMAIN d
      PROVE  /\ d[b] \in Inodes /\ files'[d[b]] \in File
             /\ \A k \in DOMAIN files'[d[b]].data : files'[d[b]].data[k].lsn = b + k - 1
  <2>1. d[b] \in Range(d)
    BY DEF Range
  <2>2. \A e \in {dir', durableDir'} : \A c \in DOMAIN e :
          \A k \in DOMAIN files'[e[c]].data : files'[e[c]].data[k].lsn = c + k - 1
    BY DEF PlacementOK, NamesOK, Placed
  <2> QED BY <1>1, <2>1, <2>2
<1> QED BY <1>1, <1>2 DEF Proper, StorageOK

LEMMA FileOps ==
  ASSUME NEW f \in File, Bounded(f)
  PROVE  /\ SameRecords(f, f)
         /\ Bounded(Fsynced(f)) /\ Whole(Fsynced(f)) /\ SameRecords(f, Fsynced(f))
         /\ LET g == TruncatedToValidEnd(f)
            IN  Bounded(g) /\ SameRecords(f, g)
         /\ LET g == [f EXCEPT !.hdr = "cached"]
            IN  Bounded(g) /\ SameRecords(f, g)
         /\ LET g == [f EXCEPT !.junk = 0]
            IN  Bounded(g) /\ SameRecords(f, g)
<1>1. f.synced \in Nat /\ Len(f.data) \in Nat /\ f.synced <= Len(f.data)
  BY DEF File, Bounded
<1>2. ASSUME NEW g, g.data = f.data, g.synced \in {f.synced, Len(f.data)}
      PROVE  Bounded(g) /\ SameRecords(f, g)
  BY <1>1, <1>2 DEF SameRecords, Grows, Bounded
<1>3. Fsynced(f).data = f.data /\ Fsynced(f).synced = Len(f.data)
  BY DEF Fsynced, File
<1>4. LET g == TruncatedToValidEnd(f) IN g.data = f.data /\ g.synced = Len(f.data)
  BY DEF TruncatedToValidEnd, Fsynced, File
<1>5. LET g == [f EXCEPT !.hdr = "cached"] IN g.data = f.data /\ g.synced = f.synced
  BY DEF File
<1>6. LET g == [f EXCEPT !.junk = 0] IN g.data = f.data /\ g.synced = f.synced
  BY DEF File
<1>7. Whole(Fsynced(f))
  BY <1>3 DEF Whole
<1> QED BY <1>2, <1>3, <1>4, <1>5, <1>6, <1>7

LEMMA NewFileBounded == Bounded(NewFile) /\ NewFile.data = << >> /\ Whole(NewFile)
<1>1. Len(<< >>) = 0
  OBVIOUS
<1> QED BY <1>1 DEF Bounded, NewFile, Whole

\* The usual steps: files are left alone, fsynced, or lost because no directory
\* names them.
LEMMA UsualFiles ==
  ASSUME ControlOK, StorageOK,
         \A i \in Inodes :
           \/ files'[i] \in {files[i], Fsynced(files[i])}
           \/ files'[i] = NewFile /\ i \notin Range(dir') \cup Range(durableDir')
  PROVE  FilesKept
<1> SUFFICES ASSUME NEW i \in Inodes
             PROVE  /\ Bounded(files'[i])
                    /\ i \in Range(dir') \cup Range(durableDir') =>
                         SameRecords(files[i], files'[i])
  BY DEF FilesKept
<1>1. files[i] \in File /\ Bounded(files[i])
  BY DEF DiskTypeOK, StorageOK, Bounded
<1> QED BY <1>1, FileOps, NewFileBounded

LEMMA CollectedFilesKept ==
  ASSUME ControlOK, StorageOK, NEW live, files' = Collected(files, live),
         Range(dir') \cup Range(durableDir') \subseteq live
  PROVE  FilesKept
BY UsualFiles DEF Collected

\* Where nothing is added to a directory or removed from one.
LEMMA SameNames ==
  ASSUME Known, Known', Survival, FilesKept,
         dir' = dir, durableDir' \in {dir, durableDir},
         pc' = "createOpen" => (MayLosePower => durableDir' = dir),
         floor <= floor', Answered' \subseteq Answered,
         cutDone' = cutDone \/ (CutOff(dir, cutDone') /\ (MayLosePower => durableDir' = dir)),
         \/ promised' = promised
         \/ /\ promised' \subseteq Answered
            /\ MayLosePower => durableDir' = dir /\ \A b \in DOMAIN dir : Whole(files'[dir[b]])
  PROVE  StorageOK' /\ DirsOK'
<1> USE DEF Known, Survival
<1>1. StorageOK'
  <2>1. OneApart(dir, dir)
    BY DEF OneApart
  <2>2. MayLosePower => OneApart(dir', durableDir')
    BY <2>1 DEF StorageOK
  <2>3. MayLosePower => (pc' = "createOpen" => SameDir(dir', durableDir'))
    BY DEF SameDir
  <2> QED BY <2>2, <2>3 DEF StorageOK, FilesKept, Bounded
<1>2. ASSUME NEW d \in {dir', durableDir'}
      PROVE  /\ d \in {dir, durableDir} /\ Proper(files, d) /\ Proper(files', d)
             /\ \A b \in DOMAIN d : Grows(files[d[b]], files'[d[b]])
                                     /\ files'[d[b]].data = files[d[b]].data
  <2>1. Proper(files, d) /\ Proper(files', d) /\ d \in {dir, durableDir}
    BY <1>1, DirsProper, NextDirsProper
  <2>2. \A b \in DOMAIN d : d[b] \in Inodes /\ d[b] \in Range(dir') \cup Range(durableDir')
    BY DEF Range, DiskTypeOK
  <2> QED BY <2>1, <2>2 DEF FilesKept, SameRecords
<1>3. /\ floor \in Nat /\ floor' \in Nat /\ Answered \in SUBSET Rec
      /\ promised \in SUBSET Rec /\ promised' \in SUBSET Rec
  BY DEF HistTypeOK, ControlTypeOK, Answered
<1>4. Kept(files', dir', floor', Answered', FALSE)
  <2>1. Kept(files, dir, floor, Answered, FALSE)
    BY DEF DirsOK
  <2> QED BY <1>2, <1>3, <2>1, KeptGrows
<1>5. Sound(files', dir', floor', promised, cutDone)
  <2>1. Sound(files, dir, floor, promised, cutDone)
    BY DEF DirsOK
  <2> QED BY <1>2, <1>3, <2>1, SoundGrows
<1>6. MayLosePower => Sound(files', durableDir', floor', promised, cutDone)
  <2>1. MayLosePower => Sound(files, durableDir', floor, promised, cutDone)
    BY DEF DirsOK
  <2> QED BY <1>2, <1>3, <2>1, SoundGrows
<1>7. ASSUME promised' # promised, MayLosePower
      PROVE  Kept(files', dir', floor', promised', TRUE)
  <2>1. Kept(files, dir, floor, Answered, FALSE)
    BY DEF DirsOK
  <2>2. Kept(files', dir', floor', promised', FALSE)
    BY <1>2, <1>3, <1>7, <2>1, KeptGrows
  <2> QED BY <1>7, <2>2, KeptWhole
<1>8. ASSUME NEW d \in {dir', durableDir'}, d = dir' \/ MayLosePower
      PROVE  Sound(files', d, floor', promised', cutDone')
  <2>1. Sound(files', d, floor', promised, cutDone)
    BY <1>5, <1>6, <1>8
  <2>2. MayLosePower => Kept(files', d, floor', promised', TRUE)
    BY <1>7, <2>1, <1>8 DEF Sound
  <2>3. CutOff(d, cutDone')
    BY <1>8, <2>1 DEF Sound
  <2> QED BY <2>1, <2>2, <2>3 DEF Sound
<1>9. DirsOK'
  BY <1>4, <1>8 DEF DirsOK
<1> QED BY <1>1, <1>9

\* Where nothing is deleted, cut or about to be published.
LEMMA NoDrop ==
  ASSUME job'.kind \in {"none", "init", "roll", "recover"},
         pc' \notin {"remove", "publishSync", "publish", "reconcile", "prune"}
  PROVE  DoomedOK' /\ RewriteOK' /\ FloorOK'
BY DEF DoomedOK, RewriteOK, FloorOK, Dropping

\* Where nothing is written or acknowledged.
LEMMA SameAcks ==
  ASSUME AcksOK, UNCHANGED <<acked, promised, batch, lastLSN, nextLSN>>,
         Opened' => Opened, Committing => Committing'
  PROVE  AcksOK'
BY DEF AcksOK

LEMMA SameAnswered ==
  ASSUME UNCHANGED <<acked, batch>>
  PROVE  Answered' = Answered
BY DEF Answered

\* Steps that touch no file and no directory.
LEMMA SameDisk ==
  ASSUME Known, StorageOK, UNCHANGED disk
  PROVE  FilesKept /\ dir' = dir /\ durableDir' = durableDir
BY UsualFiles DEF Known, disk

\* An fsync of one file, or of none.
LEMMA SyncedFilesKept ==
  ASSUME Known, StorageOK, NEW i \in Inodes,
         files' \in {files, [files EXCEPT ![i] = Fsynced(files[i])]}
  PROVE  FilesKept
BY UsualFiles DEF Known, DiskTypeOK

-----------------------------------------------------------------------------
(* Group commits.                                                          *)

LEMMA BatchType ==
  ASSUME ControlOK
  PROVE  /\ batch.cur \in SUBSET Rec /\ batch.done \in SUBSET Rec
         /\ acked \in SUBSET Rec /\ promised \in SUBSET Rec
         /\ floor \in Nat /\ cutDone \in Nat /\ nextLSN \in Nat /\ lastLSN \in Nat
BY DEF ControlTypeOK, HistTypeOK, MemTypeOK

LEMMA BeginCommitSurvival ==
  ASSUME Known, Known', Survival, NEW b \in Batches, BeginCommit(b)
  PROVE  Survival'
<1> USE DEF Known, BeginCommit, Survival, hist
<1>1. /\ ~Committing /\ job.kind = "none" /\ batch'.cur = {} /\ batch'.done = {}
      /\ ~batch'.wrote
  BY ServingFacts DEF NoBatch
<1>2. FilesKept /\ dir' = dir /\ durableDir' = durableDir
  BY SameDisk
<1>3. Answered' \subseteq Answered
  BY <1>1 DEF Answered
<1>4. StorageOK' /\ DirsOK'
  BY <1>2, <1>3, SameNames, BatchType
<1>5. DoomedOK' /\ RewriteOK' /\ FloorOK'
  BY <1>1, NoDrop
<1>6. AcksOK'
  <2>1. Opened /\ lastLSN' = lastLSN
    BY ServingFacts DEF mem
  <2> QED BY <1>1, <2>1 DEF AcksOK
<1> QED BY <1>4, <1>5, <1>6

LEMMA CompleteRequestSurvival ==
  ASSUME Known, Known', Survival, CompleteRequest
  PROVE  Survival'
<1> USE DEF Known, CompleteRequest, Survival, hist
<1>1. /\ Committing /\ Opened /\ job.kind = "none" /\ batch'.cur = {}
      /\ batch'.done = batch.cur \cup batch.done /\ batch'.wrote
  BY ServingFacts DEF Committing
<1>2. FilesKept /\ dir' = dir /\ durableDir' = durableDir
  BY SameDisk
<1>3. Answered' \subseteq Answered
  BY <1>1 DEF Answered
<1>4. StorageOK' /\ DirsOK'
  BY <1>2, <1>3, SameNames, BatchType
<1>5. DoomedOK' /\ RewriteOK' /\ FloorOK'
  BY <1>1, NoDrop
<1>6. AcksOK'
  <2>1. Committing' /\ lastLSN' = lastLSN /\ nextLSN' = nextLSN
    BY DEF Committing, mem
  <2> QED BY <1>1, <2>1 DEF AcksOK
<1> QED BY <1>4, <1>5, <1>6

\* The fsync makes what is acknowledged as safe as the policy says.
LEMMA FinishBatchSurvival ==
  ASSUME Known, Known', Survival, FinishBatch
  PROVE  Survival'
<1> USE DEF Known, FinishBatch, Survival
<1>1. /\ Committing /\ Opened /\ job.kind = "none" /\ active \in Inodes /\ ~DirAhead
      /\ fresh \notin Inodes
  BY ServingFacts, NotAhead, OpenedIff DEF Committing
<1>2. FilesKept
  BY <1>1, SyncedFilesKept DEF ActiveFile
<1>3. Answered' \subseteq Answered /\ promised' \subseteq Answered
  BY DEF Answered, NoBatch, AcksOK
<1>4. ASSUME MayLosePower, FsyncOnCommit
      PROVE  durableDir' = dir /\ \A b \in DOMAIN dir : Whole(files'[dir[b]])
  <2>1. durableDir' = dir
    BY <1>1, <1>4 DEF Durable
  <2>2. Synced(active)' /\ active' = active
    <3>1. Opened' /\ ~Unpublished'
      <4>1. Opened' /\ ~Committing'
        BY <1>1 DEF Opened, Committing
      <4> QED BY <4>1 DEF Agreement, BoundsOK
    <3> QED BY <1>4, <3>1 DEF Durable, FsyncOnCommit
  <2>3. \A b \in DOMAIN dir : ~HasUnsynced(files'[dir[b]])
    <3>1. \A b \in DOMAIN dir : dir[b] \in Inodes
      BY SegsType
    <3>2. fresh' = fresh /\ dir' = dir
      OBVIOUS
    <3> QED BY <1>1, <1>4, <2>2, <3>1, <3>2 DEF Durable, Synced
  <2>4. ASSUME NEW b \in DOMAIN dir PROVE Whole(files'[dir[b]])
    <3>1. files'[dir[b]] \in File /\ Bounded(files'[dir[b]])
      BY <1>2, SegsType DEF FilesKept, DiskTypeOK
    <3> QED BY <2>3, <3>1 DEF Whole, HasUnsynced, Bounded, File
  <2> QED BY <2>1, <2>4
<1>5. StorageOK' /\ DirsOK'
  <2>1. \/ promised' = promised
        \/ /\ promised' \subseteq Answered
           /\ MayLosePower => durableDir' = dir /\ \A b \in DOMAIN dir : Whole(files'[dir[b]])
    BY <1>3, <1>4 DEF FsyncOnCommit
  <2> QED BY <1>2, <1>3, <2>1, SameNames, BatchType
<1>6. DoomedOK' /\ RewriteOK' /\ FloorOK'
  BY <1>1, NoDrop
<1>7. AcksOK'
  <2>1. batch'.cur = {} /\ batch'.done = {} /\ acked' = acked \cup batch.done
    BY DEF NoBatch
  <2>2. \A r \in acked' : r.lsn <= lastLSN'
    <3> SUFFICES ASSUME NEW r \in acked' PROVE r.lsn <= lastLSN'
      OBVIOUS
    <3>1. r.lsn \in Nat /\ lastLSN \in Nat /\ nextLSN \in Nat
      BY <2>1, BatchType DEF Rec
    <3>2. lastLSN < nextLSN
      BY <1>1 DEF Agreement, BoundsOK
    <3>3. CASE r \in batch.done
      BY <3>1, <3>3 DEF AcksOK
    <3>4. CASE r \in acked
      BY <1>1, <3>1, <3>2, <3>4 DEF AcksOK
    <3> QED BY <2>1, <3>3, <3>4
  <2>3. promised' \subseteq acked'
    BY <2>1 DEF AcksOK
  <2> QED BY <2>1, <2>2, <2>3 DEF AcksOK
<1> QED BY <1>5, <1>6, <1>7

\* Sync, under either policy: everything else is on stable storage already.
LEMMA SyncActiveSurvival ==
  ASSUME Known, Known', Survival, SyncActive
  PROVE  Survival'
<1> USE DEF Known, SyncActive, Survival
<1>1. /\ ~Committing /\ Opened /\ job.kind = "none" /\ active \in Inodes /\ ~DirAhead
      /\ fresh \notin Inodes
  BY ServingFacts, NotAhead, OpenedIff
<1>2. FilesKept
  BY <1>1, SyncedFilesKept DEF Flushed, ActiveFile
<1>3. Answered' = Answered /\ promised' \subseteq Answered
  BY DEF Answered
<1>4. ASSUME MayLosePower
      PROVE  durableDir' = dir /\ \A b \in DOMAIN dir : Whole(files'[dir[b]])
  <2>1. durableDir' = dir
    BY <1>1, <1>4 DEF Durable
  <2>2. ASSUME NEW b \in DOMAIN dir PROVE Whole(files'[dir[b]])
    <3>1. /\ dir[b] \in Inodes /\ files[dir[b]] \in File /\ files'[dir[b]] \in File
          /\ Bounded(files'[dir[b]]) /\ Bounded(files[dir[b]])
      BY <1>2, SegsType DEF FilesKept, DiskTypeOK, StorageOK, Bounded
    <3>2. CASE dir[b] = active
      BY <3>1, <3>2, FileOps DEF Flushed, ActiveFile, DiskTypeOK
    <3>3. CASE dir[b] # active
      <4>1. files'[dir[b]] = files[dir[b]]
        BY <3>1, <3>3 DEF Flushed, ActiveFile, DiskTypeOK
      <4>2. ~HasUnsynced(files[dir[b]])
        BY <1>1, <1>4, <3>1, <3>3 DEF Durable, Synced
      <4> QED BY <3>1, <4>1, <4>2 DEF Whole, HasUnsynced, Bounded, File
    <3> QED BY <3>2, <3>3
  <2> QED BY <2>1, <2>2
<1>5. StorageOK' /\ DirsOK'
  BY <1>2, <1>3, <1>4, SameNames, BatchType
<1>6. DoomedOK' /\ RewriteOK' /\ FloorOK'
  BY <1>1, NoDrop
<1>7. AcksOK'
  BY DEF AcksOK, Committing, mem, Opened
<1> QED BY <1>5, <1>6, <1>7

\* The segments of the index do not overlap.
LEMMA IndexApart ==
  ASSUME ControlOK, PlacementOK, Agreement, Opened, ~Dropping
  PROVE  /\ \A b, c \in Range(index) : b < c => Segs[b] <= c
         /\ \A b \in Range(index) :
              /\ b \in Nat /\ b \in DOMAIN dir /\ b <= LastBase
              /\ Segs[b] \in Nat /\ b <= Segs[b] /\ Segs[b] <= nextLSN
              /\ index[1] <= b
         /\ LastBase \in Range(index) /\ index[1] \in Range(index)
<1>1. /\ Len(index) \in Nat /\ Len(index) > 0 /\ DOMAIN index = 1..Len(index)
      /\ LastBase = index[Len(index)] /\ Ascending(index)
      /\ LastBase \in Nat /\ LastBase <= nextLSN /\ nextLSN \in Nat /\ nextLSN = Segs[LastBase]
  BY IndexFacts
<1>2. \A k \in 1..Len(index) :
        /\ index[k] \in Nat /\ index[k] \in DOMAIN dir /\ index[k] <= LastBase
        /\ Segs[index[k]] \in Nat /\ index[k] <= Segs[index[k]]
        /\ k < Len(index) => index[k + 1] = Segs[index[k]]
  BY IndexFacts
<1>3. ASSUME NEW j \in 1..Len(index), NEW k \in 1..Len(index), index[j] < index[k]
      PROVE  Segs[index[j]] <= index[k]
  <2>1. j < k
    <3>1. ~(k < j)
      <4>1. k < j => index[k] < index[j]
        BY <1>1 DEF Ascending
      <4>2. index[k] \in Nat /\ index[j] \in Nat
        BY <1>2
      <4> QED BY <1>3, <4>1, <4>2
    <3>2. k # j
      BY <1>2, <1>3
    <3> QED BY <3>1, <3>2
  <2>2. j + 1 \in 1..Len(index) /\ j < Len(index)
    BY <1>1, <2>1
  <2>3. j + 1 = k \/ index[j + 1] < index[k]
    BY <1>1, <2>1, <2>2 DEF Ascending
  <2>4. index[j + 1] = Segs[index[j]] /\ index[j + 1] \in Nat
    BY <1>2, <2>2
  <2> QED BY <1>2, <2>3, <2>4
<1>4. ASSUME NEW k \in 1..Len(index) PROVE Segs[index[k]] <= nextLSN /\ index[1] <= index[k]
  <2>1. Segs[index[k]] <= nextLSN
    <3>1. CASE index[k] = LastBase
      BY <1>1, <3>1
    <3>2. CASE index[k] # LastBase
      <4>1. index[k] < LastBase /\ Len(index) \in 1..Len(index)
        BY <1>1, <1>2, <3>2
      <4>2. Segs[index[k]] <= LastBase
        BY <1>1, <1>3, <4>1
      <4> QED BY <1>1, <1>2, <4>2
    <3> QED BY <3>1, <3>2
  <2>2. index[1] <= index[k]
    <3>1. 1 \in DOMAIN index /\ k \in DOMAIN index
      BY <1>1
    <3>2. k = 1 \/ index[1] < index[k]
      BY <1>1, <3>1 DEF Ascending
    <3> QED BY <1>2, <3>1, <3>2, <1>1
  <2> QED BY <2>1, <2>2
<1>5. \A b \in Range(index) : \E k \in 1..Len(index) : b = index[k]
  BY <1>1 DEF Range
<1>6. LastBase \in Range(index) /\ index[1] \in Range(index)
  BY <1>1 DEF Range
<1> QED BY <1>2, <1>3, <1>4, <1>5, <1>6

\* A record is written at the end of the last segment.
LEMMA WriteRecordSurvival ==
  ASSUME Known, Known', Survival, WriteRecord
  PROVE  Survival'
<1> USE DEF Known, Survival
<1>1. /\ Writing /\ pc = "write" /\ pc' = "write" /\ nextLSN' = nextLSN + 1
      /\ files' = [files EXCEPT ![active] = Appended(ActiveFile, NewRec)]
      /\ UNCHANGED <<dir, durableDir, active, index, lastLSN, job, acked, promised, floor, cutDone>>
      /\ batch'.cur = batch.cur \cup {NewRec} /\ batch'.done = batch.done
      /\ batch'.wrote = batch.wrote
  <2>1. Writing /\ pc = "write" /\ UNCHANGED pc
    BY DEF WriteRecord, Writing
  <2>2. /\ batch'.cur = batch.cur \cup {NewRec} /\ batch'.done = batch.done
        /\ batch'.wrote = batch.wrote
    BY DEF WriteRecord, ControlTypeOK
  <2> QED BY <2>1, <2>2 DEF WriteRecord, hist
<1>2. /\ Opened /\ ~Dropping /\ ~HasFresh /\ job.kind = "none" /\ Committing /\ ~DirAhead
      /\ DOMAIN dir = Range(index) /\ active \in Inodes
  BY <1>1, ServingFacts, NotAhead, OpenedIff DEF Committing
<1>3. /\ LastBase \in DOMAIN dir /\ dir[LastBase] = active /\ nextLSN = Segs[LastBase]
      /\ LastBase \in Nat /\ nextLSN \in Nat /\ LastBase <= nextLSN
  BY <1>2, IndexFacts
<1>4. NewRec \in Rec /\ NewRec.lsn = nextLSN
  BY <1>1, PayloadType DEF NewRec
<1> DEFINE n == Len(files[active].data)
<1>5. /\ files[active] \in File /\ n \in Nat /\ nextLSN = LastBase + n
      /\ DOMAIN files[active].data = 1..n
  <2>1. files[active] \in File
    BY <1>2, ActiveType DEF ActiveFile
  <2>2. Segs[LastBase] = LastBase + Len(files[active].data)
    BY <1>3, SegsType
  <2> QED BY <1>3, <2>1, <2>2 DEF File
<1>6. /\ files'[active].data = Append(files[active].data, NewRec)
      /\ files'[active].synced = files[active].synced
      /\ \A i \in Inodes : i # active => files'[i] = files[i]
  BY <1>1, <1>2, <1>4, <1>5, AppendedType DEF Appended, ActiveFile, DiskTypeOK, File
<1>7. /\ Len(files'[active].data) = n + 1 /\ files'[active].data[n + 1] = NewRec
      /\ \A k \in 1..n : files'[active].data[k] = files[active].data[k]
  <2>1. files[active].data \in Seq(Rec)
    BY <1>5 DEF File
  <2> QED BY <1>4, <1>6, <2>1, AppendType
<1>8. \A i \in Inodes : files[i].synced <= Len(files[i].data) /\ files[i] \in File
  BY DEF StorageOK, DiskTypeOK
<1>9. \A i \in Inodes : /\ files'[i].synced <= Len(files'[i].data)
                        /\ Grows(files[i], files'[i])
  <2> SUFFICES ASSUME NEW i \in Inodes
               PROVE  files'[i].synced <= Len(files'[i].data) /\ Grows(files[i], files'[i])
    OBVIOUS
  <2>1. files[i].synced \in Nat /\ Len(files[i].data) \in Nat
    BY <1>8 DEF File
  <2>2. CASE i = active
    BY <1>5, <1>6, <1>7, <1>8, <2>1, <2>2, SMTT(30) DEF Grows
  <2>3. CASE i # active
    BY <1>6, <1>8, <2>1, <2>3 DEF Grows
  <2> QED BY <2>2, <2>3
<1>10. StorageOK'
  BY <1>1, <1>9 DEF StorageOK
<1>11. /\ Proper(files, dir) /\ Proper(files', dir)
       /\ \A b \in DOMAIN dir : Grows(files[dir[b]], files'[dir[b]])
  <2>1. Proper(files, dir)
    BY DirsProper, <1>10
  <2>2. Proper(files', dir)
    BY NextDirsProper, <1>10, <1>1
  <2> QED BY <2>1, <2>2, <1>9, SegsType
<1>12. Kept(files', dir, floor, Answered', FALSE)
  <2>1. Kept(files', dir, floor, Answered, FALSE)
    <3>1. Kept(files, dir, floor, Answered, FALSE)
      BY DEF DirsOK
    <3>2. floor \in Nat /\ floor <= floor /\ Answered \in SUBSET Rec /\ Answered \in SUBSET Answered
      BY BatchType DEF Answered
    <3> QED BY <1>11, <3>1, <3>2, KeptGrows
  <2>2. Answered' = Answered \cup {NewRec}
    BY <1>1 DEF Answered
  <2>3. Extent(files'[dir[LastBase]], FALSE) = n + 1
    BY <1>3, <1>7 DEF Extent
  <2>4. \A c \in DOMAIN dir : ~(LastBase < c)
    <3>1. \A c \in DOMAIN dir : c \in Nat /\ c <= LastBase
      BY <1>2, IndexApart
    <3> QED BY <1>3, <3>1
  <2>5. Home(files', dir, NewRec, LastBase, FALSE)
    <3>1. nextLSN - LastBase + 1 = n + 1 /\ nextLSN < LastBase + (n + 1)
      BY <1>3, <1>5, SMTT(30)
    <3> QED BY <1>3, <1>4, <1>7, <2>3, <2>4, <3>1 DEF Home
  <2> QED BY <1>3, <2>1, <2>2, <2>5 DEF Kept, Home
<1>13. Sound(files', dir, floor, promised, cutDone)
  <2>1. MayLosePower => Kept(files', dir, floor, promised, TRUE)
    <3>1. MayLosePower => Kept(files, dir, floor, promised, TRUE)
      BY DEF DirsOK, Sound
    <3>2. floor \in Nat /\ floor <= floor /\ promised \in SUBSET Rec /\ promised \in SUBSET promised
      BY BatchType
    <3> QED BY <1>11, <3>1, <3>2, KeptGrows
  <2>2. CutOverlaps(files', dir, floor)
    <3> SUFFICES ASSUME NEW b \in DOMAIN dir, NEW c \in DOMAIN dir, b < c
                 PROVE  ~(c < b + Len(files'[dir[b]].data))
      BY DEF CutOverlaps
    <3>1. b \in Nat /\ c \in Nat /\ c <= LastBase /\ Segs[b] <= c
      BY <1>2, IndexApart
    <3>2. b # LastBase
      BY <1>3, <3>1
    <3>3. dir[b] # active
      BY <1>2, <3>2 DEF PlacementOK, ActiveOK, NamedOnly
    <3>4. files'[dir[b]] = files[dir[b]] /\ Segs[b] = b + Len(files[dir[b]].data)
          /\ Segs[b] \in Nat
      BY <1>6, <3>3, SegsType
    <3> QED BY <3>1, <3>4
  <2> QED BY <2>1, <2>2 DEF DirsOK, Sound
<1>14. DirsOK'
  <2>1. MayLosePower => durableDir' = dir
    BY <1>1, <1>2 DEF Durable
  <2> QED BY <1>1, <1>12, <1>13, <2>1 DEF DirsOK
<1>15. DoomedOK' /\ RewriteOK' /\ FloorOK'
  BY <1>1, <1>2, NoDrop
<1>16. AcksOK'
  <2>1. lastLSN < nextLSN /\ lastLSN \in Nat
    BY <1>2 DEF Agreement, BoundsOK, MemTypeOK
  <2>2. Committing'
    BY <1>1 DEF Committing
  <2>3. ASSUME NEW r \in batch'.cur \cup batch'.done
        PROVE  lastLSN' < r.lsn /\ r.lsn < nextLSN'
    <3>1. CASE r = NewRec
      BY <1>1, <1>3, <1>4, <2>1, <3>1
    <3>2. CASE r # NewRec
      <4>1. r \in batch.cur \cup batch.done /\ r.lsn \in Nat
        BY <1>1, <2>3, <3>2, BatchType DEF Rec
      <4>2. lastLSN < r.lsn /\ r.lsn < nextLSN
        BY <4>1 DEF AcksOK
      <4> QED BY <1>1, <1>3, <4>1, <4>2
    <3> QED BY <3>1, <3>2
  <2>4. Opened' => \A r \in acked' : r.lsn <= lastLSN'
    BY <1>1, <1>2 DEF AcksOK
  <2> QED BY <1>1, <2>2, <2>3, <2>4 DEF AcksOK
<1> QED BY <1>10, <1>14, <1>15, <1>16

-----------------------------------------------------------------------------
(* Rolls, and the creation of a segment.                                   *)

LEMMA StartRollSurvival ==
  ASSUME Known, Known', Survival, StartRoll
  PROVE  Survival'
<1> USE DEF Known, StartRoll, Survival, hist, mem
<1>1. /\ Committing /\ Opened /\ job.kind = "none" /\ active \in Inodes /\ ~DirAhead
      /\ job'.kind = "roll" /\ pc' = "createOpen"
  BY ServingFacts, NotAhead, OpenedIff DEF Committing, Writing
<1>2. FilesKept
  BY <1>1, SyncedFilesKept DEF Sealed, ActiveFile
<1>3. Answered' = Answered
  BY SameAnswered
<1>4. StorageOK' /\ DirsOK'
  <2>1. MayLosePower => durableDir' = dir
    BY <1>1 DEF Durable
  <2> QED BY <1>2, <1>3, <2>1, SameNames, BatchType
<1>5. DoomedOK' /\ RewriteOK' /\ FloorOK'
  BY <1>1, NoDrop
<1>6. AcksOK'
  BY <1>1, SameAcks DEF Committing
<1> QED BY <1>4, <1>5, <1>6

LEMMA InstallRollSurvival ==
  ASSUME Known, Known', Survival, HarmlessFailures, InstallRoll
  PROVE  Survival'
<1> USE DEF Known, Survival
<1>1. /\ pc' = "write" /\ job' = NoJob /\ UNCHANGED <<batch, dir, durableDir, nextLSN, lastLSN>>
      /\ UNCHANGED hist /\ files' = Collected(files, Live(dir, durableDir, active', Nil))
      /\ pc = "installRoll"
  BY NoFault DEF HarmlessCalls, InstallRoll
<1>2. Opened /\ Committing'
  BY <1>1, WriterOpened DEF Committing
<1>3. FilesKept
  BY <1>1, CollectedFilesKept DEF Live
<1>4. Answered' = Answered
  BY <1>1, SameAnswered DEF hist
<1>5. StorageOK' /\ DirsOK'
  BY <1>1, <1>3, <1>4, SameNames, BatchType DEF hist
<1>6. DoomedOK' /\ RewriteOK' /\ FloorOK'
  BY <1>1, NoDrop DEF NoJob
<1>7. AcksOK'
  BY <1>1, <1>2, SameAcks DEF hist
<1> QED BY <1>5, <1>6, <1>7

\* A directory whose files keep their records.
LEMMA DirKept ==
  ASSUME Known, DirsOK, NEW d \in {dir, durableDir}, d = dir \/ MayLosePower,
         Proper(files, d), Proper(files', d),
         \A b \in DOMAIN d : SameRecords(files[d[b]], files'[d[b]])
  PROVE  /\ Sound(files', d, floor, promised, cutDone)
         /\ d = dir => Kept(files', d, floor, Answered, FALSE)
<1>1. \A b \in DOMAIN d : Grows(files[d[b]], files'[d[b]]) /\ files'[d[b]].data = files[d[b]].data
  BY DEF SameRecords
<1>2. /\ floor \in Nat /\ floor <= floor
      /\ Answered \in SUBSET Rec /\ Answered \in SUBSET Answered
      /\ promised \in SUBSET Rec
  BY BatchType DEF Answered, Known
<1>3. Sound(files', d, floor, promised, cutDone)
  <2>1. Sound(files, d, floor, promised, cutDone)
    BY DEF DirsOK
  <2> QED BY <1>1, <1>2, <2>1, SoundGrows
<1>4. ASSUME d = dir PROVE Kept(files', d, floor, Answered, FALSE)
  <2>1. Kept(files, d, floor, Answered, FALSE)
    BY <1>4 DEF DirsOK
  <2> QED BY <1>1, <1>2, <2>1, KeptGrows
<1> QED BY <1>3, <1>4

\* The new segment comes last in the directory.
LEMMA CreateOpenSurvival ==
  ASSUME Known, Known', Survival, CreateOpen
  PROVE  Survival'
<1> USE DEF Known, Survival
<1>1. /\ pc = "createOpen" /\ pc' = "createHeader"
      /\ UNCHANGED <<durableDir, batch, job, nextLSN, lastLSN, active, index>> /\ UNCHANGED hist
  BY DEF CreateOpen, mem
<1>2. PICK i \in FreeInodes :
        files' = [files EXCEPT ![i] = NewFile] /\ fresh' = i
  BY DEF CreateOpen
<1>3. /\ i \in Inodes /\ \A d \in {dir, durableDir} : \A b \in DOMAIN d : d[b] \in Inodes /\ d[b] # i
      /\ files'[i] = NewFile /\ \A j \in Inodes : j # i => files'[j] = files[j]
  <2>1. i \in Inodes /\ i \notin Range(dir) \cup Range(durableDir)
    BY DEF FreeInodes, Live
  <2>2. Range(dir) \subseteq Inodes /\ Range(durableDir) \subseteq Inodes
        /\ files \in [Inodes -> File]
    BY DEF DiskTypeOK
  <2> QED BY <1>2, <2>1, <2>2 DEF Range
<1>4. /\ job.base \notin DOMAIN dir /\ job.base \in Nat
      /\ job.kind \in {"init", "roll", "cutAll"}
      /\ job.kind \in {"roll", "cutAll"} =>
           /\ Opened /\ LastBase < nextLSN /\ job.base = nextLSN
           /\ DOMAIN dir = Range(index) /\ ~Dropping
      /\ job.kind = "init" => DOMAIN dir = {}
  BY <1>1, BaseIsFree, JobType
<1>5. /\ DOMAIN dir' = DOMAIN dir \cup {job.base} /\ dir'[job.base] = i
      /\ \A b \in DOMAIN dir : dir'[b] = dir[b]
  BY <1>2, CreateOpenSegs DEF KeptName
<1>6. Links(dir, dir', job.base)
  BY <1>4, <1>5 DEF Links
<1>7. StorageOK'
  <2>1. \A j \in Inodes : files'[j].synced <= Len(files'[j].data)
    BY <1>3, NewFileBounded DEF StorageOK, Bounded
  <2>2. MayLosePower => OneApart(dir', durableDir')
    <3> SUFFICES ASSUME MayLosePower PROVE OneApart(dir', durableDir)
      BY <1>1
    <3>1. SameDir(dir, durableDir)
      BY <1>1 DEF StorageOK
    <3> QED BY <1>4, <1>5, <3>1 DEF OneApart, SameDir
  <2> QED BY <1>1, <2>1, <2>2 DEF StorageOK
<1>8. /\ Proper(files, dir) /\ Proper(files, durableDir)
      /\ Proper(files', dir') /\ Proper(files', durableDir)
  BY <1>1, <1>7, DirsProper, NextDirsProper
<1>9. Proper(files', dir)
  BY <1>8, <1>6 DEF Links, Proper
<1>10. \A d \in {dir, durableDir} : \A b \in DOMAIN d : SameRecords(files[d[b]], files'[d[b]])
  <2>1. \A j \in Inodes : SameRecords(files[j], files[j])
    BY FileOps DEF StorageOK, DiskTypeOK, Bounded
  <2> QED BY <1>3, <2>1
<1>11. /\ Sound(files', dir, floor, promised, cutDone)
       /\ Kept(files', dir, floor, Answered, FALSE)
       /\ MayLosePower => Sound(files', durableDir, floor, promised, cutDone)
  BY <1>8, <1>9, <1>10, DirKept
<1>12. \A b \in DOMAIN dir :
         /\ b + Len(files'[dir[b]].data) <= job.base
         /\ job.kind # "init" => b < job.base /\ b \in Nat /\ Segs[b] <= job.base
  <2> SUFFICES ASSUME NEW b \in DOMAIN dir
               PROVE  /\ b + Len(files'[dir[b]].data) <= job.base
                      /\ b < job.base /\ b \in Nat /\ Segs[b] <= job.base
    OBVIOUS
  <2>1. b \in Range(index) /\ Opened /\ ~Dropping /\ job.base = nextLSN /\ LastBase < nextLSN
    BY <1>4
  <2>2. b \in Nat /\ b <= LastBase /\ Segs[b] <= nextLSN /\ LastBase \in Nat
    BY <2>1, IndexApart, IndexFacts
  <2>3. Segs[b] = b + Len(files[dir[b]].data) /\ nextLSN \in Nat
    BY SegsType, BatchType
  <2>4. files'[dir[b]] = files[dir[b]]
    BY <1>3
  <2> QED BY <2>1, <2>2, <2>3, <2>4
<1>13. DirsOK'
  <2>1. files'[dir'[job.base]].data = << >>
    BY <1>3, <1>5, NewFileBounded
  <2>2. Kept(files', dir', floor, Answered, FALSE)
    BY <1>6, <1>8, <1>9, <1>11, <1>12, <2>1, KeptLinked, BatchType DEF Answered
  <2>3. Sound(files', dir', floor, promised, cutDone)
    BY <1>6, <1>8, <1>9, <1>11, <1>12, <2>1, SoundLinked, BatchType
  <2>4. Answered' = Answered
    BY <1>1, SameAnswered DEF hist
  <2> QED BY <1>1, <1>11, <2>2, <2>3, <2>4 DEF DirsOK, hist
<1>14. DoomedOK'
  <2> SUFFICES ASSUME Dropping', NEW b \in Range(job.names) \cap DOMAIN dir'
               PROVE  Dispensable(b, Range(job.idx))'
    BY <1>1 DEF DoomedOK
  <2>1. job.kind = "cutAll" /\ ~Dropping
    BY <1>1, <1>4 DEF Dropping
  <2>2. job.names = index /\ job.idx = <<nextLSN>> /\ job.base = nextLSN /\ job.base <= floor
    BY <2>1 DEF Agreement, DropPlanOK, PlacementOK, PlanOK, FloorOK
  <2>3. b \in DOMAIN dir /\ nextLSN \in Range(job.idx)
    <3>1. b \in DOMAIN dir
      BY <1>4, <2>1, <2>2
    <3>2. Range(<<nextLSN>>) = {nextLSN}
      BY DEF Range
    <3> QED BY <2>2, <3>1, <3>2
  <2>4. files'[dir'[b]] = files[dir[b]]
    BY <1>3, <1>5, <2>3
  <2>5. b < nextLSN /\ b \in Nat
    BY <1>12, <2>1, <2>2, <2>3
  <2>6. ASSUME NEW r \in Range(files[dir[b]].data) PROVE ~(floor <= r.lsn)
    <3>1. PICK k \in DOMAIN files[dir[b]].data : r = files[dir[b]].data[k]
      BY <2>6 DEF Range
    <3>2. r.lsn = b + k - 1 /\ k \in 1..Len(files[dir[b]].data) /\ Len(files[dir[b]].data) \in Nat
      BY <1>8, <2>3, <3>1, ExtentFacts DEF Proper
    <3>3. b + Len(files[dir[b]].data) <= nextLSN
      BY <1>12, <2>2, <2>3, <2>4, <1>5
    <3> QED BY <2>2, <2>5, <3>2, <3>3, BatchType
  <2> QED BY <1>1, <2>3, <2>4, <2>5, <2>6 DEF Dispensable, hist
<1>15. RewriteOK' /\ FloorOK'
  BY <1>1 DEF RewriteOK, FloorOK, hist
<1>16. AcksOK'
  BY <1>1, SameAcks DEF hist, Opened, Committing
<1> QED BY <1>7, <1>13, <1>14, <1>15, <1>16

\* Where a drop or a recovery goes on with its deletions.
LEMMA SameDoomed ==
  ASSUME Known, DoomedOK, FilesKept, dir' = dir, floor' = floor,
         job'.idx = job.idx, job'.paths = job.paths,
         Range(job.names)' \subseteq Range(job.names),
         Dropping' \/ pc' \in {"reconcile", "prune"} =>
           /\ Dropping \/ pc \in {"reconcile", "prune"}
           /\ pc' = "reconcile" <=> pc = "reconcile"
           /\ pc = "prune" => pc' = "prune"
  PROVE  DoomedOK'
<1> DEFINE kept == IF pc = "reconcile" THEN job.paths ELSE Range(job.idx)
<1> SUFFICES ASSUME Dropping' \/ pc' \in {"reconcile", "prune"},
                    NEW b \in Range(job.names)' \cap DOMAIN dir
             PROVE  Dispensable(b, kept)'
  BY DEF DoomedOK
<1> USE DEF Known
<1>1. /\ Dispensable(b, kept) /\ kept \subseteq DOMAIN dir /\ kept' = kept
      /\ b \in DOMAIN dir
  BY DEF DoomedOK, Agreement, DeletionOK
<1>2. \A c \in DOMAIN dir : files'[dir[c]].data = files[dir[c]].data
  BY SegsType DEF FilesKept, SameRecords, Range
<1>3. \A c \in kept : Segs'[c] = Segs[c]
  <2>1. Segs' = [c \in DOMAIN dir |-> c + Len(files'[dir[c]].data)]
    BY DEF Segs, EndOf
  <2>2. Segs = [c \in DOMAIN dir |-> c + Len(files[dir[c]].data)]
    BY DEF Segs, EndOf
  <2> QED BY <1>1, <1>2, <2>1, <2>2
<1> HIDE DEF kept
<1> QED BY <1>1, <1>2, <1>3 DEF Dispensable

\* Its header, and the fsync of the file and of the directory.
LEMMA CreateRestSurvival ==
  ASSUME Known, Known', Survival, CreateHeader \/ CreateSync \/ CreateSyncDir
  PROVE  Survival'
<1> USE DEF Known, Survival
<1>1. /\ dir' = dir /\ (Dropping' <=> Dropping)
      /\ UNCHANGED <<active, nextLSN, lastLSN, batch, job, fresh>> /\ UNCHANGED hist
      /\ pc \in {"createHeader", "createSync", "createSyncDir"}
      /\ pc' \in {"createSync", "createSyncDir", "installRoll", "installEmpty", "remove"}
      /\ durableDir' \in {dir, durableDir}
  BY CreateRestKept DEF CreateHeader, CreateSync, CreateSyncDir, KeptDir
<1>2. FilesKept
  <2>1. HasFresh /\ fresh \in Inodes
    BY <1>1, OpenedIff DEF HasFresh
  <2>2. CASE CreateHeader
    <3>1. \A i \in Inodes :
            files'[i] \in {files[i], [files[i] EXCEPT !.hdr = "cached"]}
      BY <2>1, <2>2 DEF CreateHeader, DiskTypeOK
    <3> QED BY <3>1, FileOps DEF FilesKept, StorageOK, DiskTypeOK, Bounded
  <2>3. CASE CreateSync
    BY <2>1, <2>3, SyncedFilesKept DEF CreateSync
  <2>4. CASE CreateSyncDir
    BY <2>4, CollectedFilesKept DEF CreateSyncDir, Live
  <2> QED BY <2>2, <2>3, <2>4
<1>3. Answered' = Answered
  BY <1>1, SameAnswered DEF hist
<1>4. StorageOK' /\ DirsOK'
  BY <1>1, <1>2, <1>3, SameNames, BatchType DEF hist
<1>5. DoomedOK'
  BY <1>1, <1>2, SameDoomed DEF hist
<1>6. RewriteOK' /\ FloorOK'
  BY <1>1 DEF RewriteOK, FloorOK, hist
<1>7. AcksOK'
  <2>1. Opened' <=> Opened
    BY <1>1, OpenedIff, OpenedIffNext
  <2> QED BY <1>1, <2>1, SameAcks DEF hist, Committing
<1> QED BY <1>4, <1>5, <1>6, <1>7

-----------------------------------------------------------------------------
(* Truncate and CutOffset.                                                 *)

LEMMA LSNsBelow ==
  ASSUME Known, StorageOK, NEW b \in DOMAIN dir
  PROVE  \A r \in Range(files[dir[b]].data) : r.lsn \in Nat /\ b <= r.lsn /\ r.lsn < Segs[b]
<1> SUFFICES ASSUME NEW r \in Range(files[dir[b]].data)
             PROVE  r.lsn \in Nat /\ b <= r.lsn /\ r.lsn < Segs[b]
  OBVIOUS
<1>1. PICK k \in DOMAIN files[dir[b]].data : r = files[dir[b]].data[k]
  BY DEF Range
<1>2. Proper(files, dir)
  BY DirsProper DEF Known
<1>3. /\ r.lsn = b + k - 1 /\ k \in 1..Len(files[dir[b]].data) /\ b \in Nat
      /\ Len(files[dir[b]].data) \in Nat
  BY <1>1, <1>2, ExtentFacts DEF Proper
<1>4. Segs[b] = b + Len(files[dir[b]].data)
  BY SegsType DEF Known
<1> QED BY <1>3, <1>4

LEMMA StartDropSurvival ==
  ASSUME Known, Known', Survival, pc = "idle", NEW upTo \in Nat, NEW newJob, NEW step,
         StartDrop(upTo, newJob, step), step # "createOpen"
  PROVE  /\ StorageOK' /\ DirsOK' /\ AcksOK'
         /\ Reach(upTo) \in Nat /\ Reach(upTo) <= nextLSN /\ Reach(upTo) <= upTo
         /\ Reach(upTo) = upTo \/ Reach(upTo) = nextLSN
         /\ Reach(upTo) <= floor' /\ floor' \in Nat
<1> USE DEF Known, Survival, StartDrop
<1>1. /\ Reach(upTo) \in Nat /\ Reach(upTo) <= nextLSN /\ Reach(upTo) <= upTo
      /\ Reach(upTo) = upTo \/ Reach(upTo) = nextLSN
  BY BatchType DEF Reach, MinOf
<1>2. floor' \in Nat /\ floor <= floor' /\ Reach(upTo) <= floor'
  BY <1>1, BatchType DEF MaxOf
<1>3. Answered' = Answered
  BY SameAnswered
<1>4. FilesKept /\ dir' = dir /\ durableDir' = durableDir
  BY SameDisk
<1>5. StorageOK' /\ DirsOK'
  BY <1>2, <1>3, <1>4, SameNames, BatchType
<1>6. AcksOK'
  <2>1. Opened /\ ~Committing
    BY ServingFacts
  <2> QED BY <2>1, SameAcks DEF mem
<1> QED BY <1>1, <1>2, <1>5, <1>6

\* The segments of the index below one that starts at or below the bound.
LEMMA DeletionDoomed ==
  ASSUME Known, StorageOK, Opened, ~Dropping, UNCHANGED <<files, dir>>, pc' = "remove",
         floor' \in Nat, NEW x \in Range(index), x <= floor', x \in Range(job.idx)',
         \A b \in Range(job.names)' : b \in Range(index) /\ b < x
  PROVE  DoomedOK'
<1> SUFFICES ASSUME NEW b \in Range(job.names)' \cap DOMAIN dir'
             PROVE  Dispensable(b, Range(job.idx))'
  BY DEF DoomedOK
<1> USE DEF Known
<1>1. b \in DOMAIN dir /\ b \in Range(index) /\ b < x /\ Segs[b] <= x /\ x \in Nat /\ Segs[b] \in Nat
  BY IndexApart
<1>2. \A r \in Range(files[dir[b]].data) : ~(floor' <= r.lsn)
  BY <1>1, LSNsBelow
<1> QED BY <1>1, <1>2 DEF Dispensable

LEMMA TruncateSurvival ==
  ASSUME Known, Known', Survival, NEW upTo \in Nat, Truncate(upTo)
  PROVE  Survival'
<1> USE DEF Known, Survival
<1> DEFINE d == Deletable(index, upTo)
           newJob == [NoJob EXCEPT !.kind = "truncate",
                         !.names = DeletedByTruncate(d),
                         !.idx = SubSeq(index, d + 1, Len(index))]
<1>1. /\ pc = "idle" /\ d > 0 /\ StartDrop(upTo, newJob, "remove")
      /\ UNCHANGED <<files, dir>> /\ pc' = "remove"
  BY DEF Truncate, StartDrop, disk
<1>2. /\ StorageOK' /\ DirsOK' /\ AcksOK' /\ Reach(upTo) \in Nat /\ Reach(upTo) <= floor'
      /\ Reach(upTo) = upTo \/ Reach(upTo) = nextLSN
      /\ floor' \in Nat
  BY <1>1, StartDropSurvival
<1>3. Opened /\ ~Dropping
  BY <1>1, ServingFacts
<1>4. job' = newJob /\ job'.kind = "truncate" /\ job'.names = SubSeq(index, 1, d)
      /\ job'.idx = SubSeq(index, d + 1, Len(index))
  BY <1>1 DEF StartDrop, NoJob, DeletedByTruncate
<1>5. /\ index \in Seq(Nat) /\ Ascending(index) /\ index # << >> /\ Len(index) \in Nat
      /\ LastBase <= nextLSN /\ LastBase \in Nat /\ nextLSN \in Nat
      /\ DOMAIN index = 1..Len(index)
  BY <1>3, IndexFacts
<1>6. d \in Nat /\ d < Len(index) /\ \A k \in 2..Len(index) : index[k] <= upTo <=> k <= d + 1
  BY <1>5, DeletableRight
<1> HIDE DEF d
<1> DEFINE x == index[d + 1]
<1>7. x \in Range(index) /\ x <= floor' /\ x \in Nat
  <2>1. d + 1 \in 2..Len(index) /\ d + 1 \in DOMAIN index
    BY <1>1, <1>5, <1>6
  <2>2. x \in Range(index) /\ x <= upTo
    BY <1>6, <2>1 DEF Range
  <2>3. x \in Nat /\ x <= LastBase
    BY <1>3, <2>2, IndexApart
  <2> QED BY <1>2, <1>5, <2>2, <2>3
<1>8. x \in Range(job'.idx) /\ job'.idx[1] = x
  <2>1. PICK t : t = SubSeq(index, d + 1, Len(index))
    OBVIOUS
  <2>2. /\ Len(t) = Len(index) - d /\ t \in Seq(Nat)
        /\ \A k \in 1..(Len(index) - d) : t[k] = index[d + k]
    <3>1. d <= Len(index)
      BY <1>5, <1>6
    <3>2. /\ SubSeq(index, d + 1, Len(index)) \in Seq(Nat)
          /\ Len(SubSeq(index, d + 1, Len(index))) = Len(index) - d
          /\ \A k \in 1..(Len(index) - d) : SubSeq(index, d + 1, Len(index))[k] = index[d + k]
      BY <1>5, <1>6, <3>1, SplitLSNs
    <3> QED BY <2>1, <3>2
  <2>3. 1 \in 1..(Len(index) - d) /\ 1 \in DOMAIN t
    BY <1>5, <1>6, <2>2
  <2>4. t[1] = x /\ t[1] \in Range(t)
    BY <1>6, <2>2, <2>3 DEF Range
  <2> QED BY <1>4, <2>1, <2>4
<1>9. \A b \in Range(job'.names) : b \in Range(index) /\ b < x
  <2> SUFFICES ASSUME NEW b \in Range(job'.names) PROVE b \in Range(index) /\ b < x
    OBVIOUS
  <2>1. PICK k \in 1..d : b = index[k]
    <3>1. \A y : y \in Range(SubSeq(index, 1, d)) <=> \E k \in 1..d : y = index[k]
      BY <1>5, <1>6, RangeOfSplit
    <3> QED BY <1>4, <3>1
  <2>2. k \in DOMAIN index /\ d + 1 \in DOMAIN index /\ k < d + 1
    BY <1>5, <1>6, <2>1
  <2> QED BY <1>5, <2>1, <2>2 DEF Range, Ascending
<1>10. DoomedOK'
  BY <1>1, <1>2, <1>3, <1>7, <1>8, <1>9, DeletionDoomed
<1>11. RewriteOK' /\ FloorOK'
  BY <1>1, <1>4, <1>7, <1>8 DEF RewriteOK, FloorOK
<1> QED BY <1>2, <1>10, <1>11

\* A cut that has nothing to do: there is nothing below it.
LEMMA CutNoopSurvival ==
  ASSUME Known, Known', Survival, NEW upTo \in Nat, CutNoop(upTo)
  PROVE  Survival'
<1> USE DEF Known, Survival
<1>1. /\ pc = "idle" /\ pc' = "idle" /\ CutNothing(Reach(upTo))
      /\ cutDone' = MaxOf(cutDone, Reach(upTo)) /\ floor' = MaxOf(floor, Reach(upTo))
      /\ UNCHANGED disk
      /\ UNCHANGED <<job, batch, acked, promised, nextLSN, lastLSN>>
  BY DEF CutNoop, mem
<1>2. /\ Opened /\ ~Dropping /\ DOMAIN dir = Range(index) /\ ~DirAhead /\ job.kind = "none"
      /\ ~Unpublished /\ ~Committing
  BY <1>1, ServingFacts, NotAhead
<1>3. FilesKept /\ dir' = dir /\ durableDir' = durableDir
  BY <1>1, SameDisk
<1>4. Reach(upTo) \in Nat /\ Reach(upTo) <= nextLSN /\ floor <= floor'
  BY <1>1, BatchType DEF Reach, MinOf, MaxOf
<1>5. /\ index[1] \in Range(index) /\ index[1] \in Nat
      /\ \A b \in Range(index) : index[1] <= b /\ b \in Nat
  BY <1>2, IndexApart
<1>6. Reach(upTo) <= index[1]
  <2>1. CASE firstLSN = 0
    <3>1. index[1] = nextLSN
      BY <1>2, <2>1 DEF Agreement, BoundsOK
    <3> QED BY <1>4, <3>1
  <2>2. CASE firstLSN # 0
    <3>1. firstLSN = index[1]
      BY <1>2, <2>2 DEF Agreement, BoundsOK
    <3> QED BY <1>1, <2>2, <3>1 DEF CutNothing
  <2> QED BY <2>1, <2>2
<1>7. CutOff(dir, cutDone')
  <2>1. \A b \in DOMAIN dir : cutDone <= b
    BY DEF DirsOK, Sound, CutOff
  <2>2. \A b \in DOMAIN dir : cutDone' <= b
    BY <1>1, <1>2, <1>4, <1>5, <1>6, <2>1, BatchType DEF MaxOf
  <2> QED BY <1>2, <1>5, <2>2 DEF CutOff
<1>8. StorageOK' /\ DirsOK'
  <2>1. Answered' = Answered
    BY <1>1, SameAnswered
  <2>2. MayLosePower => durableDir' = dir
    BY <1>2, <1>3 DEF Durable
  <2> QED BY <1>1, <1>3, <1>4, <1>7, <2>1, <2>2, SameNames, BatchType
<1>9. DoomedOK' /\ RewriteOK' /\ FloorOK'
  BY <1>1, <1>2, NoDrop
<1>10. AcksOK'
  BY <1>1, <1>2, SameAcks
<1> QED BY <1>8, <1>9, <1>10

LEMMA CutEverythingSurvival ==
  ASSUME Known, Known', Survival, NEW upTo \in Nat, CutEverything(upTo)
  PROVE  Survival'
<1> USE DEF Known, Survival
<1> DEFINE newJob == [NoJob EXCEPT !.kind = "cutAll", !.base = nextLSN,
                                   !.names = DeletedByCutEverything, !.idx = <<nextLSN>>]
<1>1. pc = "idle" /\ StartDrop(upTo, newJob, "clearLeftover") /\ nextLSN <= Reach(upTo)
  BY BatchType DEF CutEverything, Reach, MinOf
<1>2. /\ StorageOK' /\ DirsOK' /\ AcksOK' /\ Reach(upTo) \in Nat /\ Reach(upTo) <= floor'
      /\ floor' \in Nat /\ nextLSN \in Nat
  BY <1>1, StartDropSurvival, BatchType
<1>3. pc' = "clearLeftover" /\ job'.kind = "cutAll" /\ job'.base = nextLSN
  BY <1>1 DEF StartDrop, NoJob
<1>4. DoomedOK' /\ RewriteOK' /\ FloorOK'
  BY <1>1, <1>2, <1>3 DEF DoomedOK, Dropping, RewriteOK, FloorOK
<1> QED BY <1>2, <1>4

LEMMA CutInsideSurvival ==
  ASSUME Known, Known', Survival, NEW upTo \in Nat, CutInside(upTo)
  PROVE  Survival'
<1> USE DEF Known, Survival
<1> DEFINE cut == Reach(upTo)
           b == Boundary(index, cut)
           above == SubSeq(index, b + 1, Len(index))
           below == [NoJob EXCEPT !.kind = "cutBelow", !.base = cut,
                                  !.names = SubSeq(index, 1, b - 1), !.idx = <<cut>> \o above]
           inside == [NoJob EXCEPT !.kind = "cutRewrite", !.base = cut,
                                   !.names = SubSeq(index, 1, b), !.idx = <<cut>> \o above]
<1>1. /\ pc = "idle" /\ ~CutNothing(cut) /\ cut < nextLSN
      /\ \/ index[b] = cut /\ StartDrop(upTo, below, "remove")
         \/ StartDrop(upTo, inside, "rewrite")
  BY DEF CutInside
<1>2. /\ StorageOK' /\ DirsOK' /\ AcksOK' /\ cut \in Nat /\ cut <= floor' /\ floor' \in Nat
  BY <1>1, StartDropSurvival
<1>3. Opened /\ ~Dropping
  BY <1>1, ServingFacts
<1> HIDE DEF cut, above
<1>4. /\ index \in Seq(Nat) /\ Ascending(index) /\ Len(index) \in Nat /\ DOMAIN index = 1..Len(index)
      /\ b \in 1..Len(index)
  BY <1>1, <1>2, <1>3, IndexFacts, CutFacts
<1> HIDE DEF b
<1>5. ASSUME index[b] = cut, StartDrop(upTo, below, "remove")
      PROVE  DoomedOK' /\ RewriteOK' /\ FloorOK'
  <2>1. /\ UNCHANGED <<files, dir>> /\ pc' = "remove" /\ job'.kind = "cutBelow"
        /\ job'.base = cut /\ job'.names = SubSeq(index, 1, b - 1)
        /\ job'.idx = <<cut>> \o above
    BY <1>5 DEF StartDrop, NoJob, disk
  <2>2. above \in Seq(Nat)
    <3>1. b \in Nat /\ b <= Len(index)
      BY <1>4
    <3> QED BY <1>4, <3>1, SplitLSNs DEF above
  <2>3. cut \in Range(job'.idx)
    <3>1. PICK t : t = <<cut>> \o above
      OBVIOUS
    <3>2. t \in Seq(Nat) /\ Len(t) = Len(above) + 1 /\ t[1] = cut /\ Len(above) \in Nat
      BY <1>2, <2>2, <3>1, PrependType
    <3>3. 1 \in DOMAIN t
      BY <3>2
    <3> QED BY <2>1, <3>1, <3>2, <3>3 DEF Range
  <2>4. cut \in Range(index)
    BY <1>4, <1>5 DEF Range
  <2>5. \A c \in Range(job'.names) : c \in Range(index) /\ c < cut
    <3> SUFFICES ASSUME NEW c \in Range(job'.names) PROVE c \in Range(index) /\ c < cut
      OBVIOUS
    <3>1. b - 1 \in Nat /\ b - 1 <= Len(index)
      BY <1>4
    <3>2. \A y : y \in Range(SubSeq(index, 1, b - 1)) <=> \E k \in 1..(b - 1) : y = index[k]
      BY <1>4, <3>1, RangeOfSplit
    <3>3. PICK k \in 1..(b - 1) : c = index[k]
      BY <2>1, <3>2
    <3>4. k \in DOMAIN index /\ b \in DOMAIN index /\ k < b
      BY <1>4, <3>1, <3>3
    <3> QED BY <1>4, <1>5, <3>3, <3>4 DEF Range, Ascending
  <2>6. DoomedOK'
    BY <1>2, <1>3, <2>1, <2>3, <2>4, <2>5, DeletionDoomed
  <2> QED BY <1>2, <2>1, <2>6 DEF RewriteOK, FloorOK
<1>6. ASSUME StartDrop(upTo, inside, "rewrite")
      PROVE  DoomedOK' /\ RewriteOK' /\ FloorOK'
  <2>1. pc' = "rewrite" /\ job'.kind = "cutRewrite" /\ job'.base = cut
    BY <1>6 DEF StartDrop, NoJob
  <2> QED BY <1>2, <2>1 DEF DoomedOK, Dropping, RewriteOK, FloorOK
<1> QED BY <1>1, <1>2, <1>5, <1>6

\* Two directories with the same names and files.
LEMMA SameDirSound ==
  ASSUME NEW fs, NEW d, NEW e, SameDir(d, e), NEW fl, NEW P, NEW cut, NEW hard
  PROVE  /\ Kept(fs, d, fl, P, hard) => Kept(fs, e, fl, P, hard)
         /\ Sound(fs, d, fl, P, cut) => Sound(fs, e, fl, P, cut)
<1>1. \A h, r : \A b \in DOMAIN d : Home(fs, d, r, b, h) => Home(fs, e, r, b, h)
  BY DEF SameDir, Home
<1>2. \A h : Kept(fs, d, fl, P, h) => Kept(fs, e, fl, P, h)
  BY <1>1 DEF SameDir, Kept
<1>3. CutOverlaps(fs, d, fl) => CutOverlaps(fs, e, fl)
  BY DEF SameDir, CutOverlaps
<1>4. CutOff(d, cut) => CutOff(e, cut)
  BY DEF SameDir, CutOff
<1> QED BY <1>2, <1>3, <1>4 DEF Sound

\* There is no leftover to clear.
LEMMA ClearLeftoverSurvival ==
  ASSUME Known, Known', Survival, ClearLeftover
  PROVE  Survival'
<1> USE DEF Known, Survival
<1>1. /\ pc = "clearLeftover" /\ pc' = "createOpen" /\ dir' = Unlink(dir, job.base)
      /\ files' = Collected(files, Live(dir', durableDir, active, fresh))
      /\ UNCHANGED <<durableDir, job, batch, active, nextLSN, lastLSN>> /\ UNCHANGED hist
  BY DEF ClearLeftover, mem
<1>2. job.base \notin DOMAIN dir /\ ~DirAhead
  BY <1>1, BaseIsFree, NotAhead
<1>3. SameDir(dir, dir')
  BY <1>1, <1>2 DEF Unlink, Restrict, SameDir
<1>4. FilesKept
  BY <1>1, CollectedFilesKept DEF Live
<1>5. StorageOK'
  <2>1. \A i \in Inodes : files'[i].synced <= Len(files'[i].data)
    BY <1>4 DEF FilesKept, Bounded
  <2>2. MayLosePower => SameDir(dir', durableDir')
    BY <1>1, <1>2, <1>3 DEF Durable, SameDir
  <2>3. SameDir(dir', durableDir') => OneApart(dir', durableDir')
    BY DEF SameDir, OneApart
  <2> QED BY <2>1, <2>2, <2>3 DEF StorageOK
<1>6. ASSUME NEW d \in {dir, durableDir}, d = dir \/ MayLosePower
      PROVE  /\ Sound(files', d, floor, promised, cutDone)
             /\ d = dir => Kept(files', d, floor, Answered, FALSE)
  <2>1. \A b \in DOMAIN d : d[b] \in Inodes /\ d[b] \in Range(dir') \cup Range(durableDir')
    <3>1. \A b \in DOMAIN d : d[b] \in Inodes
      BY NamedType
    <3> QED BY <1>1, <1>3, <3>1 DEF SameDir, Range
  <2>2. \A b \in DOMAIN d : SameRecords(files[d[b]], files'[d[b]])
    BY <1>4, <2>1 DEF FilesKept
  <2>3. Proper(files, d)
    BY DirsProper
  <2>4. Proper(files', d)
    <3>1. \A e \in {dir', durableDir'} : Proper(files', e)
      BY <1>5, NextDirsProper
    <3> QED BY <1>1, <1>3, <3>1 DEF SameDir, Proper
  <2> QED BY <1>6, <2>2, <2>3, <2>4, DirKept
<1>7. DirsOK'
  <2>1. Sound(files', dir', floor, promised, cutDone) /\ Kept(files', dir', floor, Answered, FALSE)
    BY <1>3, <1>6, SameDirSound
  <2>2. Answered' = Answered
    BY <1>1, SameAnswered DEF hist
  <2> QED BY <1>1, <1>6, <2>1, <2>2 DEF DirsOK, hist
<1>8. DoomedOK' /\ RewriteOK' /\ FloorOK'
  <2>1. job.kind = "cutAll"
    BY <1>1 DEF StepsOK, Kinds
  <2> QED BY <1>1, <2>1 DEF DoomedOK, Dropping, RewriteOK, FloorOK, hist
<1>9. AcksOK'
  <2>1. Opened' <=> Opened
    BY <1>1, OpenedIff, OpenedIffNext
  <2>2. Committing => Committing'
    BY <1>1 DEF Committing
  <2> QED BY <1>1, <2>1, <2>2, SameAcks DEF hist
<1> QED BY <1>5, <1>7, <1>8, <1>9

-----------------------------------------------------------------------------
(* The rewrite of the boundary segment.                                    *)

\* The copy has all records from the cut on, and no others.
LEMMA RewrittenCopies ==
  ASSUME NEW f \in File, NEW old \in Nat, NEW base \in Nat, old < base,
         base < old + Len(f.data),
         \A k \in DOMAIN f.data : f.data[k].lsn = old + k - 1
  PROVE  /\ Whole(Rewritten(f, base)) /\ Bounded(Rewritten(f, base))
         /\ CopiedTo(f, base, Rewritten(f, base))
<1> DEFINE g == Rewritten(f, base)
           n == Len(f.data)
           c == base - old
<1>1. n \in Nat /\ DOMAIN f.data = 1..n /\ f.data \in Seq(Rec) /\ c \in Nat /\ c <= n
  BY DEF File
<1>2. g \in File /\ Len(g.data) = old + n - base
      /\ \A k \in DOMAIN g.data : g.data[k].lsn = base + k - 1
  BY RewrittenType, RewrittenInPlace
<1>3. g.synced = Len(g.data)
  BY DEF Rewritten
<1>4. g.data = SubSeq(f.data, FirstKept(f.data, base), n)
  BY DEF Rewritten
<1>5. FirstKept(f.data, base) \in 1..(n + 1)
  BY RewrittenType
<1> DEFINE m == FirstKept(f.data, base)
<1>6. Len(g.data) = IF m > n THEN 0 ELSE n - m + 1
  <2>1. m \in Nat \ {0} /\ n \in 0..Len(f.data)
    BY <1>1, <1>5
  <2> QED BY <1>1, <1>4, <2>1, SubSeqType
<1>7. m = c + 1
  <2>1. PICK x : x = Len(g.data)
    OBVIOUS
  <2>2. m \in 1..(n + 1) /\ x = n - c
    BY <1>1, <1>2, <1>5, <2>1
  <2>3. x = IF m > n THEN 0 ELSE n - m + 1
    BY <1>6, <2>1
  <2> HIDE DEF g, m, n, c
  <2> QED BY <1>1, <2>2, <2>3
<1>8. \A k \in 1..(n - c) : g.data[k] = f.data[c + k]
  <2>1. g.data = SubSeq(f.data, c + 1, Len(f.data))
    BY <1>4, <1>7
  <2> HIDE DEF g
  <2> QED BY <1>1, <2>1, SplitAt
<1>9. DOMAIN g.data = 1..(n - c)
  <2>1. Len(g.data) = n - c
    <3> HIDE DEF g
    <3> QED BY <1>1, <1>2
  <2> QED BY <1>2, <2>1 DEF File
<1>10. CopiedTo(f, base, g)
  <2> SUFFICES ASSUME NEW k \in 1..n, base <= f.data[k].lsn
               PROVE  f.data[k] \in Range(g.data)
    BY <1>1 DEF CopiedTo, Range
  <2>1. f.data[k].lsn = old + k - 1
    BY <1>1
  <2> HIDE DEF g, m
  <2>2. k - c \in 1..(n - c)
    <3>1. base <= old + k - 1
      BY <2>1
    <3> QED BY <1>1, <3>1
  <2>3. g.data[k - c] = f.data[c + (k - c)]
    BY <1>8, <2>2
  <2>4. c + (k - c) = k
    BY <1>1
  <2>5. f.data[k] = g.data[k - c] /\ (k - c) \in DOMAIN g.data
    BY <1>9, <2>2, <2>3, <2>4
  <2> QED BY <2>5 DEF Range
<1> QED BY <1>2, <1>3, <1>10 DEF Whole, Bounded, File

\* The segment that is rewritten.
LEMMA RewriteSource ==
  ASSUME Known, pc = "rewrite", SourceReadable
  PROVE  LET old == index[Len(job.names)]
         IN  /\ Opened /\ ~Dropping /\ job.base \in Nat /\ DOMAIN dir = Range(index)
             /\ old \in Range(index) /\ old < job.base /\ job.base < Segs[old]
             /\ Source = files[dir[old]]
<1> USE DEF Known
<1>1. /\ Opened /\ ~Dropping /\ job.kind = "cutRewrite" /\ ~HasFresh
  BY WriterOpened
  DEF StepsOK, Kinds, Dropping, HasFresh
<1>7. PICK b : b = Len(job.names)
  OBVIOUS
<1>8. /\ b \in DOMAIN index /\ job.names = SubSeq(index, 1, b)
      /\ job.idx = <<job.base>> \o SubSeq(index, b + 1, Len(index))
      /\ index[b] < job.base /\ job.base < Segs[index[b]]
  BY <1>7 DEF Agreement, DropPlanOK
<1>9. /\ index \in Seq(Nat) /\ Len(index) \in Nat /\ DOMAIN index = 1..Len(index)
      /\ LastBase = index[Len(index)] /\ LastBase \in DOMAIN dir /\ dir[LastBase] = active
      /\ job.base \in Nat
  BY <1>1, <1>8, IndexFacts, JobType
<1>10. OldBoundary = index[b]
  <2>1. b \in Nat /\ b <= Len(index) /\ b \in 1..b
    BY <1>8, <1>9, SMTT(30)
  <2>2. SubSeq(index, 1, b)[b] = index[b]
    BY <1>9, <2>1, SplitLSNs
  <2> QED BY <1>7, <1>8, <2>2 DEF OldBoundary
<1>11. CutsActive => b = Len(index)
  <2>1. b \in Nat /\ b <= Len(index)
    BY <1>8, <1>9
  <2>2. /\ SubSeq(index, b + 1, Len(index)) \in Seq(Nat)
        /\ Len(SubSeq(index, b + 1, Len(index))) = Len(index) - b
    BY <1>9, <2>1, SplitLSNs
  <2>3. Len(job.idx) = Len(SubSeq(index, b + 1, Len(index))) + 1
    BY <1>8, <1>9, <2>2, PrependType
  <2>n. PICK n \in Nat : n = Len(index)
    BY <1>9
  <2>4. PICK m : m = Len(job.idx) /\ m = (n - b) + 1
    BY <2>2, <2>3, <2>n
  <2>5. b <= n /\ (m = 1 => b = n)
    BY <2>1, <2>n, <2>4
  <2> QED BY <2>n, <2>4, <2>5 DEF CutsActive
<1>12. Source = files[dir[index[b]]]
  BY <1>9, <1>10, <1>11 DEF Source, ActiveFile
<1>13. DOMAIN dir = Range(index)
  BY <1>1 DEF Agreement, NamedOK
<1>14. index[b] \in Range(index)
  BY <1>8 DEF Range
<1> QED BY <1>1, <1>7, <1>8, <1>9, <1>12, <1>13, <1>14

LEMMA RewriteTempSurvival ==
  ASSUME Known, Known', Survival, RewriteTemp
  PROVE  Survival'
<1> USE DEF Known, Survival
<1>1. /\ pc = "rewrite" /\ pc' = "publish" /\ SourceReadable
      /\ UNCHANGED <<dir, durableDir, job, batch, active, nextLSN, lastLSN>> /\ UNCHANGED hist
  BY DEF RewriteTemp, mem
<1> DEFINE old == index[Len(job.names)]
           base == job.base
           f == files[dir[old]]
<1>2. /\ Opened /\ ~Dropping /\ base \in Nat /\ DOMAIN dir = Range(index)
      /\ old \in Range(index) /\ old < base /\ base < Segs[old] /\ Source = f
  BY <1>1, RewriteSource
<1>3. PICK i \in FreeInodes : files' = [files EXCEPT ![i] = Rewritten(f, base)] /\ fresh' = i
  BY <1>2 DEF RewriteTemp
<1>4. /\ i \in Inodes /\ files'[i] = Rewritten(f, base)
      /\ \A j \in Inodes : j # i => files'[j] = files[j]
      /\ i \notin Range(dir) \cup Range(durableDir)
      /\ \A b \in DOMAIN dir : dir[b] \in Inodes /\ dir[b] # i
  <2>1. i \in Inodes /\ i \notin Range(dir) \cup Range(durableDir)
    BY DEF FreeInodes, Live
  <2>2. \A b \in DOMAIN dir : dir[b] \in Inodes /\ dir[b] # i
    BY <2>1, SegsType DEF Range
  <2>3. files \in [Inodes -> File]
    BY DEF DiskTypeOK
  <2> QED BY <1>3, <2>1, <2>2, <2>3
<1>5. /\ old \in DOMAIN dir /\ old \in Nat /\ f \in File /\ Segs[old] = old + Len(f.data)
      /\ \A k \in DOMAIN f.data : f.data[k].lsn = old + k - 1
  <2>1. old \in DOMAIN dir /\ f \in File /\ Segs[old] = old + Len(f.data) /\ old \in Nat
    BY <1>2, SegsType
  <2>2. Placed(dir[old], old)
    BY <2>1 DEF PlacementOK, NamesOK
  <2> QED BY <2>1, <2>2 DEF Placed
<1> HIDE DEF old, base, f
<1>6. /\ Whole(Rewritten(f, base)) /\ Bounded(Rewritten(f, base))
      /\ CopiedTo(f, base, Rewritten(f, base))
  BY <1>2, <1>5, RewrittenCopies
<1>7. FilesKept
  <2>1. \A j \in Inodes : files[j] \in File /\ Bounded(files[j]) /\ SameRecords(files[j], files[j])
    BY FileOps DEF StorageOK, DiskTypeOK, Bounded
  <2> QED BY <1>1, <1>4, <1>6, <2>1 DEF FilesKept
<1>8. StorageOK' /\ DirsOK'
  <2>1. Answered' = Answered
    BY <1>1, SameAnswered DEF hist
  <2> QED BY <1>1, <1>7, <2>1, SameNames, BatchType DEF hist
<1>9. RewriteOK'
  <2> SUFFICES ASSUME NEW b \in DOMAIN dir, b < base
               PROVE  CopiedTo(files[dir[b]], base, Rewritten(f, base))
    BY <1>1, <1>3, <1>4, <1>6 DEF RewriteOK, base
  <2>1. CASE b = old
    BY <1>6, <2>1 DEF f
  <2>2. CASE b # old
    <3>1. /\ b \in Nat /\ Segs[b] \in Nat /\ Segs[old] \in Nat
          /\ b < old => Segs[b] <= old
          /\ old < b => Segs[old] <= b
      BY <1>2, IndexApart
    <3>2. Segs[b] <= old
      BY <1>2, <1>5, <2>2, <3>1
    <3>3. \A r \in Range(files[dir[b]].data) : ~(base <= r.lsn)
      <4>1. \A r \in Range(files[dir[b]].data) : r.lsn \in Nat /\ r.lsn < Segs[b]
        BY LSNsBelow
      <4> QED BY <1>2, <1>5, <3>1, <3>2, <4>1
    <3> QED BY <3>3 DEF CopiedTo
  <2> QED BY <2>1, <2>2
<1>10. DoomedOK' /\ FloorOK'
  <2>1. ~Dropping'
    BY <1>1, <1>2 DEF Dropping
  <2> QED BY <1>1, <2>1 DEF DoomedOK, FloorOK, hist
<1>11. AcksOK'
  <2>1. Opened' <=> Opened
    BY <1>1, OpenedIff, OpenedIffNext
  <2> QED BY <1>1, <2>1, SameAcks DEF hist, Committing
<1> QED BY <1>8, <1>9, <1>10, <1>11

LEMMA RewriteTempFailsSurvival ==
  ASSUME Known, Known', Survival, HarmlessFailures, RewriteTempFails
  PROVE  Survival'
<1> USE DEF Known, Survival
<1>1. /\ pc = "rewrite" /\ pc' = "idle" /\ job' = NoJob
      /\ UNCHANGED <<files, dir, durableDir, batch, active, nextLSN, lastLSN>> /\ UNCHANGED hist
  BY NoFault DEF HarmlessCalls, RewriteTempFails, JobFails, mem, hist
<1>2. FilesKept
  BY <1>1, UsualFiles
<1>3. StorageOK' /\ DirsOK'
  <2>1. Answered' = Answered
    BY <1>1, SameAnswered DEF hist
  <2> QED BY <1>1, <1>2, <2>1, SameNames, BatchType DEF hist
<1>4. DoomedOK' /\ RewriteOK' /\ FloorOK'
  BY <1>1, NoDrop DEF NoJob
<1>5. AcksOK'
  <2>1. (Opened' <=> Opened) /\ ~Committing
    BY <1>1, OpenedIff, OpenedIffNext DEF StepsOK, Kinds, Committing
  <2> QED BY <1>1, <2>1, SameAcks DEF hist
<1> QED BY <1>3, <1>4, <1>5

\* The replacement that is dropped was never named.
LEMMA PublishFailsSurvival ==
  ASSUME Known, Known', Survival, HarmlessFailures, PublishFails
  PROVE  Survival'
<1> USE DEF Known, Survival
<1>1. /\ pc = "publish" /\ pc' = "idle" /\ job' = NoJob
      /\ files' = Collected(files, Live(dir', durableDir', active, Nil))
      /\ UNCHANGED <<dir, durableDir, batch, active, nextLSN, lastLSN>> /\ UNCHANGED hist
  BY NoFault DEF HarmlessCalls, PublishFails, JobFails, mem, hist
<1>2. FilesKept
  BY <1>1, CollectedFilesKept DEF Live
<1>3. StorageOK' /\ DirsOK'
  <2>1. Answered' = Answered
    BY <1>1, SameAnswered DEF hist
  <2> QED BY <1>1, <1>2, <2>1, SameNames, BatchType DEF hist
<1>4. DoomedOK' /\ RewriteOK' /\ FloorOK'
  BY <1>1, NoDrop DEF NoJob
<1>5. AcksOK'
  <2>1. (Opened' <=> Opened) /\ ~Committing
    BY <1>1, OpenedIff, OpenedIffNext DEF StepsOK, Kinds, Committing
  <2> QED BY <1>1, <2>1, SameAcks DEF hist
<1> QED BY <1>3, <1>4, <1>5

\* The replacement appears beside the segment it replaces.
LEMMA PublishRewriteSurvival ==
  ASSUME Known, Known', Survival, PublishRewrite
  PROVE  Survival'
<1> USE DEF Known, Survival
<1> DEFINE base == job.base
           low == index[Len(job.names)]
<1>1. /\ pc = "publish" /\ pc' = "publishSync"
      /\ files' = Collected(files, Live(dir', durableDir, active, fresh))
      /\ UNCHANGED <<durableDir, job, batch, fresh, active, nextLSN, lastLSN>> /\ UNCHANGED hist
  BY DEF PublishRewrite, mem
<1>2. /\ job.kind = "cutRewrite" /\ Opened /\ ~Dropping /\ ~DirAhead /\ HasFresh
      /\ fresh \in Inodes /\ ~Committing
  BY <1>1, WriterOpened, NotAhead, OpenedIff DEF StepsOK, Kinds, Dropping, HasFresh, Committing
<1>3. /\ Len(job.names) \in 1..Len(index) /\ base \notin DOMAIN dir /\ DOMAIN dir = Range(index)
      /\ DOMAIN dir' = DOMAIN dir \cup {base} /\ dir'[base] = fresh
      /\ Segs'[base] = Segs[low]
      /\ \A c \in DOMAIN dir : KeptName(c) /\ Segs'[c] = Segs[c]
      /\ \A k \in 1..Len(index) : k <= Len(job.names) => index[k] < base
      /\ base \in Range(job.idx) /\ Range(job.names) \subseteq Range(index)
      /\ \A c \in Range(job.names) : c \in Nat /\ c < base
  BY PublishRewriteSegs
<1>4. low \in Range(index) /\ low < base /\ base \in Nat /\ low \in DOMAIN dir /\ low \in Nat
  <2>1. Len(job.names) <= Len(job.names) /\ Len(job.names) \in DOMAIN index
    BY <1>2, <1>3, IndexFacts
  <2> QED BY <1>2, <1>3, <2>1, JobType, SegsType DEF Range
<1> HIDE DEF low, base
<1>5. Links(dir, dir', base)
  BY <1>3, <1>4 DEF Links, KeptName
<1>6. FilesKept
  BY <1>1, CollectedFilesKept DEF Live
<1>7. StorageOK'
  <2>1. \A j \in Inodes : files'[j].synced <= Len(files'[j].data)
    BY <1>6 DEF FilesKept, Bounded
  <2>2. MayLosePower => OneApart(dir', durableDir')
    <3> SUFFICES ASSUME MayLosePower PROVE OneApart(dir', durableDir)
      BY <1>1
    <3>1. durableDir = dir
      BY <1>2 DEF Durable
    <3> QED BY <1>3, <1>5, <3>1 DEF OneApart, Links
  <2> QED BY <1>1, <2>1, <2>2 DEF StorageOK
<1>8. /\ Proper(files, dir) /\ Proper(files, durableDir)
      /\ Proper(files', dir') /\ Proper(files', durableDir)
  BY <1>1, <1>7, DirsProper, NextDirsProper
<1>9. Proper(files', dir)
  BY <1>8, <1>5 DEF Links, Proper
<1>10. /\ \A d \in {dir, durableDir} : \A b \in DOMAIN d : SameRecords(files[d[b]], files'[d[b]])
       /\ SameRecords(files[fresh], files'[fresh]) /\ files'[fresh] = files[fresh]
  <2>1. \A b \in DOMAIN dir : dir[b] \in Inodes /\ dir[b] \in Range(dir')
    <3>1. \A b \in DOMAIN dir : dir[b] \in Inodes
      BY SegsType
    <3> QED BY <1>5, <3>1 DEF Links, Range
  <2>2. \A b \in DOMAIN durableDir : durableDir[b] \in Inodes /\ durableDir[b] \in Range(durableDir')
    <3>1. \A b \in DOMAIN durableDir : durableDir[b] \in Inodes
      BY NamedType
    <3> QED BY <1>1, <3>1 DEF Range
  <2>3. fresh \in Range(dir')
    BY <1>3 DEF Range
  <2>4. files'[fresh] = files[fresh]
    BY <1>1, <1>2, <2>3 DEF Collected, Live
  <2> QED BY <1>2, <1>6, <2>1, <2>2, <2>3, <2>4 DEF FilesKept
<1>11. /\ Sound(files', dir, floor, promised, cutDone)
       /\ Kept(files', dir, floor, Answered, FALSE)
       /\ MayLosePower => Sound(files', durableDir, floor, promised, cutDone)
  BY <1>8, <1>9, <1>10, DirKept
<1>12. /\ base <= floor /\ floor \in Nat /\ Whole(files'[dir'[base]])
       /\ \A b \in DOMAIN dir : b < base => CopiedTo(files'[dir[b]], base, files'[dir'[base]])
  <2>1. base <= floor /\ floor \in Nat
    BY <1>2, BatchType DEF FloorOK, base
  <2>2. \A b \in DOMAIN dir : files'[dir[b]].data = files[dir[b]].data
    BY <1>10 DEF SameRecords
  <2> QED BY <1>1, <1>3, <1>10, <2>1, <2>2 DEF RewriteOK, CopiedTo, base
<1>13. \A c \in DOMAIN dir : base < c => base + Len(files'[dir'[base]].data) <= c
  <2> SUFFICES ASSUME NEW c \in DOMAIN dir, base < c
               PROVE  base + Len(files'[dir'[base]].data) <= c
    OBVIOUS
  <2>1. Segs[low] \in Nat /\ c \in Nat /\ (low < c => Segs[low] <= c)
    BY <1>2, <1>3, <1>4, IndexApart
  <2>2. base + Len(files'[dir'[base]].data) = Segs[low]
    BY <1>3, SegNext
  <2> QED BY <1>4, <2>1, <2>2
<1>14. DirsOK'
  <2>1. Kept(files', dir', floor, Answered, FALSE)
    BY <1>5, <1>8, <1>9, <1>11, <1>12, KeptRewritten, BatchType DEF Answered
  <2>2. Sound(files', dir', floor, promised, cutDone)
    BY <1>4, <1>5, <1>8, <1>9, <1>11, <1>12, <1>13, SoundRewritten, BatchType
  <2>3. Answered' = Answered
    BY <1>1, SameAnswered DEF hist
  <2> QED BY <1>1, <1>11, <2>1, <2>2, <2>3 DEF DirsOK, hist
<1>15. DoomedOK'
  <2> SUFFICES ASSUME NEW b \in Range(job.names) \cap DOMAIN dir'
               PROVE  Dispensable(b, Range(job.idx))'
    BY <1>1 DEF DoomedOK
  <2>1. b \in DOMAIN dir /\ b < base /\ dir'[b] = dir[b] /\ base \in Range(job.idx)
    BY <1>3 DEF KeptName
  <2>2. CopiedTo(files'[dir'[b]], base, files'[dir'[base]])
    BY <1>12, <2>1
  <2>3. \A r \in Range(files'[dir'[b]].data) : floor <= r.lsn => base <= r.lsn
    <3>1. \A r \in Range(files'[dir'[b]].data) : r.lsn \in Nat
      <4>1. files'[dir'[b]].data = files[dir[b]].data
        BY <1>10, <2>1 DEF SameRecords
      <4> QED BY <2>1, <4>1, LSNsBelow
    <3> QED BY <1>4, <1>12, <3>1
  <2> QED BY <1>1, <2>1, <2>2, <2>3 DEF Dispensable, CopiedTo, hist
<1>16. RewriteOK' /\ FloorOK'
  BY <1>1 DEF RewriteOK, FloorOK, hist
<1>17. AcksOK'
  <2>1. Opened' <=> Opened
    BY <1>1, OpenedIff, OpenedIffNext
  <2> QED BY <1>1, <1>2, <2>1, SameAcks DEF hist
<1> QED BY <1>7, <1>14, <1>15, <1>16, <1>17

LEMMA PublishSyncSurvival ==
  ASSUME Known, Known', Survival, PublishSync
  PROVE  Survival'
<1> USE DEF Known, Survival
<1>1. /\ pc = "publishSync" /\ pc' = "remove" /\ dir' = dir /\ durableDir' = dir
      /\ files' = Collected(files, Live(dir, dir, active, fresh))
      /\ UNCHANGED <<job, batch, fresh, active, nextLSN, lastLSN>> /\ UNCHANGED hist
  BY DEF PublishSync, mem
<1>2. FilesKept
  BY <1>1, CollectedFilesKept DEF Live
<1>3. StorageOK' /\ DirsOK'
  <2>1. Answered' = Answered
    BY <1>1, SameAnswered DEF hist
  <2> QED BY <1>1, <1>2, <2>1, SameNames, BatchType DEF hist
<1>4. DoomedOK'
  BY <1>1, <1>2, SameDoomed DEF Dropping, hist
<1>5. RewriteOK' /\ FloorOK'
  BY <1>1 DEF RewriteOK, FloorOK, hist
<1>6. AcksOK'
  <2>1. (Opened' <=> Opened) /\ ~Committing
    BY <1>1, OpenedIff, OpenedIffNext DEF StepsOK, Kinds, Committing
  <2> QED BY <1>1, <2>1, SameAcks DEF hist
<1> QED BY <1>3, <1>4, <1>5, <1>6

-----------------------------------------------------------------------------
(* Deletions, of the writer and of recovery.                               *)

\* A name that is there and need not be.
LEMMA RemoveFileDispensable ==
  ASSUME Known, Survival, RemoveFile
  PROVE  LET x == Head(job.names)
             kept == IF pc = "reconcile" THEN job.paths ELSE Range(job.idx)
         IN  /\ x \in DOMAIN dir /\ Unlinks(dir, dir', x) /\ kept \subseteq DOMAIN dir'
             /\ Dispensable(x, kept)
             /\ (Dropping \/ pc \in {"reconcile", "prune"})
             /\ MayLosePower => durableDir = dir
<1> USE DEF Known, Survival
<1> DEFINE x == Head(job.names)
           kept == IF pc = "reconcile" THEN job.paths ELSE Range(job.idx)
<1>1. /\ pc \in {"remove", "reconcile", "prune"} /\ job.names # << >> /\ ~job.unlinked
      /\ dir' = Unlink(dir, x)
  BY DEF RemoveFile, Deleting
<1>2. DOMAIN dir = Range(job.names) \cup kept /\ Range(job.names) \cap kept = {}
  BY <1>1, DeletingFacts DEF Pending
<1>3. x \in Range(job.names)
  BY <1>1, TailAscending, DeletingFacts, JobType
<1>4. Unlinks(dir, dir', x)
  BY <1>1, UnlinkType DEF Unlinks, DiskTypeOK
<1>5. kept \subseteq DOMAIN dir'
  BY <1>2, <1>3, <1>4 DEF Unlinks
<1>6. (Dropping \/ pc \in {"reconcile", "prune"}) /\ x \in DOMAIN dir
  BY <1>1, <1>2, <1>3 DEF Dropping
<1>7. Dispensable(x, kept)
  BY <1>3, <1>6 DEF DoomedOK
<1>8. MayLosePower => durableDir = dir
  BY <1>1 DEF Durable, DirAhead
<1> QED BY <1>4, <1>5, <1>6, <1>7, <1>8

\* It stays one while the others go.
LEMMA StillDispensable ==
  ASSUME ControlOK', FilesKept, floor' = floor, pc = "prune" => pc' = "prune",
         \A c \in DOMAIN dir' : c \in DOMAIN dir /\ dir'[c] = dir[c],
         NEW b \in DOMAIN dir', NEW kept, kept \subseteq DOMAIN dir', Dispensable(b, kept)
  PROVE  Dispensable(b, kept)'
<1>1. \A c \in DOMAIN dir' : files'[dir'[c]].data = files[dir[c]].data
  BY DEF FilesKept, SameRecords, Range, DiskTypeOK
<1>2. \A c \in kept : Segs'[c] = Segs[c]
  <2>1. Segs' = [c \in DOMAIN dir' |-> c + Len(files'[dir'[c]].data)]
    BY DEF Segs, EndOf
  <2>2. Segs = [c \in DOMAIN dir |-> c + Len(files[dir[c]].data)]
    BY DEF Segs, EndOf
  <2> QED BY <1>1, <2>1, <2>2
<1> QED BY <1>1, <1>2 DEF Dispensable

LEMMA RemoveFileSurvival ==
  ASSUME Known, Known', Survival, RemoveFile
  PROVE  Survival'
<1> USE DEF Known, Survival
<1> DEFINE x == Head(job.names)
           kept == IF pc = "reconcile" THEN job.paths ELSE Range(job.idx)
<1>1. /\ pc \in {"remove", "reconcile", "prune"} /\ pc' = pc
      /\ files' = Collected(files, Live(dir', durableDir, active, fresh))
      /\ job' = [job EXCEPT !.unlinked = TRUE]
      /\ UNCHANGED <<durableDir, batch, fresh, active, nextLSN, lastLSN>> /\ UNCHANGED hist
  BY DEF RemoveFile, Deleting, mem
<1>2. /\ job'.names = job.names /\ job'.idx = job.idx /\ job'.paths = job.paths
      /\ job'.kind = job.kind /\ job'.base = job.base
  BY <1>1 DEF ControlTypeOK
<1>3. /\ x \in DOMAIN dir /\ Unlinks(dir, dir', x) /\ kept \subseteq DOMAIN dir'
      /\ Dispensable(x, kept)
      /\ (Dropping \/ pc \in {"reconcile", "prune"})
      /\ MayLosePower => durableDir = dir
  BY RemoveFileDispensable
<1> HIDE DEF x, kept
<1>4. FilesKept
  BY <1>1, CollectedFilesKept DEF Live
<1>5. StorageOK'
  <2>1. \A j \in Inodes : files'[j].synced <= Len(files'[j].data)
    BY <1>4 DEF FilesKept, Bounded
  <2>2. MayLosePower => OneApart(dir', durableDir')
    BY <1>1, <1>3 DEF OneApart, Unlinks
  <2> QED BY <1>1, <2>1, <2>2 DEF StorageOK
<1>6. /\ Proper(files, dir) /\ Proper(files, durableDir)
      /\ Proper(files', dir') /\ Proper(files', durableDir)
  BY <1>1, <1>5, DirsProper, NextDirsProper
<1>7. Proper(files, dir')
  BY <1>6, <1>3 DEF Unlinks, Proper
<1>8. \A d \in {dir', durableDir} : \A b \in DOMAIN d : SameRecords(files[d[b]], files'[d[b]])
  <2>1. \A b \in DOMAIN dir' : dir'[b] \in Inodes /\ dir'[b] \in Range(dir')
    BY DEF DiskTypeOK, Range
  <2>2. \A b \in DOMAIN durableDir : durableDir[b] \in Inodes /\ durableDir[b] \in Range(durableDir')
    BY <1>1 DEF DiskTypeOK, Range
  <2> QED BY <1>4, <2>1, <2>2 DEF FilesKept
<1>9. /\ floor \in Nat /\ floor <= floor /\ cutDone \in Nat
      /\ Answered \in SUBSET Rec /\ Answered \in SUBSET Answered /\ promised \in SUBSET Rec
  BY BatchType DEF Answered
<1>10. \A r \in Range(files[dir[x]].data) : floor <= r.lsn =>
         \E c \in DOMAIN dir' : x < c /\ r \in Range(files[dir[c]].data)
  BY <1>3 DEF Dispensable
<1>11. \E c \in DOMAIN dir' :
         \/ x < c
         \/ /\ files[dir[x]].data = << >> /\ x <= c + Extent(files[dir[c]], FALSE)
            /\ x <= c + Extent(files[dir[c]], MayLosePower)
  <2>1. PICK c \in kept : x < c \/ (pc = "prune" /\ files[dir[x]].data = << >> /\ x <= Segs[c])
    BY <1>3 DEF Dispensable
  <2>2. c \in DOMAIN dir' /\ c \in DOMAIN dir
    BY <1>3 DEF Unlinks
  <2>3. Segs[c] = c + Extent(files[dir[c]], FALSE)
    BY <2>2, SegsType DEF Extent
  <2>4. ASSUME pc = "prune", MayLosePower
        PROVE  Extent(files[dir[c]], TRUE) = Extent(files[dir[c]], FALSE)
    <3>1. active \notin Inodes /\ fresh \notin Inodes /\ dir[c] \in Inodes
          /\ files[dir[c]] \in File /\ Bounded(files[dir[c]])
      BY <2>2, <2>4, OpenedIff, RecoveringFacts, SegsType DEF StorageOK, Bounded
    <3>2. ~HasUnsynced(files[dir[c]])
      BY <2>2, <2>4, <3>1 DEF Durable, Synced
    <3> QED BY <3>1, <3>2 DEF HasUnsynced, Extent, Bounded, File
  <2>5. pc = "prune" => Extent(files[dir[c]], MayLosePower) = Extent(files[dir[c]], FALSE)
    BY <2>4 DEF Extent
  <2> QED BY <2>1, <2>2, <2>3, <2>5
<1>12. Kept(files', dir', floor, Answered, FALSE)
  <2>1. Kept(files, dir, floor, Answered, FALSE) /\ CutOverlaps(files, dir, floor)
    BY DEF DirsOK, Sound
  <2>2. Kept(files, dir', floor, Answered, FALSE)
    BY <1>3, <1>6, <1>9, <1>10, <1>11, <2>1, KeptUnlinked
  <2>3. \A b \in DOMAIN dir' : Grows(files[dir'[b]], files'[dir'[b]])
    BY <1>8 DEF SameRecords
  <2> QED BY <1>6, <1>7, <1>9, <2>2, <2>3, KeptGrows
<1>13. Sound(files', dir', floor, promised, cutDone)
  <2>1. Sound(files, dir, floor, promised, cutDone)
    BY DEF DirsOK
  <2>2. Sound(files, dir', floor, promised, cutDone)
    BY <1>3, <1>6, <1>9, <1>10, <1>11, <2>1, SoundUnlinked
  <2>3. \A b \in DOMAIN dir' : /\ Grows(files[dir'[b]], files'[dir'[b]])
                               /\ files'[dir'[b]].data = files[dir'[b]].data
    BY <1>8 DEF SameRecords
  <2> QED BY <1>6, <1>7, <1>9, <2>2, <2>3, SoundGrows
<1>14. MayLosePower => Sound(files', durableDir, floor, promised, cutDone)
  <2>1. \A b \in DOMAIN durableDir : SameRecords(files[durableDir[b]], files'[durableDir[b]])
    BY <1>8
  <2>2. Proper(files, durableDir) /\ Proper(files', durableDir)
    BY <1>6
  <2> QED BY <2>1, <2>2, DirKept
<1>15. DirsOK'
  <2>1. Answered' = Answered
    BY <1>1, SameAnswered DEF hist
  <2> QED BY <1>1, <1>12, <1>13, <1>14, <2>1 DEF DirsOK, hist
<1>16. DoomedOK'
  <2>1. kept' = kept
    BY <1>1, <1>2 DEF kept
  <2> SUFFICES ASSUME NEW b \in Range(job.names) \cap DOMAIN dir'
               PROVE  Dispensable(b, kept)'
    BY <1>2 DEF DoomedOK, kept
  <2>2. \A c \in DOMAIN dir' : c \in DOMAIN dir /\ dir'[c] = dir[c]
    BY <1>3 DEF Unlinks
  <2>3. Dispensable(b, kept)
    BY <1>3, <2>2 DEF DoomedOK, kept
  <2>4. floor' = floor /\ (pc = "prune" => pc' = "prune") /\ ControlOK'
    BY <1>1 DEF hist
  <2>5. PICK k : k = kept
    OBVIOUS
  <2>6. Dispensable(b, k)'
    BY <1>3, <1>4, <2>2, <2>3, <2>4, <2>5, StillDispensable
  <2> QED BY <2>1, <2>5, <2>6 DEF Dispensable
<1>17. RewriteOK' /\ FloorOK'
  BY <1>1, <1>2 DEF RewriteOK, FloorOK, hist
<1>18. AcksOK'
  <2>1. (Opened' <=> Opened)
    BY <1>1, OpenedIff, OpenedIffNext
  <2> QED BY <1>1, <1>2, <2>1, SameAcks DEF hist, Committing
<1> QED BY <1>5, <1>15, <1>16, <1>17, <1>18

LEMMA SyncRemovalSurvival ==
  ASSUME Known, Known', Survival, SyncRemoval
  PROVE  Survival'
<1> USE DEF Known, Survival
<1>1. /\ pc \in {"remove", "reconcile", "prune"} /\ pc' = pc /\ dir' = dir /\ durableDir' = dir
      /\ files' = Collected(files, Live(dir, dir, active, fresh)) /\ job.names # << >>
      /\ job' = [job EXCEPT !.unlinked = FALSE, !.names = Tail(job.names)]
      /\ UNCHANGED <<batch, fresh, active, nextLSN, lastLSN>> /\ UNCHANGED hist
  BY DEF SyncRemoval, Deleting, mem
<1>2. /\ job'.names = Tail(job.names) /\ job'.idx = job.idx /\ job'.paths = job.paths
      /\ job'.kind = job.kind /\ job'.base = job.base
  BY <1>1 DEF ControlTypeOK
<1>3. FilesKept
  BY <1>1, CollectedFilesKept DEF Live
<1>4. StorageOK' /\ DirsOK'
  <2>1. Answered' = Answered
    BY <1>1, SameAnswered DEF hist
  <2> QED BY <1>1, <1>3, <2>1, SameNames, BatchType DEF hist
<1>5. DoomedOK'
  <2>1. Range(job'.names) \subseteq Range(job.names)
    BY <1>1, <1>2, TailAscending, DeletingFacts, JobType
  <2>2. Dropping' => Dropping
    BY <1>1, DeletingFacts DEF Dropping
  <2> QED BY <1>1, <1>2, <1>3, <2>1, <2>2, SameDoomed DEF hist
<1>6. RewriteOK' /\ FloorOK'
  BY <1>1, <1>2 DEF RewriteOK, FloorOK, hist
<1>7. AcksOK'
  <2>1. (Opened' <=> Opened)
    BY <1>1, OpenedIff, OpenedIffNext
  <2> QED BY <1>1, <1>2, <2>1, SameAcks DEF hist, Committing
<1> QED BY <1>4, <1>5, <1>6, <1>7

\* Nothing is left below the cut.
LEMMA FinishSurvival ==
  ASSUME Known, Known', Survival,
         FinishTruncate \/ FinishCutBelow \/ FinishCutRewrite \/ FinishCutEverything
  PROVE  Survival'
<1> USE DEF Known, Survival
<1>1. /\ pc = "remove" /\ job.names = << >>
      /\ Installed(IF ReplacesActive THEN fresh ELSE active,
                   IF job.kind = "cutAll" THEN 0 ELSE job.idx[1])
  BY FinishInstalls
<1>2. DOMAIN dir = Range(job.idx) /\ Opened /\ Opened'
  BY <1>1, InstalledKept
<1>3. /\ pc' = "idle" /\ job' = NoJob
      /\ UNCHANGED <<dir, durableDir, batch, nextLSN, lastLSN, acked, promised, floor>>
      /\ \E a : files' = Collected(files, Live(dir, durableDir, a, Nil))
  BY <1>1 DEF Installed
<1>4. FilesKept
  BY <1>3, CollectedFilesKept DEF Live
<1>5. cutDone' = cutDone \/ (CutOff(dir, cutDone') /\ (MayLosePower => durableDir' = dir))
  <2>1. CASE FinishTruncate
    BY <2>1 DEF FinishTruncate
  <2>2. CASE FinishCutBelow \/ FinishCutRewrite \/ FinishCutEverything
    <3>1. job.kind \in {"cutBelow", "cutRewrite", "cutAll"} /\ cutDone' = MaxOf(cutDone, job.base)
      BY <2>2 DEF FinishCutBelow, FinishCutRewrite, FinishCutEverything, Removed
    <3>2. /\ Ascending(job.idx) /\ job.idx[1] = job.base /\ job.idx # << >>
          /\ job.idx \in Seq(Nat) /\ job.base \in Nat
      <4>1. /\ job.idx \in Seq(Nat) /\ job.base \in Nat /\ job.idx # << >>
        BY <3>1, JobType DEF StepsOK, DropKinds
      <4>2. CASE job.kind = "cutAll"
        <5>1. job.idx = <<nextLSN>> /\ job.base = nextLSN
          BY <4>2 DEF PlacementOK, PlanOK
        <5>2. Ascending(<<nextLSN>>) /\ <<nextLSN>>[1] = nextLSN
          BY DEF Ascending
        <5> QED BY <4>1, <5>1, <5>2
      <4>3. CASE job.kind # "cutAll"
        BY <3>1, <4>1, <4>3 DEF PlacementOK, PlanOK
      <4> QED BY <4>2, <4>3
    <3>3. \A b \in Range(job.idx) : b \in Nat /\ job.base <= b
      <4> SUFFICES ASSUME NEW k \in DOMAIN job.idx PROVE job.idx[k] \in Nat /\ job.base <= job.idx[k]
        BY DEF Range
      <4>1. DOMAIN job.idx = 1..Len(job.idx) /\ Len(job.idx) > 0 /\ Len(job.idx) \in Nat
        BY <3>2, LastElement
      <4>2. 1 \in DOMAIN job.idx /\ job.idx[k] \in Nat /\ job.idx[1] \in Nat
        BY <4>1, JobType
      <4>3. k = 1 \/ job.idx[1] < job.idx[k]
        BY <3>2, <4>1, <4>2 DEF Ascending
      <4> QED BY <3>2, <4>2, <4>3
    <3>4. CutOff(dir, cutDone')
      <4>1. \A b \in DOMAIN dir : cutDone <= b
        BY DEF DirsOK, Sound, CutOff
      <4>2. \A b \in DOMAIN dir : cutDone' <= b
        BY <1>2, <3>1, <3>2, <3>3, <4>1, BatchType DEF MaxOf
      <4>3. Range(job.idx) # {}
        <5>1. Len(job.idx) \in DOMAIN job.idx
          BY <3>2, LastElement
        <5> QED BY <5>1 DEF Range
      <4> QED BY <1>2, <4>2, <4>3 DEF CutOff
    <3>5. MayLosePower => durableDir' = dir
      <4>1. ~DirAhead
        BY <1>1, NotAhead
      <4> QED BY <1>3, <4>1 DEF Durable
    <3> QED BY <3>4, <3>5
  <2> QED BY <2>1, <2>2
<1>6. StorageOK' /\ DirsOK'
  <2>1. Answered' = Answered
    BY <1>3, SameAnswered
  <2> QED BY <1>3, <1>4, <1>5, <2>1, SameNames, BatchType
<1>7. DoomedOK' /\ RewriteOK' /\ FloorOK'
  BY <1>3, NoDrop DEF NoJob
<1>8. AcksOK'
  <2>1. ~Committing
    BY <1>1 DEF StepsOK, Kinds, Committing
  <2> QED BY <1>2, <1>3, <2>1, SameAcks
<1> QED BY <1>6, <1>7, <1>8

-----------------------------------------------------------------------------
(* Recovery.                                                               *)

\* Steps of recovery that change no file and no name, and delete nothing.
LEMMA RecoveryFrame ==
  ASSUME Known, Known', Survival, pc \in {"closed", "scan", "reconcile", "prune"},
         FilesKept, dir' = dir, durableDir' \in {dir, durableDir}, UNCHANGED <<mem, batch>>,
         UNCHANGED <<acked, promised, floor, cutDone>>,
         pc' \in {"closed", "createOpen", "scan"}, pc' = "createOpen" => pc = "closed",
         job'.kind \in {"none", "init", "recover"}
  PROVE  Survival'
<1> USE DEF Known, Survival, mem
<1>2. pc' = "createOpen" => (MayLosePower => durableDir' = dir)
  BY NotAhead DEF Durable
<1>3. StorageOK' /\ DirsOK'
  <2>1. Answered' = Answered
    BY SameAnswered
  <2> QED BY <1>2, <2>1, SameNames, BatchType
<1>4. DoomedOK' /\ RewriteOK' /\ FloorOK'
  BY NoDrop
<1>5. AcksOK'
  <2>1. (Opened' <=> Opened) /\ ~Committing
    BY OpenedIff, OpenedIffNext, RecoveringFacts
  <2> QED BY <2>1, SameAcks
<1> QED BY <1>3, <1>4, <1>5

LEMMA ReadingSurvival ==
  ASSUME Known, Known', Survival, OpenDir \/ ScanSegment \/ OpenCorrupt \/ Reconciled
  PROVE  Survival'
<1>1. /\ pc \in {"closed", "scan", "reconcile", "prune"}
      /\ dir' = dir /\ durableDir' \in {dir, durableDir} /\ UNCHANGED <<mem, batch>>
      /\ UNCHANGED <<acked, promised, floor, cutDone>>
      /\ pc' \in {"closed", "createOpen", "scan"} /\ (pc' = "createOpen" => pc = "closed")
  BY DEF OpenDir, ScanSegment, OpenCorrupt, Reconciled, Closed, Scanning, OpenFails, disk, hist
<1>0. FilesKept
  <2>1. files' = files \/ files' = Collected(files, Live(dir, durableDir', active, fresh))
    BY DEF OpenDir, ScanSegment, OpenCorrupt, Reconciled, disk
  <2>2. \A i \in Inodes :
          files'[i] = files[i] \/ (files'[i] = NewFile /\ i \notin Range(dir') \cup Range(durableDir'))
    BY <1>1, <2>1 DEF Collected, Live
  <2> QED BY <2>2, UsualFiles DEF Known, Survival
<1>2. job'.kind \in {"none", "init", "recover"}
  <2>1. CASE OpenDir
    BY <2>1 DEF OpenDir, NoJob
  <2>2. CASE ScanSegment \/ Reconciled
    <3>1. job.kind = "recover" /\ job'.kind = job.kind
      BY <2>2, RecoveringFacts DEF Known, ScanSegment, Reconciled, Scanning, ControlTypeOK
    <3> QED BY <3>1
  <2>3. CASE OpenCorrupt
    BY <2>3 DEF OpenCorrupt, OpenFails, NoJob
  <2> QED BY <2>1, <2>2, <2>3
<1> QED BY <1>0, <1>1, <1>2, RecoveryFrame

\* What is collected ends where the overlapping segment starts, or is in it.
LEMMA ReconcileSurvival ==
  ASSUME Known, Known', Survival, Reconcile
  PROVE  Survival'
<1> USE DEF Known, Survival
<1>1. /\ pc = "scan" /\ pc' = "reconcile" /\ Scanning /\ Overlaps
      /\ job'.names = job.idx /\ job'.paths = job.paths /\ job'.kind = job.kind
      /\ UNCHANGED <<files, dir, durableDir, batch, active, nextLSN, lastLSN>> /\ UNCHANGED hist
  BY DEF Reconcile, Scanning, ControlTypeOK, disk, mem
<1>2. /\ Path \in job.paths /\ Path \in DOMAIN dir /\ Path \in Nat
  BY <1>1, PathType
<1> DEFINE n == Len(job.idx)
           last == job.idx[n]
<1>3. /\ job.idx \in Seq(Nat) /\ job.idx # << >> /\ n \in Nat /\ n > 0 /\ DOMAIN job.idx = 1..n
      /\ Ascending(job.idx) /\ \A k \in 1..n : job.idx[k] < Path /\ job.idx[k] \in Nat
      /\ \A k \in 1..n : job.idx[k] \in DOMAIN dir
  <2>1. job.idx \in Seq(Nat) /\ job.idx # << >>
    BY <1>1, JobType DEF Overlaps, IsFirst
  <2>2. n \in Nat /\ n > 0 /\ DOMAIN job.idx = 1..n
    BY <2>1, LastElement
  <2>3. /\ Ascending(job.idx) /\ \A k \in DOMAIN job.idx : job.idx[k] < Path
        /\ Range(job.idx) \subseteq DOMAIN dir
    BY <1>1, <1>2 DEF RecoveryOK, ScanOK
  <2> QED BY <2>1, <2>2, <2>3, JobType DEF Range
<1>4. /\ Path < Segs[last] /\ \A k \in 1..(n - 1) : job.idx[k + 1] = Segs[job.idx[k]]
  <2>1. LogIndex = job.idx /\ job.expected = Segs[LastOf(job.idx)]
    BY <1>1, <1>3, RecoveringFacts DEF Agreement, ScannedOK
  <2> QED BY <1>1, <2>1 DEF Agreement, ChainOK, Overlaps, LastOf
<1>5. /\ Path <= floor /\ CopiedTo(files[dir[last]], Path, files[dir[Path]]) /\ floor \in Nat
  <2>1. last \in DOMAIN dir /\ last < Path
    <3>1. n \in 1..n
      BY <1>3
    <3> QED BY <1>3, <3>1
  <2>2. Segs[last] = last + Len(files[dir[last]].data)
    BY <2>1, SegsType
  <2>3. CutOverlaps(files, dir, floor)
    BY DEF DirsOK, Sound
  <2> QED BY <1>2, <1>4, <2>1, <2>2, <2>3, BatchType DEF CutOverlaps
<1> HIDE DEF last
<1>6. ASSUME NEW b \in Range(job.idx) PROVE Dispensable(b, job.paths)'
  <2>1. PICK k \in 1..n : b = job.idx[k]
    BY <1>3 DEF Range
  <2>2. b \in DOMAIN dir /\ b < Path
    BY <1>3, <2>1
  <2>3. ASSUME NEW r \in Range(files[dir[b]].data), floor <= r.lsn
        PROVE  r \in Range(files[dir[Path]].data)
    <3>1. r.lsn \in Nat /\ r.lsn < Segs[b] /\ Segs[b] \in Nat
      BY <2>2, <2>3, LSNsBelow, SegsType
    <3>2. Path <= r.lsn
      BY <1>2, <1>5, <2>3, <3>1
    <3>3. CASE k = n
      BY <1>5, <2>1, <2>3, <3>2, <3>3 DEF CopiedTo, last
    <3>4. CASE k # n
      <4>1. k \in 1..(n - 1) /\ k + 1 \in 1..n
        BY <1>3, <2>1, <3>4
      <4>2. Segs[b] < Path
        BY <1>3, <1>4, <2>1, <4>1
      <4> QED BY <1>2, <3>1, <3>2, <4>2
    <3> QED BY <3>3, <3>4
  <2> QED BY <1>1, <1>2, <2>2, <2>3 DEF Dispensable, hist
<1>7. DoomedOK' /\ RewriteOK' /\ FloorOK'
  <2>1. job'.kind = "recover" /\ ~Dropping'
    BY <1>1, RecoveringFacts DEF Dropping, Known
  <2> QED BY <1>1, <1>6, <2>1 DEF DoomedOK, RewriteOK, FloorOK
<1>8. FilesKept
  BY <1>1, UsualFiles
<1>9. StorageOK' /\ DirsOK'
  <2>1. Answered' = Answered
    BY <1>1, SameAnswered DEF hist
  <2> QED BY <1>1, <1>8, <2>1, SameNames, BatchType DEF hist
<1>10. AcksOK'
  <2>1. (Opened' <=> Opened) /\ ~Committing
    BY <1>1, OpenedIff, OpenedIffNext, RecoveringFacts
  <2> QED BY <1>1, <2>1, SameAcks DEF hist
<1> QED BY <1>7, <1>9, <1>10

\* Open fails with the tail torn as before, or cut but not fsynced.
LEMMA TruncateTornTailFailsSurvival ==
  ASSUME Known, Known', Survival, TruncateTornTailFails
  PROVE  Survival'
<1> USE DEF Known, Survival
<1>1. /\ pc = "scan" /\ pc' = "closed" /\ job' = NoJob
      /\ UNCHANGED <<dir, durableDir, batch, active, nextLSN, lastLSN>> /\ UNCHANGED hist
  BY DEF TruncateTornTailFails, OpenFails, mem
<1>2. FilesKept
  <2>1. \A j \in Inodes : files'[j] = files[j] \/ files'[j] = [files[j] EXCEPT !.junk = 0]
    BY DEF TruncateTornTailFails, DiskTypeOK
  <2>2. \A j \in Inodes : files[j] \in File /\ Bounded(files[j])
    BY DEF DiskTypeOK, StorageOK, Bounded
  <2> QED BY <2>1, <2>2, FileOps DEF FilesKept
<1>3. StorageOK' /\ DirsOK'
  <2>1. Answered' = Answered
    BY <1>1, SameAnswered DEF hist
  <2> QED BY <1>1, <1>2, <2>1, SameNames, BatchType DEF hist
<1>4. DoomedOK' /\ RewriteOK' /\ FloorOK'
  BY <1>1, NoDrop DEF NoJob
<1>5. AcksOK'
  <2>1. ~Opened' /\ ~Committing
    BY <1>1, RecoveringFacts DEF Opened
  <2> QED BY <1>1, <2>1, SameAcks DEF hist
<1> QED BY <1>3, <1>4, <1>5

\* The one segment that is pruned is empty and starts where the one before it ends.
LEMMA TruncateTornTailSurvival ==
  ASSUME Known, Known', Survival, TruncateTornTail
  PROVE  Survival'
<1> USE DEF Known, Survival
<1>1. /\ pc = "scan" /\ job.paths = {} /\ pc' = "prune"
      /\ job'.names = Prunable /\ job'.idx = Survivors /\ job'.kind = job.kind
      /\ UNCHANGED <<dir, durableDir, batch, active, nextLSN, lastLSN>> /\ UNCHANGED hist
  BY DEF TruncateTornTail, ControlTypeOK, mem
<1>2. FilesKept
  <2>1. LastCollected \in DOMAIN dir
    BY <1>1, LastCollectedType
  <2>2. PICK i \in Inodes : i = dir[LastCollected]
    BY <2>1, SegsType
  <2>3. files' \in {files, [files EXCEPT ![i] = TruncatedToValidEnd(files[i])]}
    BY <2>2 DEF TruncateTornTail, OnDisk
  <2>4. \A j \in Inodes : files[j] \in File /\ Bounded(files[j])
    BY DEF DiskTypeOK, StorageOK, Bounded
  <2>5. \A j \in Inodes : files'[j] \in {files[j], TruncatedToValidEnd(files[j])}
    BY <2>3 DEF DiskTypeOK
  <2> QED BY <2>4, <2>5, FileOps DEF FilesKept
<1>3. StorageOK' /\ DirsOK'
  <2>1. Answered' = Answered
    BY <1>1, SameAnswered DEF hist
  <2> QED BY <1>1, <1>2, <2>1, SameNames, BatchType DEF hist
<1>4. DoomedOK'
  <2> DEFINE n == Len(job.idx)
  <2>s. PICK s : s = Survivors
    OBVIOUS
  <2> SUFFICES ASSUME NEW b \in Range(Prunable) \cap DOMAIN dir
               PROVE  Dispensable(b, Range(s))'
    <3>1. pc' # "reconcile" /\ Range(job'.idx) = Range(s) /\ job'.names = Prunable /\ dir' = dir
      BY <1>1, <2>s
    <3> QED BY <3>1 DEF DoomedOK, Dispensable
  <2>1. /\ n \in Nat /\ n > 0 /\ DOMAIN job.idx = 1..n /\ job.idx # << >>
        /\ ActiveIdx \in 1..n /\ WithRecords \in SUBSET (1..n)
        /\ ActiveIdx = n \/ ActiveIdx = n - 1
        /\ WithRecords = {} => n = 1
        /\ LastCollected = job.idx[n] /\ LastCollected \in DOMAIN dir
    BY <1>1, LastCollectedType, ActiveIdxType, OnlyLastEmpty, JobType, LastElement DEF LastCollected
  <2>2. ActiveIdx # n /\ b = LastCollected
    <3>1. PICK q : q = Prunable
      OBVIOUS
    <3>2. (ActiveIdx = n => q = << >>) /\ (ActiveIdx # n => q = <<LastCollected>>)
      BY <1>1, <3>1, PrunableOne
    <3>3. Range(<< >>) = {} /\ Range(<<LastCollected>>) = {LastCollected}
      BY DEF Range
    <3> QED BY <3>1, <3>2, <3>3
  <2>3. ActiveIdx = n - 1 /\ n > 1 /\ WithRecords # {} /\ ActiveIdx = Max(WithRecords)
    <3> HIDE DEF n
    <3> QED BY <2>1, <2>2 DEF ActiveIdx, n
  <2>4. n \notin WithRecords
    <3> HIDE DEF n
    <3>1. \A y \in WithRecords : y <= n - 1
      BY <2>1, <2>3, MaxOfInterval
    <3> QED BY <2>1, <3>1
  <2>5. files[dir[b]].data = << >>
    <3>1. PICK f \in File : f = OnDisk(LastCollected)
      BY <2>1, SegsType DEF OnDisk
    <3>2. ~(Len(f.data) > 0)
      <4>1. n \in 1..n
        BY <2>1
      <4> QED BY <2>1, <2>4, <3>1, <4>1 DEF WithRecords, ScanRecords
    <3>3. f.data = << >>
      BY <3>2, LastElement DEF File
    <3> QED BY <2>2, <3>1, <3>3 DEF OnDisk
  <2> DEFINE c == job.idx[n - 1]
  <2>6. c \in Range(s)
    <3>2. /\ s \in Seq(Nat) /\ Len(s) = ActiveIdx /\ \A i \in 1..Len(s) : s[i] = job.idx[i]
      BY <1>1, <2>s, SurvivorsType, PrunableOne
    <3>3. n - 1 \in 1..Len(s) /\ Len(s) = n - 1
      <4> HIDE DEF n
      <4> QED BY <2>1, <2>3, <3>2
    <3>4. n - 1 \in DOMAIN s /\ s[n - 1] = c
      BY <3>2, <3>3
    <3> QED BY <3>4 DEF Range
  <2>7. b = Segs[c] /\ c \in DOMAIN dir
    <3>1. LogIndex = job.idx
      BY <1>1, RecoveringFacts
    <3>2. n - 1 \in 1..(n - 1) /\ n - 1 \in DOMAIN job.idx /\ (n - 1) + 1 = n
      <4> HIDE DEF n
      <4> QED BY <2>1, <2>3
    <3>3. /\ Range(job.idx) \subseteq DOMAIN dir
          /\ \A k \in 1..(n - 1) : job.idx[k + 1] = Segs[job.idx[k]]
      BY <3>1 DEF Agreement, ChainOK
    <3>4. job.idx[(n - 1) + 1] = Segs[c] /\ c \in Range(job.idx)
      BY <3>2, <3>3 DEF Range
    <3> QED BY <2>1, <2>2, <3>2, <3>3, <3>4
  <2> HIDE DEF c
  <2>8. files'[dir'[b]].data = << >> /\ Segs'[c] = Segs[c]
    <3>1. \A a \in DOMAIN dir : files'[dir[a]].data = files[dir[a]].data
      BY <1>1, <1>2, SegsType DEF FilesKept, SameRecords, Range
    <3>2. c \in DOMAIN dir' /\ dir' = dir
      BY <1>1, <2>7
    <3>3. Segs'[c] = c + Len(files'[dir'[c]].data)
      BY <3>2, SegNext
    <3> QED BY <2>5, <2>7, <3>1, <3>2, <3>3, SegsType
  <2>9. b <= Segs'[c]
    BY <2>1, <2>2, <2>7, <2>8, SegsType
  <2>10. Range(<< >>) = {}
    BY DEF Range
  <2> QED BY <1>1, <2>6, <2>8, <2>9, <2>10 DEF Dispensable
<1>5. RewriteOK' /\ FloorOK'
  <2>1. job'.kind = "recover"
    BY <1>1, RecoveringFacts
  <2> QED BY <1>1, <2>1 DEF RewriteOK, FloorOK
<1>6. AcksOK'
  <2>1. (Opened' <=> Opened) /\ ~Committing
    BY <1>1, OpenedIff, OpenedIffNext, RecoveringFacts
  <2> QED BY <1>1, <2>1, SameAcks DEF hist
<1> QED BY <1>3, <1>4, <1>5, <1>6

\* The ends of a chain of segments ascend.
LEMMA ChainEnds ==
  ASSUME NEW s \in Seq(Nat), NEW n \in Nat, n = Len(s), n > 0, Ascending(s), NEW E,
         \A k \in 1..n : E[s[k]] \in Nat /\ s[k] <= E[s[k]],
         \A k \in 1..(n - 1) : s[k + 1] = E[s[k]]
  PROVE  \A b \in Range(s) : E[b] <= E[s[n]]
<1>1. DOMAIN s = 1..n /\ \A k \in 1..n : s[k] \in Nat
  OBVIOUS
<1> SUFFICES ASSUME NEW k \in 1..n PROVE E[s[k]] <= E[s[n]]
  BY <1>1 DEF Range
<1>2. CASE k = n
  BY <1>2
<1>3. CASE k # n
  <2>1. k \in 1..(n - 1) /\ k + 1 \in 1..n /\ n \in 1..n
    BY <1>3
  <2>2. k + 1 = n \/ s[k + 1] < s[n]
    <3>1. k + 1 \in DOMAIN s /\ n \in DOMAIN s /\ (k + 1 = n \/ k + 1 < n)
      BY <1>1, <2>1
    <3> QED BY <3>1 DEF Ascending
  <2>3. s[k + 1] <= s[n]
    BY <1>1, <2>1, <2>2
  <2> QED BY <1>1, <2>1, <2>3
<1> QED BY <1>2, <1>3

\* The last LSN is above all that was acknowledged and kept.
LEMMA InstallStateSurvival ==
  ASSUME Known, Known', Survival, InstallState
  PROVE  Survival'
<1> USE DEF Known, Survival
<1>1. /\ pc = "prune" /\ job.names = << >> /\ pc' = "idle" /\ job' = NoJob
      /\ UNCHANGED <<files, dir, durableDir, batch, acked, promised, floor, cutDone>>
      /\ nextLSN' = NextInstalled
  BY DEF InstallState, disk
<1>2. FilesKept
  BY <1>1, UsualFiles
<1>3. StorageOK' /\ DirsOK'
  <2>1. Answered' = Answered
    BY <1>1, SameAnswered
  <2> QED BY <1>1, <1>2, <2>1, SameNames, BatchType
<1>4. DoomedOK' /\ RewriteOK' /\ FloorOK'
  BY <1>1, NoDrop DEF NoJob
<1>5. \A b \in DOMAIN dir : Segs[b] <= nextLSN' /\ Segs[b] \in Nat
  <2> DEFINE s == job.idx
             n == Len(s)
  <2>1. /\ s \in Seq(Nat) /\ s # << >> /\ n \in Nat /\ n > 0 /\ DOMAIN s = 1..n
        /\ Ascending(s) /\ LastCollected = s[n]
    BY <1>1, LastCollectedType, LastElement DEF RecoveryOK, PruneOK, LastCollected
  <2>2. DOMAIN dir = Range(s)
    <3>1. Pending = {}
      BY <1>1 DEF Pending, Range, Agreement, DeletionOK
    <3> QED BY <1>1, <3>1, DeletingFacts
  <2>3. \A k \in 1..(n - 1) : s[k + 1] = Segs[s[k]]
    BY <1>1, RecoveringFacts DEF Agreement, ChainOK
  <2>4. \A k \in 1..n : Segs[s[k]] \in Nat /\ s[k] <= Segs[s[k]]
    BY <2>1, <2>2, SegsType DEF Range
  <2>5. \A b \in Range(s) : Segs[b] <= Segs[s[n]]
    BY <2>1, <2>3, <2>4, ChainEnds
  <2>6. nextLSN' = Segs[LastCollected]
    <3>1. /\ LastCollected \in DOMAIN dir
          /\ NextInstalled = LastCollected + Len(files[dir[LastCollected]].data)
      BY <1>1, NextInstalledRight DEF OnDisk
    <3> QED BY <1>1, <3>1, SegsType
  <2> QED BY <2>1, <2>2, <2>5, <2>6, SegsType
<1>6. AcksOK'
  <2>1. lastLSN' + 1 = nextLSN' /\ lastLSN' \in Nat /\ nextLSN' \in Nat
    <3>1. Opened' /\ ~Committing'
      BY <1>1 DEF Opened, Committing, NoJob
    <3>2. lastLSN' < nextLSN' /\ ~(lastLSN' + 1 < nextLSN')
      BY <3>1 DEF Agreement, BoundsOK, Unpublished
    <3>3. lastLSN' \in Nat /\ nextLSN' \in Nat
      BY DEF MemTypeOK
    <3>4. PICK l, n \in Nat : l = lastLSN' /\ n = nextLSN'
      BY <3>3
    <3>5. l < n /\ ~(l + 1 < n)
      BY <3>2, <3>4
    <3>6. l + 1 = n
      BY <3>5
    <3> QED BY <3>4, <3>6
  <2>2. ASSUME NEW r \in acked PROVE r.lsn <= lastLSN'
    <3>1. r \in Answered /\ r.lsn \in Nat
      BY BatchType DEF Answered, Rec
    <3>2. PICK b \in DOMAIN dir : r.lsn < b + Extent(files[dir[b]], FALSE)
      BY <3>1 DEF DirsOK, Kept
    <3>3. r.lsn < Segs[b]
      BY <3>2, SegsType DEF Extent
    <3>4. PICK l, n, e, x \in Nat : l = lastLSN' /\ n = nextLSN' /\ e = Segs[b] /\ x = r.lsn
      BY <1>5, <2>1, <3>1
    <3>5. x < e /\ e <= n /\ l + 1 = n
      BY <1>5, <2>1, <3>3, <3>4
    <3>6. x <= l
      BY <3>5
    <3> QED BY <3>4, <3>6
  <2>3. ~Committing
    BY <1>1, RecoveringFacts
  <2> QED BY <1>1, <2>2, <2>3 DEF AcksOK
<1> QED BY <1>3, <1>4, <1>6

\* In a new log nothing was acknowledged.
LEMMA InstallEmptySurvival ==
  ASSUME Known, Known', Survival, InstallEmpty
  PROVE  Survival'
<1> USE DEF Known, Survival
<1>1. /\ pc = "installEmpty" /\ pc' = "idle" /\ job' = NoJob /\ lastLSN' = lastLSN
      /\ UNCHANGED <<files, dir, durableDir, batch, acked, promised, floor, cutDone>>
  BY DEF InstallEmpty, disk
<1>2. FilesKept
  BY <1>1, UsualFiles
<1>3. StorageOK' /\ DirsOK'
  <2>1. Answered' = Answered
    BY <1>1, SameAnswered
  <2> QED BY <1>1, <1>2, <2>1, SameNames, BatchType
<1>4. DoomedOK' /\ RewriteOK' /\ FloorOK'
  BY <1>1, NoDrop DEF NoJob
<1>5. /\ job.kind = "init" /\ ~Opened /\ HasFresh /\ lastLSN = 0 /\ ~Committing
      /\ DOMAIN dir = {1} /\ dir[1] = fresh /\ files[fresh].data = << >>
  <2>1. job.kind = "init" /\ HasFresh /\ ~Opened
    BY <1>1 DEF StepsOK, Kinds, HasFresh, Opened
  <2>2. DOMAIN dir = {1} /\ job.base \in DOMAIN dir /\ dir[job.base] = fresh
    BY <1>1, <2>1 DEF Agreement, NamedOK
  <2>3. lastLSN = 0 /\ files[fresh].data = << >>
    BY <2>1 DEF Agreement, BoundsOK, PlacementOK, FreshOK
  <2> QED BY <1>1, <2>1, <2>2, <2>3 DEF Committing
<1>6. AcksOK'
  <2>1. ASSUME NEW r \in acked PROVE r.lsn <= lastLSN'
    <3>1. r \in Answered /\ r.lsn \in Nat
      BY BatchType DEF Answered, Rec
    <3>2. r.lsn < 1 + Len(<< >>)
      BY <1>5, <3>1 DEF DirsOK, Kept, Extent
    <3>3. Len(<< >>) = 0
      OBVIOUS
    <3> QED BY <1>1, <1>5, <3>1, <3>2, <3>3
  <2> QED BY <1>1, <1>5, <2>1 DEF AcksOK
<1> QED BY <1>3, <1>4, <1>6

-----------------------------------------------------------------------------
(* The ways to stop.                                                       *)

\* With its memory the process loses its job and its batch.
LEMMA MemoryLostSurvival ==
  ASSUME MemoryLost
  PROVE  /\ DoomedOK' /\ RewriteOK' /\ FloorOK'
         /\ Answered' = acked'
         /\ promised' \subseteq acked' => AcksOK'
<1>1. /\ pc' = "closed" /\ job'.kind = "none" /\ batch'.cur = {} /\ batch'.done = {}
      /\ ~Opened' /\ ~Committing'
  BY DEF MemoryLost, NoJob, NoBatch, Opened, Committing
<1> QED BY <1>1, NoDrop DEF Answered, AcksOK

\* An orderly Close fsyncs the active segment, whatever the policy.
LEMMA CloseSurvival ==
  ASSUME Known, Known', Survival, Close
  PROVE  Survival'
<1> USE DEF Known, Close, Stop, Survival
<1>1. /\ Opened /\ job.kind = "none" /\ ~DirAhead /\ fresh \notin Inodes
  BY ServingFacts, NotAhead, OpenedIff DEF StepsOK
<1>2. FilesKept
  BY UsualFiles DEF Live
<1>3. Answered' \subseteq Answered /\ promised' \subseteq Answered
  BY MemoryLostSurvival DEF Answered
<1>4. promised' \subseteq acked'
  OBVIOUS
<1>5. ASSUME MayLosePower
      PROVE  durableDir' = dir /\ \A b \in DOMAIN dir : Whole(files'[dir[b]])
  <2>1. durableDir' = dir
    BY <1>1, <1>5 DEF Durable
  <2>2. ASSUME NEW b \in DOMAIN dir PROVE Whole(files'[dir[b]])
    <3>1. /\ dir[b] \in Inodes /\ files[dir[b]] \in File
          /\ Bounded(files[dir[b]])
      BY SegsType DEF StorageOK, Bounded
    <3>2. CASE dir[b] = active
      BY <3>1, <3>2, FileOps, NewFileBounded
    <3>3. CASE dir[b] # active
      <4>1. files'[dir[b]] \in {files[dir[b]], NewFile}
        BY <3>1, <3>3
      <4>2. ~HasUnsynced(files[dir[b]])
        BY <1>1, <1>5, <3>1, <3>3 DEF Durable, Synced
      <4> QED
        BY <3>1, <4>1, <4>2, NewFileBounded DEF Whole, HasUnsynced, Bounded, File
    <3> QED BY <3>2, <3>3
  <2> QED BY <2>1, <2>2
<1>6. pc' # "createOpen" /\ dir' = dir /\ durableDir' = durableDir
      /\ floor' = floor /\ cutDone' = cutDone
  BY DEF MemoryLost
<1>7. StorageOK' /\ DirsOK'
  <2>1. \/ promised' = promised
        \/ /\ promised' \subseteq Answered
           /\ MayLosePower => durableDir' = dir /\ \A b \in DOMAIN dir : Whole(files'[dir[b]])
    BY <1>3, <1>5
  <2>2. floor <= floor'
    BY <1>6, BatchType
  <2> HIDE DEF Close, Stop
  <2> QED BY <1>2, <1>3, <1>6, <2>1, <2>2, SameNames
<1> QED BY <1>4, <1>7, MemoryLostSurvival

\* A kill loses no record, and in a run with kills nothing else is at stake.
LEMMA KillSurvival ==
  ASSUME Known, Known', Survival, Kill, OneKindOfCrash
  PROVE  Survival'
<1> USE DEF Known, Kill, Stop, Survival
<1>1. ~MayLosePower
  BY DEF OneKindOfCrash, NoKills
<1>2. FilesKept
  BY CollectedFilesKept DEF Live
<1>3. Answered' \subseteq Answered /\ promised' = promised
  BY MemoryLostSurvival DEF Answered
<1>4. pc' # "createOpen" /\ dir' = dir /\ durableDir' = durableDir
      /\ floor' = floor /\ cutDone' = cutDone
  BY DEF MemoryLost
<1>5. StorageOK' /\ DirsOK'
  BY <1>2, <1>3, <1>4, SameNames, BatchType
<1>6. AcksOK'
  BY MemoryLostSurvival DEF AcksOK
<1> QED BY <1>5, <1>6, MemoryLostSurvival

\* Where the two directories differ in one name, a power loss leaves one of them.
LEMMA OneOfTwo ==
  ASSUME ControlOK, OneApart(dir, durableDir), NEW lost \in SUBSET Linked,
         NEW kept \in SUBSET Unlinked
  PROVE  LET d == DirAfterPowerLoss(lost, kept)
         IN  SameDir(dir, d) \/ SameDir(durableDir, d)
<1> DEFINE d == DirAfterPowerLoss(lost, kept)
<1>1. DOMAIN d = (DOMAIN dir \ lost) \cup kept
  BY Zenon DEF DirAfterPowerLoss
<1>2. \A c \in DOMAIN d : d[c] = IF c \in kept THEN durableDir[c] ELSE dir[c]
  BY Zenon DEF DirAfterPowerLoss
<1>3. PICK b : /\ DOMAIN dir \ {b} = DOMAIN durableDir \ {b}
               /\ \A c \in DOMAIN dir \ {b} : dir[c] = durableDir[c]
  BY DEF OneApart
<1>4. lost \subseteq DOMAIN dir /\ lost \cap DOMAIN durableDir = {} /\ kept \subseteq DOMAIN durableDir
      /\ \A c \in kept : c \notin DOMAIN dir \/ dir[c] # durableDir[c]
  BY DEF Linked, Unlinked
<1>5. lost \subseteq {b} /\ kept \subseteq {b}
  BY <1>3, <1>4
<1> HIDE DEF d
<1>6. CASE b \in kept
  <2>1. b \notin lost /\ b \in DOMAIN durableDir
    BY <1>4, <1>6
  <2>2. DOMAIN d = DOMAIN durableDir
    BY <1>1, <1>3, <1>5, <1>6, <2>1
  <2>3. \A c \in DOMAIN durableDir : durableDir[c] = d[c]
    BY <1>2, <1>3, <1>5, <1>6, <2>2
  <2> QED BY <2>2, <2>3 DEF SameDir, d
<1>7. CASE b \notin kept /\ b \in lost
  <2>1. b \notin DOMAIN durableDir /\ kept = {}
    BY <1>4, <1>5, <1>7
  <2>2. DOMAIN d = DOMAIN durableDir
    BY <1>1, <1>3, <1>5, <1>7, <2>1
  <2>3. \A c \in DOMAIN durableDir : durableDir[c] = d[c]
    BY <1>2, <1>3, <2>1, <2>2
  <2> QED BY <2>2, <2>3 DEF SameDir, d
<1>8. CASE b \notin kept /\ b \notin lost
  <2>1. kept = {} /\ lost = {}
    BY <1>5, <1>8
  <2>2. DOMAIN d = DOMAIN dir
    BY <1>1, <2>1
  <2>3. \A c \in DOMAIN dir : dir[c] = d[c]
    BY <1>2, <2>1, <2>2
  <2> QED BY <2>2, <2>3 DEF SameDir, d
<1> QED BY <1>6, <1>7, <1>8

\* What is left of a file.
LEMMA Survivor ==
  ASSUME NEW f \in File, Bounded(f), NEW keep, NEW torn, MaySurvive(f, keep, torn)
  PROVE  LET g == AfterPowerLoss(f, keep, torn) IN Bounded(g) /\ Survives(f, g)
<1>1. PICK D \in Seq(Rec), s \in Nat : D = f.data /\ s = f.synced /\ s <= Len(D)
  BY DEF File, Bounded
<1>2. keep \in s..Len(D) /\ Len(D) \in Nat /\ DOMAIN D = 1..Len(D)
  BY <1>1 DEF MaySurvive
<1>3. keep \in Nat /\ s <= keep /\ keep <= Len(D)
  BY <1>1, <1>2
<1>4. /\ AfterPowerLoss(f, keep, torn).data = SubSeq(D, 1, keep)
      /\ AfterPowerLoss(f, keep, torn).synced = keep
  BY <1>1 DEF AfterPowerLoss
<1>5. /\ Len(SubSeq(D, 1, keep)) = keep
      /\ \A k \in 1..keep : SubSeq(D, 1, keep)[k] = D[k]
  BY <1>1, <1>2, <1>3
<1>6. s = Len(D) => SubSeq(D, 1, keep) = D
  <2> SUFFICES ASSUME s = Len(D) PROVE SubSeq(D, 1, keep) = D
    OBVIOUS
  <2>1. keep = Len(D)
    BY <1>2, <1>3
  <2>2. SubSeq(D, 1, Len(D)) = D
    BY <1>1
  <2> QED BY <2>1, <2>2
<1>7. PICK E : E = SubSeq(D, 1, keep)
  OBVIOUS
<1>8. DOMAIN E = 1..keep
  BY <1>1, <1>2, <1>3, <1>7
<1>9. Len(E) = keep /\ (\A k \in 1..keep : E[k] = D[k]) /\ (s = Len(D) => E = D)
  BY <1>5, <1>6, <1>7
<1>10. PICK g : g = AfterPowerLoss(f, keep, torn)
  OBVIOUS
<1>11. g.data = E /\ g.synced = keep
  BY <1>4, <1>7, <1>10
<1>12. Bounded(g)
  BY <1>3, <1>9, <1>11 DEF Bounded
<1>13. Survives(f, g)
  BY <1>1, <1>3, <1>8, <1>9, <1>11 DEF Survives, Whole
<1> QED BY <1>10, <1>12, <1>13

\* A file that is wholly on stable storage stays as it is.
LEMMA WholeSurvives ==
  ASSUME NEW f \in File, Bounded(f), ~HasUnsynced(f)
  PROVE  Survives(f, f)
<1>1. PICK D \in Seq(Rec), s \in Nat : D = f.data /\ s = f.synced /\ s <= Len(D)
  BY DEF File, Bounded
<1>2. f.synced = Len(f.data)
  BY <1>1 DEF HasUnsynced
<1> QED BY <1>1, <1>2 DEF Survives, Whole

\* A power loss leaves one of the two directories, and both are sound.
LEMMA PowerLossSurvival ==
  ASSUME Known, Known', Survival, PowerLoss
  PROVE  Survival'
<1> USE DEF Known, Survival
<1>1. /\ MayLosePower /\ MemoryLost /\ durableDir' = dir'
      /\ acked' = promised /\ promised' = promised /\ floor' = floor /\ cutDone' = cutDone
  BY DEF PowerLoss, Stop, MayLosePower
<1>2. PICK d \in {dir, durableDir} : SameDir(d, dir')
  <2>1. PICK lost \in SUBSET Linked, kept \in SUBSET Unlinked :
          dir' = DirAfterPowerLoss(lost, kept)
    BY DEF PowerLoss
  <2>2. OneApart(dir, durableDir)
    BY <1>1 DEF StorageOK
  <2> QED BY <2>1, <2>2, OneOfTwo
<1>3. DOMAIN d = DOMAIN dir' /\ \A b \in DOMAIN d : d[b] = dir'[b]
  BY <1>2 DEF SameDir
<1>4. ASSUME NEW i \in Inodes
      PROVE  Bounded(files'[i]) /\ (i \in Range(dir') => Survives(files[i], files'[i]))
  <2>1. PICK keep \in [Unsynced -> 0..MaxLSN], torn \in [Unsynced -> BOOLEAN] :
          /\ \A j \in Unsynced : MaySurvive(files[j], keep[j], torn[j])
          /\ files' = [j \in Inodes |->
               CASE j \notin Range(dir') -> NewFile
                 [] j \in Range(dir') \cap Unsynced ->
                      AfterPowerLoss(files[j], keep[j], torn[j])
                 [] OTHER -> files[j]]
    BY DEF PowerLoss
  <2>2. files[i] \in File /\ Bounded(files[i])
    BY DEF DiskTypeOK, StorageOK, Bounded
  <2>3. CASE i \notin Range(dir')
    BY <2>1, <2>3, NewFileBounded
  <2>4. CASE i \in Range(dir') /\ i \in Unsynced
    <3>1. files'[i] = AfterPowerLoss(files[i], keep[i], torn[i])
      BY <2>1, <2>4
    <3>2. MaySurvive(files[i], keep[i], torn[i])
      BY <2>1, <2>4
    <3> QED BY <2>2, <3>1, <3>2, Survivor
  <2>5. CASE i \in Range(dir') /\ i \notin Unsynced
    <3>1. files'[i] = files[i]
      BY <2>1, <2>5
    <3>2. ~HasUnsynced(files[i])
      BY <2>5 DEF Unsynced
    <3> QED BY <2>2, <3>1, <3>2, WholeSurvives
  <2> QED BY <2>3, <2>4, <2>5
<1>5. StorageOK'
  <2>1. OneApart(dir', dir')
    BY DEF OneApart
  <2>2. pc' # "createOpen"
    BY <1>1 DEF MemoryLost
  <2> QED BY <1>1, <1>4, <2>1, <2>2 DEF StorageOK, Bounded
<1>6. PICK e : e = dir'
  OBVIOUS
<1>7. Proper(files, e) /\ Proper(files', e)
  <2>1. Proper(files, d) /\ Proper(files', dir')
    BY <1>5, DirsProper, NextDirsProper
  <2> QED BY <1>3, <1>6, <2>1 DEF Proper
<1>8. \A b \in DOMAIN e : Survives(files[e[b]], files'[e[b]])
  <2>1. \A b \in DOMAIN e : e[b] \in Inodes /\ e[b] \in Range(dir')
    BY <1>6 DEF Range, DiskTypeOK
  <2> QED BY <1>4, <2>1
<1>9. Sound(files, e, floor, promised, cutDone)
  <2>1. Sound(files, d, floor, promised, cutDone)
    BY <1>1 DEF DirsOK
  <2> QED BY <1>2, <1>6, <2>1, SameDirSound
<1>10. Sound(files', e, floor, promised, cutDone)
  BY <1>1, <1>7, <1>8, <1>9, BatchType, SoundSurvives
<1>11. Kept(files', e, floor, promised, FALSE)
  <2>1. Kept(files, e, floor, promised, TRUE)
    BY <1>1, <1>9 DEF Sound
  <2> QED BY <1>7, <1>8, <2>1, BatchType, KeptSurvives
<1>12. Answered' = promised
  BY <1>1, MemoryLostSurvival
<1>13. DirsOK'
  BY <1>1, <1>6, <1>10, <1>11, <1>12 DEF DirsOK
<1> QED BY <1>1, <1>5, <1>13, MemoryLostSurvival

-----------------------------------------------------------------------------
(* The specification.                                                      *)

LEMMA InitSurvival == Init => Survival
<1> SUFFICES ASSUME Init PROVE Survival
  OBVIOUS
<1> USE DEF Init
<1>1. /\ ~Opened /\ ~Dropping /\ ~Committing /\ Answered = {} /\ job.kind = "none"
      /\ job.names = << >> /\ batch.cur = {} /\ batch.done = {}
  BY DEF Opened, Dropping, Committing, Answered, NoJob, NoBatch
<1>2. DOMAIN << >> = {}
  OBVIOUS
<1>3. \A hard : Kept(files, dir, 0, {}, hard)
  BY DEF Kept
<1>4. Sound(files, dir, 0, {}, 0)
  BY <1>2, <1>3 DEF Sound, CutOverlaps, CutOff
<1>5. DirsOK
  BY <1>1, <1>3, <1>4 DEF DirsOK
<1>6. StorageOK
  <2>1. OneApart(dir, durableDir)
    BY DEF OneApart
  <2>2. NewFile.synced <= Len(NewFile.data)
    BY NewFileBounded DEF Bounded
  <2> QED BY <2>1, <2>2 DEF StorageOK
<1>7. DoomedOK /\ RewriteOK /\ FloorOK /\ AcksOK
  BY <1>1 DEF DoomedOK, RewriteOK, FloorOK, AcksOK
<1> QED BY <1>5, <1>6, <1>7 DEF Survival

\* Nothing changes in a stuttering step.
LEMMA StutterSurvival ==
  ASSUME Survival, UNCHANGED vars
  PROVE  Survival'
<1> USE DEF vars, disk, mem, hist
<1>1. Segs' = Segs /\ (Opened <=> Opened') /\ (Dropping <=> Dropping')
      /\ (Committing <=> Committing') /\ Answered' = Answered
  BY DEF Segs, EndOf, Opened, Dropping, Committing, Answered
<1>2. DirsOK' /\ StorageOK'
  BY <1>1 DEF Survival, DirsOK, StorageOK
<1>3. DoomedOK' /\ RewriteOK'
  BY <1>1 DEF Survival, DoomedOK, RewriteOK, Dispensable
<1>4. FloorOK' /\ AcksOK'
  BY <1>1 DEF Survival, FloorOK, AcksOK
<1> QED BY <1>2, <1>3, <1>4 DEF Survival

\* Every step keeps what a crash may leave as it must be.
LEMMA NextSurvival ==
  ASSUME Known, Known', Survival, Next, HarmlessFailures, OneKindOfCrash
  PROVE  Survival'
<1>1. ASSUME Commit PROVE Survival'
  <2>1. ~WriteRecordFails /\ ~FinishBatchFails /\ ~StartRollFails
    BY NoFault DEF HarmlessCalls, WriteRecordFails, FinishBatchFails, StartRollFails
  <2> QED
    BY <1>1, <2>1, BeginCommitSurvival, WriteRecordSurvival, CompleteRequestSurvival,
       FinishBatchSurvival, StartRollSurvival, InstallRollSurvival DEF Commit
<1>2. ASSUME Create PROVE Survival'
  <2>1. ~CreateHeaderFails /\ ~CreateSyncDirFails
    BY NoFault DEF HarmlessCalls, CreateHeaderFails, CreateSyncDirFails
  <2>2. ~CreateOpenFails
    BY NoFault, BaseIsFree DEF HarmlessCalls, CreateOpenFails, Known
  <2> QED
    BY <1>2, <2>1, <2>2, CreateOpenSurvival, CreateRestSurvival DEF Create
<1>3. ASSUME Drop PROVE Survival'
  <2>1. ~ClearLeftoverFails
    BY NoFault DEF HarmlessCalls, ClearLeftoverFails
  <2>2. Bounds \subseteq Nat
    BY DEF Bounds
  <2> QED
    BY <1>3, <2>1, <2>2, TruncateSurvival, CutNoopSurvival, CutEverythingSurvival,
       CutInsideSurvival, ClearLeftoverSurvival, RewriteTempSurvival,
       RewriteTempFailsSurvival, PublishFailsSurvival, PublishRewriteSurvival,
       PublishSyncSurvival, FinishSurvival DEF Drop
<1>4. ASSUME Delete PROVE Survival'
  <2>1. ~RemovalFails
    BY NoFault DEF HarmlessCalls, RemovalFails
  <2> QED BY <1>4, <2>1, RemoveFileSurvival, SyncRemovalSurvival DEF Delete
<1>5. ASSUME Recover PROVE Survival'
  BY <1>5, ReadingSurvival, InstallEmptySurvival, ReconcileSurvival,
     TruncateTornTailFailsSurvival, TruncateTornTailSurvival, InstallStateSurvival
  DEF Recover
<1>6. ~CloseUnflushed
  BY NoFault DEF HarmlessCalls, CloseUnflushed
<1> QED
  BY <1>1, <1>2, <1>3, <1>4, <1>5, <1>6, SyncActiveSurvival, CloseSurvival,
     KillSurvival, PowerLossSurvival DEF Next

(***************************************************************************)
(* What a crash may leave is sound, at every step of every operation, also *)
(* after a cut that could not replace its segment and an Open that could   *)
(* not truncate a torn tail.  Crashes are of one kind: recovery fsyncs     *)
(* nothing of what it finds after a kill, so that Durable does not survive *)
(* one.                                                                    *)
(***************************************************************************)
THEOREM SurvivalHolds ==
  ASSUME HarmlessFailures, NoEmptyRequests, OneKindOfCrash
  PROVE  Spec => [](IInv /\ Known /\ Survival)
<1>1. Spec => [](IInv /\ Known)
  <2>1. CASE NoKills
    <3>1. IInv /\ Agreement /\ Durable => IInv /\ Known
      BY DEF Known, IInv
    <3> QED BY <2>1, <3>1, DurabilityHolds, PTL
  <2>2. CASE ~MayLosePower
    <3>1. IInv /\ Agreement => IInv /\ Known
      BY <2>2 DEF Known, IInv
    <3> QED BY <2>2, <3>1, AgreementHolds, PTL
  <2> QED BY <2>1, <2>2 DEF OneKindOfCrash
<1>2. Known /\ Known' /\ Survival /\ [Next]_vars => Survival'
  BY NextSurvival, StutterSurvival
<1> QED BY <1>1, <1>2, InitSurvival, PTL DEF Spec

\* What an open log shows is what its directory holds.
LEMMA ServingSegments ==
  ASSUME Known, Serving
  PROVE  Opened /\ DOMAIN dir = Range(index)
BY ServingFacts DEF Known, Serving

(***************************************************************************)
(* An append that returned without an error stays readable, with its       *)
(* payload, until a Truncate or CutOffset reaches it: through rolls, cuts, *)
(* and the recovery from a crash in the middle of any of them.             *)
(***************************************************************************)
THEOREM AckedReadableHolds ==
  ASSUME HarmlessFailures, NoEmptyRequests, OneKindOfCrash
  PROVE  Spec => []AckedReadable
<1>1. IInv /\ Known /\ Survival => AckedReadable
  <2> SUFFICES ASSUME Known, Survival, Serving, NEW r \in acked, r.lsn >= floor
               PROVE  r \in Visible
    BY DEF AckedReadable
  <2>1. Opened /\ DOMAIN dir = Range(index)
    BY ServingSegments
  <2>2. r \in Answered /\ r.lsn \in Nat /\ floor \in Nat
    BY BatchType DEF Answered, Known, Rec
  <2>3. PICK b \in DOMAIN dir : Home(files, dir, r, b, FALSE)
    BY <2>2 DEF Survival, DirsOK, Kept
  <2>4. PICK D \in Seq(Rec), n \in Nat :
          D = files[dir[b]].data /\ n = Len(D) /\ DOMAIN D = 1..n /\ b \in Nat
    <3>1. files[dir[b]] \in File /\ b \in Nat
      BY SegsType DEF Known
    <3>2. files[dir[b]].data \in Seq(Rec)
      BY <3>1 DEF File
    <3> QED BY <3>1, <3>2
  <2>5. b <= r.lsn /\ r.lsn < b + n /\ D[r.lsn - b + 1] = r
    BY <2>3, <2>4 DEF Home, Extent
  <2>6. r.lsn - b + 1 \in 1..n
    BY <2>2, <2>4, <2>5
  <2>7. r \in Contents(Range(index))
    <3>1. r \in Range(D)
      BY <2>4, <2>5, <2>6 DEF Range
    <3>2. b \in Range(index) \cap DOMAIN dir
      BY <2>1
    <3> QED BY <2>4, <3>1, <3>2 DEF Contents
  <2>8. r.lsn <= lastLSN
    BY <2>1 DEF Survival, AcksOK
  <2> QED BY <2>7, <2>8 DEF Visible
<1> QED BY SurvivalHolds, <1>1, PTL

(***************************************************************************)
(* What a CutOffset that returned nil has deleted stays deleted: no crash  *)
(* or recovery brings a record below the cut back.                         *)
(***************************************************************************)
THEOREM CutIsFinalHolds ==
  ASSUME HarmlessFailures, NoEmptyRequests, OneKindOfCrash
  PROVE  Spec => []CutIsFinal
<1>1. IInv /\ Known /\ Survival => CutIsFinal
  <2> SUFFICES ASSUME Known, Survival, Serving, NEW r \in Visible
               PROVE  r.lsn >= cutDone
    BY DEF CutIsFinal
  <2>1. PICK b \in DOMAIN dir : r \in Range(files[dir[b]].data)
    BY ServingSegments DEF Visible, Contents, Range
  <2>2. r.lsn \in Nat /\ b <= r.lsn
    BY <2>1, LSNsBelow DEF Survival
  <2>3. cutDone <= b /\ cutDone \in Nat /\ b \in Nat
    <3>1. b \in Nat
      BY SegsType DEF Known
    <3> QED BY <3>1, BatchType DEF Survival, DirsOK, Sound, CutOff, Known
  <2> QED BY <2>2, <2>3
<1> QED BY SurvivalHolds, <1>1, PTL

\* Only the end of a batch acknowledges.
LEMMA OnlyFinishAcks ==
  ASSUME Next, promised \subseteq acked
  PROVE  FinishBatch \/ acked' \subseteq acked
<1> USE DEF hist
<1>1. Commit => FinishBatch \/ UNCHANGED acked
  BY DEF Commit, BeginCommit, WriteRecord, WriteRecordFails, CompleteRequest,
         FinishBatchFails, StartRoll, StartRollFails, InstallRoll
<1>2. Create => UNCHANGED acked
  BY DEF Create, CreateOpen, CreateOpenFails, CreateHeader, CreateSync,
         CreateHeaderFails, CreateSyncDir, CreateSyncDirFails
<1>3. Drop => UNCHANGED acked
  BY DEF Drop, Truncate, CutNoop, CutEverything, CutInside, StartDrop, ClearLeftover,
         ClearLeftoverFails, RewriteTemp, RewriteTempFails, PublishRewrite, PublishSync,
         PublishFails, FinishTruncate, FinishCutBelow, FinishCutRewrite, FinishCutEverything,
         Installed
<1>4. Delete => UNCHANGED acked
  BY DEF Delete, RemoveFile, SyncRemoval, RemovalFails
<1>5. Recover => UNCHANGED acked
  BY DEF Recover, OpenDir, InstallEmpty, ScanSegment, OpenCorrupt, Reconcile, Reconciled,
         TruncateTornTail, TruncateTornTailFails, InstallState
<1>6. SyncActive \/ Close \/ CloseUnflushed \/ Kill \/ PowerLoss => acked' \subseteq acked
  BY DEF SyncActive, Close, CloseUnflushed, Kill, PowerLoss, Stop
<1> QED BY <1>1, <1>2, <1>3, <1>4, <1>5, <1>6 DEF Next

(***************************************************************************)
(* An LSN is never given out twice: what is acknowledged lies above all    *)
(* that was acknowledged before, also when a cut has emptied the log and   *)
(* recovery has no record to derive the next LSN from.                     *)
(***************************************************************************)
THEOREM LSNsNeverReusedHolds ==
  ASSUME HarmlessFailures, NoEmptyRequests, OneKindOfCrash
  PROVE  Spec => LSNsNeverReused
<1>1. ASSUME IInv, Known, Survival, [Next]_vars
      PROVE  [\A r \in acked' \ acked : \A a \in acked : a.lsn < r.lsn]_vars
  <2> SUFFICES ASSUME Next, NEW r \in acked' \ acked, NEW a \in acked
               PROVE  a.lsn < r.lsn
    BY <1>1
  <2>1. FinishBatch
    BY <1>1, OnlyFinishAcks DEF Survival, AcksOK
  <2>2. r \in batch.done /\ Opened
    BY <1>1, <2>1, ServingFacts DEF FinishBatch, Known
  <2>3. a.lsn \in Nat /\ r.lsn \in Nat /\ lastLSN \in Nat
    BY <1>1, <2>2, BatchType DEF Known, Rec
  <2>4. a.lsn <= lastLSN /\ lastLSN < r.lsn
    BY <1>1, <2>2 DEF Survival, AcksOK
  <2> QED BY <2>3, <2>4
<1> QED BY SurvivalHolds, <1>1, PTL DEF Spec, LSNsNeverReused

\* The records of f are also in g.
Contained(f, g) == Range(f.data) \subseteq Range(g.data)

NameStays(x) == x \in DOMAIN dir' /\ dir'[x] = dir[x]

\* No step but a crash and RemoveFile takes a name from the directory ...
LEMMA NamesStay ==
  ASSUME ControlOK, PlacementOK, Agreement, HarmlessFailures, Next, gen' = gen, ~RemoveFile
  PROVE  \A b \in DOMAIN dir : NameStays(b)
<1> TAKE b \in DOMAIN dir
<1> USE DEF disk
<1>1. dir' = dir => NameStays(b)
  BY DEF NameStays
<1>2. Commit => dir' = dir
  BY DEF Commit, BeginCommit, WriteRecord, WriteRecordFails, CompleteRequest,
         FinishBatch, FinishBatchFails, StartRoll, StartRollFails, InstallRoll
<1>3. ASSUME Create PROVE NameStays(b)
  <2>1. CASE CreateOpen
    BY <2>1, CreateOpenSegs DEF KeptName, NameStays
  <2>2. CASE ~CreateOpen
    BY <1>1, <1>3, <2>2 DEF Create, CreateOpenFails, CreateHeader, CreateSync,
         CreateHeaderFails, CreateSyncDir, CreateSyncDirFails
  <2> QED BY <2>1, <2>2
<1>4. ASSUME Drop PROVE NameStays(b)
  <2>1. CASE PublishRewrite
    BY <2>1, PublishRewriteSegs DEF KeptName, NameStays
  <2>2. CASE ClearLeftover
    <3>1. job.base \notin DOMAIN dir
      BY <2>2, BaseIsFree DEF ClearLeftover
    <3>2. b \in DOMAIN dir' /\ dir'[b] = dir[b]
      BY <2>2, <3>1, UnlinkType DEF ClearLeftover, DiskTypeOK, NameStays
    <3> QED BY <3>2 DEF NameStays
  <2>3. CASE ~PublishRewrite /\ ~ClearLeftover
    BY <1>1, <1>4, <2>3 DEF Drop, Truncate, CutNoop, CutEverything, CutInside, StartDrop,
         ClearLeftoverFails, RewriteTemp, RewriteTempFails, PublishSync, PublishFails,
         FinishTruncate, FinishCutBelow, FinishCutRewrite, FinishCutEverything, Installed
  <2> QED BY <2>1, <2>2, <2>3
<1>5. Delete => dir' = dir
  BY DEF Delete, SyncRemoval, RemovalFails
<1>6. Recover => dir' = dir
  BY DEF Recover, OpenDir, InstallEmpty, ScanSegment, OpenCorrupt, Reconcile, Reconciled,
         TruncateTornTail, TruncateTornTailFails, InstallState
<1>7. SyncActive => dir' = dir
  BY DEF SyncActive
<1>8. ~(Close \/ CloseUnflushed \/ Kill \/ PowerLoss)
  <2>1. gen \in Nat
    BY DEF HistTypeOK
  <2> QED BY <2>1 DEF Close, CloseUnflushed, Kill, PowerLoss, Stop
<1> QED BY <1>1, <1>2, <1>3, <1>4, <1>5, <1>6, <1>7, <1>8 DEF Next

\* ... and none takes a record from a file that has a name.
LEMMA RecordsStay ==
  ASSUME ControlOK, PlacementOK, Agreement, HarmlessFailures, Next, gen' = gen
  PROVE  \A i \in Range(dir) \cap Range(dir') : Contained(files[i], files'[i])
<1> SUFFICES ASSUME NEW i \in Range(dir) \cap Range(dir')
             PROVE  Contained(files[i], files'[i])
  OBVIOUS
<1>1. i \in Inodes /\ i \notin FreeInodes /\ files[i] \in File
  BY DEF DiskTypeOK, FreeInodes, Live
<1>2. files'[i].data = files[i].data => Contained(files[i], files'[i])
  BY DEF Contained
<1>3. Fsynced(files[i]).data = files[i].data /\ TruncatedToValidEnd(files[i]).data = files[i].data
  BY <1>1 DEF Fsynced, TruncatedToValidEnd, File
<1>4. \A live : i \in live => Collected(files, live)[i].data = files[i].data
  BY <1>1 DEF Collected
<1>5. ASSUME Commit PROVE Contained(files[i], files'[i])
  <2>1. ~WriteRecordFails /\ ~FinishBatchFails /\ ~StartRollFails
    BY NoFault DEF HarmlessCalls, WriteRecordFails, FinishBatchFails, StartRollFails
  <2>2. CASE WriteRecord
    <3>1. files' = [files EXCEPT ![active] = Appended(ActiveFile, NewRec)]
      BY <2>2 DEF WriteRecord
    <3>2. CASE i = active
      <4>1. files'[i].data = Append(files[i].data, NewRec) /\ files[i].data \in Seq(Rec)
        BY <1>1, <3>1, <3>2 DEF Appended, ActiveFile, DiskTypeOK, File
      <4>2. PICK s, r : s \in Seq(Rec) /\ s = files[i].data /\ r = NewRec
        BY <4>1
      <4>3. /\ DOMAIN s = 1..Len(s) /\ Len(s) \in Nat
            /\ \A t : t = Append(s, r) => DOMAIN t = 1..(Len(s) + 1) /\ \A k \in 1..Len(s) : t[k] = s[k]
        OBVIOUS
      <4>4. \A k \in DOMAIN s : s[k] \in Range(Append(s, r))
        <5> SUFFICES ASSUME NEW k \in DOMAIN s PROVE s[k] \in Range(Append(s, r))
          OBVIOUS
        <5>1. PICK t : t = Append(s, r)
          OBVIOUS
        <5>2. k \in DOMAIN t /\ t[k] = s[k]
          BY <4>3, <5>1
        <5> QED BY <5>1, <5>2 DEF Range
      <4> QED BY <4>1, <4>2, <4>4 DEF Contained, Range
    <3>3. CASE i # active
      BY <1>1, <1>2, <3>1, <3>3 DEF DiskTypeOK
    <3> QED BY <3>2, <3>3
  <2>3. CASE ~WriteRecord
    <3>1. \/ files' \in {files, [files EXCEPT ![active] = Fsynced(files[active])]}
          \/ files' = Collected(files, Live(dir, durableDir, active', Nil))
      BY <1>5, <2>1, <2>3 DEF Commit, BeginCommit, CompleteRequest, FinishBatch, StartRoll,
           Sealed, ActiveFile, InstallRoll, disk
    <3> QED BY <1>1, <1>2, <1>3, <1>4, <3>1 DEF Live, DiskTypeOK
  <2> QED BY <2>2, <2>3
<1>6. ASSUME Create PROVE Contained(files[i], files'[i])
  <2>1. ~CreateHeaderFails /\ ~CreateSyncDirFails
    BY NoFault DEF HarmlessCalls, CreateHeaderFails, CreateSyncDirFails
  <2>2. ~CreateOpenFails
    BY NoFault, BaseIsFree DEF HarmlessCalls, CreateOpenFails
  <2>3. CASE CreateOpen
    BY <1>1, <1>2, <2>3 DEF CreateOpen, DiskTypeOK
  <2>4. CASE CreateHeader
    BY <1>1, <1>2, <2>4 DEF CreateHeader, DiskTypeOK, File
  <2>5. CASE CreateSync
    BY <1>1, <1>2, <1>3, <2>5 DEF CreateSync, DiskTypeOK
  <2>6. CASE CreateSyncDir
    BY <1>2, <1>4, <2>6 DEF CreateSyncDir, Live
  <2> QED BY <1>6, <2>1, <2>2, <2>3, <2>4, <2>5, <2>6 DEF Create
<1>7. ASSUME Drop PROVE Contained(files[i], files'[i])
  <2>1. ~ClearLeftoverFails
    BY NoFault DEF HarmlessCalls, ClearLeftoverFails
  <2>2. CASE RewriteTemp
    BY <1>1, <1>2, <2>2 DEF RewriteTemp, DiskTypeOK
  <2>3. CASE ~RewriteTemp
    <3>1. \/ files' = files
          \/ \E a, f : files' = Collected(files, Live(dir', durableDir, a, f))
          \/ \E a, f : files' = Collected(files, Live(dir, durableDir, a, f))
          \/ \E a, f : files' = Collected(files, Live(dir, dir, a, f))
      BY <1>7, <2>1, <2>3 DEF Drop, Truncate, CutNoop, CutEverything, CutInside, StartDrop,
           disk, ClearLeftover, RewriteTempFails, PublishRewrite, PublishSync, PublishFails,
           FinishTruncate, FinishCutBelow, FinishCutRewrite, FinishCutEverything, Installed
    <3> QED BY <1>2, <1>4, <3>1 DEF Live
  <2> QED BY <2>2, <2>3
<1>8. ASSUME Delete PROVE Contained(files[i], files'[i])
  <2>1. ~RemovalFails
    BY NoFault DEF HarmlessCalls, RemovalFails
  <2> QED BY <1>2, <1>4, <1>8, <2>1 DEF Delete, RemoveFile, SyncRemoval, Live
<1>9. ASSUME Recover PROVE Contained(files[i], files'[i])
  <2>1. CASE TruncateTornTailFails
    <3>1. files'[i] = files[i] \/ files'[i] = [files[i] EXCEPT !.junk = 0]
      BY <1>1, <2>1 DEF TruncateTornTailFails, DiskTypeOK
    <3>2. [files[i] EXCEPT !.junk = 0].data = files[i].data
      BY <1>1 DEF File
    <3> QED BY <1>2, <3>1, <3>2
  <2>2. CASE TruncateTornTail
    BY <1>1, <1>2, <1>3, <2>2 DEF TruncateTornTail, OnDisk, DiskTypeOK
  <2>3. CASE ~TruncateTornTail /\ ~TruncateTornTailFails
    <3>1. files' = files \/ files' = Collected(files, Live(dir, durableDir', active, fresh))
      BY <1>9, <2>3 DEF Recover, OpenDir, InstallEmpty, ScanSegment, OpenCorrupt,
           Reconcile, Reconciled, InstallState, disk
    <3> QED BY <1>2, <1>4, <3>1 DEF Live
  <2> QED BY <2>1, <2>2, <2>3
<1>10. ASSUME SyncActive PROVE Contained(files[i], files'[i])
  BY <1>1, <1>2, <1>3, <1>10 DEF SyncActive, Flushed, ActiveFile, DiskTypeOK
<1>11. ~(Close \/ CloseUnflushed \/ Kill \/ PowerLoss)
  <2>1. gen \in Nat
    BY DEF HistTypeOK
  <2> QED BY <2>1 DEF Close, CloseUnflushed, Kill, PowerLoss, Stop
<1> QED BY <1>5, <1>6, <1>7, <1>8, <1>9, <1>10, <1>11 DEF Next

(***************************************************************************)
(* Only a power loss, a Truncate or a CutOffset takes a record off the     *)
(* disk: no roll, recovery or cut deletes a file that holds the only copy  *)
(* of a record at or above the bound it was given.                         *)
(***************************************************************************)
THEOREM NoRecordDestroyedHolds ==
  ASSUME HarmlessFailures, NoEmptyRequests, OneKindOfCrash
  PROVE  Spec => NoRecordDestroyed
<1>1. ASSUME Known, Survival, Next, gen' = gen, NEW r \in DiskRecords, r.lsn >= floor'
      PROVE  r \in DiskRecords'
  <2> USE <1>1 DEF Known
  <2>1. PICK b \in DOMAIN dir : r \in Range(files[dir[b]].data)
    BY DEF DiskRecords, Contents
  <2>2. ASSUME NEW c \in DOMAIN dir, NameStays(c), r \in Range(files[dir[c]].data)
        PROVE  r \in DiskRecords'
    <3>1. c \in DOMAIN dir' /\ dir'[c] = dir[c]
      BY <2>2 DEF NameStays
    <3>2. dir[c] \in Range(dir) \cap Range(dir')
      BY <3>1 DEF Range
    <3>3. r \in Range(files'[dir'[c]].data)
      BY <2>2, <3>1, <3>2, RecordsStay DEF Contained
    <3> QED BY <3>1, <3>3 DEF DiskRecords, Contents
  <2>3. CASE RemoveFile
    <3> DEFINE x == Head(job.names)
    <3>1. Unlinks(dir, dir', x)
      BY <2>3, RemoveFileDispensable
    <3>2. PICK c \in DOMAIN dir : c # x /\ r \in Range(files[dir[c]].data)
      <4>1. CASE b = x
        <5>1. PICK kept : kept \subseteq DOMAIN dir' /\ Dispensable(x, kept)
          BY <2>3, RemoveFileDispensable
        <5>2. floor' = floor /\ floor \in Nat /\ r.lsn \in Nat /\ x \in Nat
          <6>1. floor' = floor
            BY <2>3 DEF RemoveFile, hist
          <6> QED BY <2>1, <4>1, <6>1, BatchType, LSNsBelow, SegsType DEF Survival
        <5>3. PICK c \in kept : x < c /\ r \in Range(files[dir[c]].data)
          BY <2>1, <4>1, <5>1, <5>2 DEF Dispensable
        <5>4. c \in DOMAIN dir /\ c # x
          BY <3>1, <5>1 DEF Unlinks
        <5> QED BY <5>3, <5>4
      <4> QED BY <2>1, <4>1
    <3>3. NameStays(c)
      BY <3>1, <3>2 DEF Unlinks, NameStays
    <3> QED BY <2>2, <3>2, <3>3
  <2>4. CASE ~RemoveFile
    BY <2>1, <2>2, <2>4, NamesStay
  <2> QED BY <2>3, <2>4
<1>2. ASSUME IInv, Known, Survival, [Next]_vars
      PROVE  [gen' = gen =>
                \A r \in DiskRecords : r.lsn >= floor' => r \in DiskRecords']_vars
  BY <1>1, <1>2
<1> QED BY SurvivalHolds, <1>2, PTL DEF Spec, NoRecordDestroyed

-----------------------------------------------------------------------------
(* What Open needs.  Reopens is inductive on top of Survival: a directory  *)
(* is as fit for Open after a step as it was before it.                    *)

\* Open reads the file g as far as the file f.
Better(f, g) ==
  /\ HasHeader(f) => HasHeader(g)
  /\ Len(f.data) <= Len(g.data)
  /\ f.junk = 0 => g.junk = 0
  /\ Whole(f) => Whole(g)

\* The directory e of the files gs is as fit for Open as d of fs: of the last
\* segment only the header matters.
Fits(fs, d, gs, e) ==
  /\ DOMAIN e = DOMAIN d
  /\ \A b \in DOMAIN d :
       /\ HasHeader(fs[d[b]]) => HasHeader(gs[e[b]])
       /\ \A c \in DOMAIN d : b < c => Better(fs[d[b]], gs[e[b]])

LEMMA FitsKeeps ==
  ASSUME NEW fs, NEW d, NEW gs, NEW e, Proper(fs, d), Proper(gs, e), Fits(fs, d, gs, e)
  PROVE  /\ Scannable(fs, d) => Scannable(gs, e)
         /\ TailOnly(fs, d) => TailOnly(gs, e)
<1>1. /\ DOMAIN e = DOMAIN d
      /\ \A b \in DOMAIN d :
           /\ b \in Nat /\ Len(fs[d[b]].data) \in Nat /\ Len(gs[e[b]].data) \in Nat
           /\ HasHeader(fs[d[b]]) => HasHeader(gs[e[b]])
           /\ \A c \in DOMAIN d : b < c => Better(fs[d[b]], gs[e[b]])
  BY ExtentFacts DEF Fits
<1>2. ASSUME Scannable(fs, d), NEW b \in DOMAIN d
      PROVE  /\ HasHeader(gs[e[b]])
             /\ \A c \in DOMAIN d : b < c => gs[e[b]].junk = 0
             /\ \A c \in DOMAIN d : NextName(d, b, c) => c <= b + Len(gs[e[b]].data)
  <2>1. HasHeader(gs[e[b]])
    BY <1>1, <1>2 DEF Scannable
  <2>2. ASSUME NEW c \in DOMAIN d, b < c
        PROVE  gs[e[b]].junk = 0 /\ Len(fs[d[b]].data) <= Len(gs[e[b]].data)
    BY <1>1, <1>2, <2>2 DEF Scannable, Better
  <2>3. ASSUME NEW c \in DOMAIN d, NextName(d, b, c)
        PROVE  c <= b + Len(gs[e[b]].data)
    <3>1. c <= b + Len(fs[d[b]].data)
      BY <1>2, <2>3 DEF Scannable
    <3>2. Len(fs[d[b]].data) <= Len(gs[e[b]].data)
      BY <2>2, <2>3 DEF NextName
    <3> QED BY <1>1, <3>1, <3>2
  <2> QED BY <2>1, <2>2, <2>3
<1>3. \A b, c \in DOMAIN d : NextName(e, b, c) <=> NextName(d, b, c)
  BY <1>1 DEF NextName
<1>4. Scannable(fs, d) => Scannable(gs, e)
  BY <1>1, <1>2, <1>3 DEF Scannable
<1>5. TailOnly(fs, d) => TailOnly(gs, e)
  BY <1>1 DEF TailOnly, Better
<1> QED BY <1>4, <1>5

\* Without its first or its last segment a directory is as fit.
LEMMA FitUnlinked ==
  ASSUME NEW fs, NEW d, NEW e, NEW x \in DOMAIN d, Unlinks(d, e, x), Proper(fs, d),
         (\A b \in DOMAIN d : x <= b) \/ (\A b \in DOMAIN d : b <= x)
  PROVE  /\ Scannable(fs, d) => Scannable(fs, e)
         /\ TailOnly(fs, d) => TailOnly(fs, e)
<1>1. /\ DOMAIN e = DOMAIN d \ {x} /\ \A b \in DOMAIN e : e[b] = d[b]
      /\ DOMAIN d \subseteq Nat
  BY DEF Unlinks, Proper
<1>2. ASSUME NEW b \in DOMAIN e, NEW c \in DOMAIN e, NextName(e, b, c)
      PROVE  NextName(d, b, c)
  <2>1. b < c /\ \A y \in DOMAIN d : y <= b \/ c <= y \/ y = x
    BY <1>1, <1>2 DEF NextName
  <2>2. x <= b \/ c <= x
    BY <1>1
  <2> QED BY <2>1, <2>2 DEF NextName
<1>3. Scannable(fs, d) => Scannable(fs, e)
  BY <1>1, <1>2 DEF Scannable
<1>4. TailOnly(fs, d) => TailOnly(fs, e)
  BY <1>1 DEF TailOnly
<1> QED BY <1>3, <1>4

\* A new last segment that starts where the last one ended.
LEMMA FitLinked ==
  ASSUME NEW fs, NEW d, NEW e, NEW base, Links(d, e, base), Proper(fs, d), Proper(fs, e),
         HasHeader(fs[e[base]]),
         \A b \in DOMAIN d : b < base /\ fs[d[b]].junk = 0,
         \A b \in DOMAIN d : (\A c \in DOMAIN d : c <= b) => base <= b + Len(fs[d[b]].data)
  PROVE  /\ Scannable(fs, d) => Scannable(fs, e)
         /\ TailOnly(fs, d) /\ (\A b \in DOMAIN d : (\A c \in DOMAIN d : c <= b) => Whole(fs[d[b]]))
              => TailOnly(fs, e)
<1>1. /\ DOMAIN e = DOMAIN d \cup {base} /\ \A b \in DOMAIN d : e[b] = d[b]
      /\ DOMAIN d \subseteq Nat /\ base \in Nat
  BY DEF Links, Proper
<1>2. ASSUME NEW b \in DOMAIN e, NEW c \in DOMAIN e, b < c
      PROVE  b \in DOMAIN d
  BY <1>1, <1>2
<1>3. ASSUME Scannable(fs, d), NEW b \in DOMAIN d, NEW c \in DOMAIN e, NextName(e, b, c)
      PROVE  c <= b + Len(fs[e[b]].data)
  <2>1. CASE c \in DOMAIN d
    <3>1. NextName(d, b, c)
      BY <1>1, <1>3 DEF NextName
    <3> QED BY <1>1, <1>3, <2>1, <3>1 DEF Scannable
  <2>2. CASE c = base
    <3>1. \A y \in DOMAIN d : y <= b
      BY <1>1, <1>3, <2>2 DEF NextName
    <3> QED BY <1>1, <2>2, <3>1
  <2> QED BY <1>1, <2>1, <2>2
<1>4. Scannable(fs, d) => Scannable(fs, e)
  <2> SUFFICES ASSUME Scannable(fs, d), NEW b \in DOMAIN e
               PROVE  /\ HasHeader(fs[e[b]])
                      /\ \A c \in DOMAIN e : b < c => fs[e[b]].junk = 0
                      /\ \A c \in DOMAIN e : NextName(e, b, c) => c <= b + Len(fs[e[b]].data)
    BY DEF Scannable
  <2>1. HasHeader(fs[e[b]])
    BY <1>1 DEF Scannable
  <2>2. \A c \in DOMAIN e : b < c => fs[e[b]].junk = 0
    BY <1>1, <1>2
  <2>3. \A c \in DOMAIN e : NextName(e, b, c) => c <= b + Len(fs[e[b]].data)
    BY <1>2, <1>3 DEF NextName
  <2> QED BY <2>1, <2>2, <2>3
<1>5. ASSUME TailOnly(fs, d), NEW b \in DOMAIN e, NEW c \in DOMAIN e, b < c,
             \A a \in DOMAIN d : (\A y \in DOMAIN d : y <= a) => Whole(fs[d[a]])
      PROVE  Whole(fs[e[b]])
  <2>1. b \in DOMAIN d
    BY <1>2, <1>5
  <2>2. CASE \A y \in DOMAIN d : y <= b
    BY <1>1, <1>5, <2>1, <2>2
  <2>3. CASE \E y \in DOMAIN d : ~(y <= b)
    <3>1. PICK y \in DOMAIN d : b < y
      BY <1>1, <2>1, <2>3
    <3> QED BY <1>1, <1>5, <2>1, <3>1 DEF TailOnly
  <2> QED BY <2>2, <2>3
<1> QED BY <1>4, <1>5 DEF TailOnly

\* A segment that a cut has rewritten: it starts inside another and ends where
\* that one does.
LEMMA FitRewritten ==
  ASSUME NEW fs, NEW d, NEW e, NEW base, Links(d, e, base), Proper(fs, d), Proper(fs, e),
         HasHeader(fs[e[base]]), fs[e[base]].junk = 0,
         \A b \in DOMAIN d : fs[d[b]].junk = 0,
         NEW old \in DOMAIN d, old < base, base < old + Len(fs[d[old]].data),
         old + Len(fs[d[old]].data) = base + Len(fs[e[base]].data),
         \A b \in DOMAIN d : b <= old \/ base < b,
         Whole(fs[e[base]])
  PROVE  /\ Scannable(fs, d) => Scannable(fs, e)
         /\ TailOnly(fs, d) /\ Whole(fs[d[old]]) => TailOnly(fs, e)
<1>1. /\ DOMAIN e = DOMAIN d \cup {base} /\ \A b \in DOMAIN d : e[b] = d[b]
      /\ DOMAIN d \subseteq Nat /\ base \in Nat
  BY DEF Links, Proper
<1>0. Len(fs[d[old]].data) \in Nat /\ Len(fs[e[base]].data) \in Nat
  BY <1>1, ExtentFacts
<1>2. ASSUME Scannable(fs, d), NEW b \in DOMAIN e, NEW c \in DOMAIN e, NextName(e, b, c)
      PROVE  c <= b + Len(fs[e[b]].data)
  <2>1. CASE b \in DOMAIN d /\ c \in DOMAIN d
    <3>1. NextName(d, b, c)
      BY <1>1, <1>2, <2>1 DEF NextName
    <3> QED BY <1>1, <1>2, <2>1, <3>1 DEF Scannable
  <2>2. CASE b \in DOMAIN d /\ c = base
    <3>1. b = old
      BY <1>1, <1>2, <2>2 DEF NextName
    <3> QED BY <1>0, <1>1, <2>2, <3>1
  <2>3. CASE b = base /\ c \in DOMAIN d
    <3>1. NextName(d, old, c)
      BY <1>1, <1>2, <2>3 DEF NextName
    <3>2. c <= old + Len(fs[d[old]].data)
      BY <1>2, <2>3, <3>1 DEF Scannable
    <3> QED BY <2>3, <3>2
  <2> QED BY <1>1, <1>2, <2>1, <2>2, <2>3 DEF NextName
<1>3. Scannable(fs, d) => Scannable(fs, e)
  <2> SUFFICES ASSUME Scannable(fs, d), NEW b \in DOMAIN e
               PROVE  /\ HasHeader(fs[e[b]])
                      /\ \A c \in DOMAIN e : b < c => fs[e[b]].junk = 0
                      /\ \A c \in DOMAIN e : NextName(e, b, c) => c <= b + Len(fs[e[b]].data)
    BY DEF Scannable
  <2>1. HasHeader(fs[e[b]]) /\ fs[e[b]].junk = 0
    BY <1>1 DEF Scannable
  <2> QED BY <1>2, <2>1
<1>4. ASSUME TailOnly(fs, d), Whole(fs[d[old]]), NEW b \in DOMAIN e, NEW c \in DOMAIN e, b < c
      PROVE  Whole(fs[e[b]])
  <2>1. CASE b = base
    BY <2>1
  <2>2. CASE b = old
    BY <1>1, <1>4, <2>2
  <2>3. CASE b \in DOMAIN d /\ b # old
    <3>1. \E y \in DOMAIN d : b < y
      BY <1>1, <1>4, <2>3
    <3> QED BY <1>1, <1>4, <2>3, <3>1 DEF TailOnly
  <2> QED BY <1>1, <2>1, <2>2, <2>3
<1> QED BY <1>3, <1>4 DEF TailOnly

\* A directory whose segments follow each other.
LEMMA ChainFits ==
  ASSUME NEW fs, NEW d, Proper(fs, d), NEW s \in Seq(Nat), Ascending(s), DOMAIN d = Range(s),
         \A k \in 1..(Len(s) - 1) : s[k + 1] = s[k] + Len(fs[d[s[k]]].data),
         \A b \in DOMAIN d : HasHeader(fs[d[b]]) /\ fs[d[b]].junk = 0
  PROVE  Scannable(fs, d)
<1>1. DOMAIN s = 1..Len(s) /\ Len(s) \in Nat /\ \A k \in 1..Len(s) : s[k] \in Nat /\ s[k] \in DOMAIN d
  BY DEF Range
<1> SUFFICES ASSUME NEW b \in DOMAIN d, NEW c \in DOMAIN d, NextName(d, b, c)
             PROVE  c <= b + Len(fs[d[b]].data)
  BY DEF Scannable
<1>2. PICK j, k \in 1..Len(s) : b = s[j] /\ c = s[k]
  BY <1>1 DEF Range
<1>3. j < k
  <2>1. k < j => s[k] < s[j]
    BY <1>1 DEF Ascending
  <2>2. s[j] < s[k]
    BY <1>2 DEF NextName
  <2> QED BY <1>1, <2>1, <2>2
<1>4. j \in 1..(Len(s) - 1) /\ j + 1 \in 1..Len(s)
  BY <1>1, <1>3
<1>5. s[j] < s[j + 1]
  <2>1. j \in DOMAIN s /\ j + 1 \in DOMAIN s /\ j < j + 1
    BY <1>1, <1>4
  <2> QED BY <2>1 DEF Ascending
<1>6. s[j + 1] <= b \/ c <= s[j + 1]
  BY <1>1, <1>4 DEF NextName
<1>7. c <= s[j + 1]
  BY <1>1, <1>2, <1>4, <1>5, <1>6
<1> QED BY <1>2, <1>4, <1>7

-----------------------------------------------------------------------------
(* Steps.                                                                  *)

\* Constructing, Built and the names in them.
LEMMA BuiltFacts ==
  ASSUME Known, Survival
  PROVE  /\ DOMAIN Built \subseteq DOMAIN dir /\ \A b \in DOMAIN Built : Built[b] = dir[b]
         /\ Proper(files, Built) /\ Proper(files, dir) /\ Proper(files, durableDir)
         /\ ~Constructing => Built = dir
         /\ Constructing => DOMAIN Built = DOMAIN dir \ {job.base}
<1>1. Proper(files, dir) /\ Proper(files, durableDir)
  BY DirsProper DEF Known, Survival
<1>2. /\ ~Constructing => Built = dir
      /\ Constructing => DOMAIN Built = DOMAIN dir \ {job.base}
      /\ DOMAIN Built \subseteq DOMAIN dir /\ \A b \in DOMAIN Built : Built[b] = dir[b]
  BY DEF Built, Unlink, Restrict
<1>3. Proper(files, Built)
  BY <1>1, <1>2 DEF Proper
<1> QED BY <1>1, <1>2, <1>3

LEMMA NextBuiltFacts ==
  ASSUME Known', Survival'
  PROVE  /\ DOMAIN Built' \subseteq DOMAIN dir' /\ \A b \in DOMAIN Built' : Built'[b] = dir'[b]
         /\ Proper(files', Built') /\ Proper(files', dir') /\ Proper(files', durableDir')
         /\ ~Constructing' => Built' = dir'
         /\ Constructing' => DOMAIN Built' = DOMAIN dir' \ {job'.base}
<1>1. Proper(files', dir') /\ Proper(files', durableDir')
  BY NextDirsProper DEF Known, Survival
<1>2. /\ ~Constructing' => Built' = dir'
      /\ Constructing' => DOMAIN Built' = DOMAIN dir' \ {job'.base}
      /\ DOMAIN Built' \subseteq DOMAIN dir' /\ \A b \in DOMAIN Built' : Built'[b] = dir'[b]
  BY DEF Built, Unlink, Restrict
<1>3. Proper(files', Built')
  BY <1>1, <1>2 DEF Proper
<1> QED BY <1>1, <1>2, <1>3

NoWindow == \A c \in crashed : ~InWindow(c.at, c.kind)

\* A step after which what a crash may leave is as fit for Open.
LEMMA StaysRecoverable ==
  ASSUME Known, Known', Survival, Survival', RecoverableOK, crashed \subseteq crashed',
         Fits(files, Built, files', Built'),
         MayLosePower =>
           /\ TailExposed => TailExposed'
           /\ \/ Fits(files, durableDir, files', durableDir')
              \/ Fits(files, Built, files', durableDir')
  PROVE  RecoverableOK'
<1> SUFFICES ASSUME NoWindow'
             PROVE  /\ Scannable(files', Built')
                    /\ MayLosePower /\ ~TailExposed' =>
                         /\ Scannable(files', durableDir')
                         /\ TailOnly(files', Built') /\ TailOnly(files', durableDir')
  BY DEF RecoverableOK, NoWindow
<1>1. /\ Scannable(files, Built)
      /\ MayLosePower /\ ~TailExposed =>
           /\ Scannable(files, durableDir)
           /\ TailOnly(files, Built) /\ TailOnly(files, durableDir)
  BY DEF RecoverableOK, NoWindow
<1>2. Scannable(files', Built')
  BY <1>1, BuiltFacts, NextBuiltFacts, FitsKeeps
<1>3. ASSUME MayLosePower, ~TailExposed'
      PROVE  /\ Scannable(files', durableDir')
             /\ TailOnly(files', Built') /\ TailOnly(files', durableDir')
  <2>1. TailOnly(files', Built')
    BY <1>1, <1>3, BuiltFacts, NextBuiltFacts, FitsKeeps
  <2>2. CASE Fits(files, durableDir, files', durableDir')
    BY <1>1, <1>3, <2>1, <2>2, BuiltFacts, NextBuiltFacts, FitsKeeps
  <2>3. CASE Fits(files, Built, files', durableDir')
    BY <1>1, <1>3, <2>1, <2>3, BuiltFacts, NextBuiltFacts, FitsKeeps
  <2> QED BY <1>3, <2>2, <2>3
<1> QED BY <1>2, <1>3

\* No file that has a name gets worse.
FilesBetter ==
  \A i \in Range(dir') \cup Range(durableDir') : Better(files[i], files'[i])

\* What the steps do to a file makes it no worse.
LEMMA BetterOps ==
  ASSUME NEW f \in File
  PROVE  /\ Better(f, f) /\ Better(f, Fsynced(f)) /\ Better(f, TruncatedToValidEnd(f))
         /\ ScanFails(f) <=> f.junk # 0
         /\ Fsynced(f).junk = f.junk
         /\ HasHeader(f) => HasHeader(Fsynced(f)) /\ HasHeader(TruncatedToValidEnd(f))
         /\ TruncatedToValidEnd(f).junk = 0
<1>1. f.junk \in Nat /\ Len(f.data) \in Nat /\ f.hdr \in {"absent", "cached", "durable"}
  BY DEF File
<1>2. /\ Fsynced(f).data = f.data /\ Fsynced(f).junk = f.junk
      /\ Fsynced(f).hdr = IF f.hdr = "cached" THEN "durable" ELSE f.hdr
      /\ Fsynced(f).synced = Len(f.data)
  BY DEF Fsynced, File
<1>3. /\ TruncatedToValidEnd(f).data = f.data /\ TruncatedToValidEnd(f).junk = 0
      /\ TruncatedToValidEnd(f).hdr = IF f.hdr = "cached" THEN "durable" ELSE f.hdr
      /\ TruncatedToValidEnd(f).synced = Len(f.data)
  BY DEF TruncatedToValidEnd, Fsynced, File
<1>4. Better(f, f)
  BY <1>1 DEF Better
<1>5. Better(f, Fsynced(f)) /\ (HasHeader(f) => HasHeader(Fsynced(f)))
  BY <1>1, <1>2 DEF Better, Whole, HasHeader
<1>6. Better(f, TruncatedToValidEnd(f)) /\ (HasHeader(f) => HasHeader(TruncatedToValidEnd(f)))
  BY <1>1, <1>3 DEF Better, Whole, HasHeader
<1> QED BY <1>1, <1>2, <1>3, <1>4, <1>5, <1>6 DEF ScanFails

LEMMA UsualBetter ==
  ASSUME ControlOK, ControlOK',
         \A i \in Range(dir') \cup Range(durableDir') :
           files'[i] \in {files[i], Fsynced(files[i]), TruncatedToValidEnd(files[i])}
  PROVE  FilesBetter
<1>1. Range(dir') \cup Range(durableDir') \subseteq Inodes
  BY DEF ControlOK, TypeOK, DiskTypeOK
<1>2. \A i \in Inodes : files[i] \in File
  BY DEF ControlOK, TypeOK, DiskTypeOK
<1> QED BY <1>1, <1>2, BetterOps DEF FilesBetter

LEMMA CollectedBetter ==
  ASSUME ControlOK, ControlOK', NEW live, files' = Collected(files, live),
         Range(dir') \cup Range(durableDir') \subseteq live
  PROVE  FilesBetter
<1>1. Range(dir') \cup Range(durableDir') \subseteq Inodes
  BY DEF ControlOK, TypeOK, DiskTypeOK
<1> QED BY <1>1, UsualBetter DEF Collected

\* A step that neither adds a name nor removes one.
LEMMA SameNamesRecoverable ==
  ASSUME Known, Known', Survival, Survival', RecoverableOK, crashed \subseteq crashed',
         SameDir(dir, dir'), FilesBetter, pc \notin HeaderWindow, pc' \notin HeaderWindow,
         MayLosePower =>
           /\ TailExposed => TailExposed'
           /\ durableDir' = durableDir \/ durableDir' = dir
  PROVE  RecoverableOK'
<1>1. Built = dir /\ Built' = dir'
  BY BuiltFacts, NextBuiltFacts DEF Constructing
<1>2. /\ DOMAIN dir' = DOMAIN dir
      /\ \A b \in DOMAIN dir : dir'[b] = dir[b] /\ dir'[b] \in Range(dir')
  BY DEF SameDir, Range
<1>3. Fits(files, Built, files', Built')
  BY <1>1, <1>2 DEF Fits, Better, FilesBetter
<1>4. ASSUME MayLosePower
      PROVE  \/ Fits(files, durableDir, files', durableDir')
             \/ Fits(files, Built, files', durableDir')
  <2>1. \A b \in DOMAIN durableDir' : durableDir'[b] \in Range(durableDir')
    BY DEF Range
  <2> QED BY <1>1, <1>4, <2>1 DEF Fits, Better, FilesBetter
<1> QED BY <1>3, <1>4, StaysRecoverable

LEMMA SameNamesClean ==
  ASSUME Known, Known', Survival, Survival', CleanOK,
         SameDir(dir, dir'), FilesBetter, pc \notin HeaderWindow, pc' \notin HeaderWindow,
         Opened' => Opened /\ crashed' = crashed,
         HasFresh' =>
           \/ HasFresh /\ fresh' = fresh /\ files'[fresh] = files[fresh]
           \/ files'[fresh'].junk = 0 /\ files'[fresh'].hdr = "durable"
  PROVE  CleanOK'
<1>1. Built = dir /\ Built' = dir'
  BY BuiltFacts, NextBuiltFacts DEF Constructing
<1>2. ASSUME Opened' PROVE crashed' = {} /\ \A b \in DOMAIN Built' : ~ScanFails(files'[Built'[b]])
  <2>1. crashed = {} /\ \A b \in DOMAIN dir : ~ScanFails(files[dir[b]])
    BY <1>1, <1>2 DEF CleanOK
  <2>2. ASSUME NEW b \in DOMAIN dir' PROVE ~ScanFails(files'[dir'[b]])
    <3>1. b \in DOMAIN dir /\ dir'[b] = dir[b] /\ dir[b] \in Range(dir')
      BY DEF SameDir, Range
    <3>2. Better(files[dir[b]], files'[dir[b]]) /\ ~ScanFails(files[dir[b]])
      BY <2>1, <3>1 DEF FilesBetter
    <3>3. files[dir[b]] \in File /\ files'[dir[b]] \in File
      <4>1. Proper(files, dir) /\ Proper(files', dir')
        BY BuiltFacts, NextBuiltFacts
      <4> QED BY <3>1, <4>1 DEF Proper
    <3> QED BY <3>1, <3>2, <3>3, BetterOps DEF Better
  <2> QED BY <1>1, <1>2, <2>1, <2>2
<1>3. ASSUME HasFresh' PROVE ~ScanFails(files'[fresh']) /\ files'[fresh'].hdr = "durable"
  <2>1. CASE HasFresh /\ fresh' = fresh /\ files'[fresh] = files[fresh]
    BY <2>1 DEF CleanOK
  <2>2. CASE files'[fresh'].junk = 0 /\ files'[fresh'].hdr = "durable"
    BY <2>2 DEF ScanFails
  <2> QED BY <1>3, <2>1, <2>2
<1>4. pc' # "createHeader" /\ pc' # "createSync"
  BY DEF HeaderWindow
<1> QED BY <1>2, <1>3, <1>4 DEF CleanOK

LEMMA NoReading ==
  ASSUME pc' \notin {"scan", "prune"}
  PROVE  ReadOK'
BY DEF ReadOK

LEMMA NoEnds ==
  ASSUME ~Dropping', pc' # "prune", pc' \notin HeaderWindow
  PROVE  EndsOK'
BY DEF EndsOK, Constructing

LEMMA SameEnds ==
  ASSUME EndsOK, job'.idx = job.idx, Range(job'.names) \subseteq Range(job.names),
         Dropping' => Dropping, pc' \notin HeaderWindow,
         pc' = "prune" => pc = "prune" /\ DOMAIN dir' \subseteq DOMAIN dir
  PROVE  EndsOK'
BY DEF EndsOK, Constructing

(***************************************************************************)
(* A step of an open log, or the one that closes it, that adds no name and *)
(* deletes none.                                                           *)
(***************************************************************************)
LEMMA QuietStep ==
  ASSUME Known, Known', Survival, Survival', Reopens,
         SameDir(dir, dir'), FilesBetter, pc \notin HeaderWindow, pc' \notin HeaderWindow,
         MayLosePower =>
           /\ TailExposed => TailExposed'
           /\ durableDir' = durableDir \/ durableDir' = dir,
         crashed' = crashed, Opened' => Opened, pc' \notin {"scan", "prune"},
         HasFresh' =>
           \/ HasFresh /\ fresh' = fresh /\ files'[fresh] = files[fresh]
           \/ files'[fresh'].junk = 0 /\ files'[fresh'].hdr = "durable",
         EndsOK'
  PROVE  Reopens'
BY SameNamesRecoverable, SameNamesClean, NoReading DEF Reopens

LEMMA SameDirStays ==
  ASSUME dir' = dir
  PROVE  SameDir(dir, dir')
BY DEF SameDir

\* The disk stays as it is.
LEMMA QuietDisk ==
  ASSUME Known, Known', Survival, Survival', Reopens, UNCHANGED <<files, dir, durableDir>>,
         pc \notin HeaderWindow, pc' \notin HeaderWindow, MayLosePower /\ TailExposed => TailExposed',
         crashed' = crashed, Opened' => Opened, pc' \notin {"scan", "prune"},
         HasFresh' => HasFresh /\ fresh' = fresh, EndsOK'
  PROVE  Reopens'
<1>1. FilesBetter
  BY UsualBetter DEF Known
<1> QED BY <1>1, SameDirStays, QuietStep

\* The file i, if any, is fsynced.
LEMMA QuietSync ==
  ASSUME Known, Known', Survival, Survival', Reopens, NEW i \in Inodes,
         files' \in {files, [files EXCEPT ![i] = Fsynced(files[i])]},
         UNCHANGED <<dir, durableDir>>, pc \in {"idle", "write"}, ~HasFresh', crashed' = crashed,
         pc' \in {"idle", "write", "createOpen"}
  PROVE  Reopens'
<1>1. FilesBetter
  <2>1. files \in [Inodes -> File] /\ Range(dir') \cup Range(durableDir') \subseteq Inodes
    BY DEF Known, DiskTypeOK
  <2> QED BY <2>1, UsualBetter DEF Known
<1>2. Opened /\ job.kind = "none"
  BY ServingFacts DEF Known
<1>3. ~TailExposed
  BY <1>2 DEF TailExposed, InWindow, HeaderWindow
<1>4. job'.kind \in {"none", "init", "roll", "cutAll"} => EndsOK'
  BY NoEnds DEF Dropping, HeaderWindow
<1>5. job'.kind \in {"none", "init", "roll", "cutAll"}
  BY DEF Known, StepsOK, Kinds
<1>6. pc \notin HeaderWindow /\ pc' \notin HeaderWindow
  BY DEF HeaderWindow
<1> QED BY <1>1, <1>2, <1>3, <1>4, <1>5, <1>6, SameDirStays, QuietStep

LEMMA CommitReopens ==
  ASSUME Known, Known', Survival, Survival', Reopens,
         (\E b \in Batches : BeginCommit(b)) \/ CompleteRequest \/ FinishBatch \/ StartRoll
           \/ SyncActive
  PROVE  Reopens'
<1>1. /\ UNCHANGED <<dir, durableDir, fresh, crashed>> /\ pc \in {"idle", "write"}
      /\ pc' \in {"idle", "write", "createOpen"}
      /\ files' \in {files, [files EXCEPT ![active] = Fsynced(files[active])]}
  BY DEF BeginCommit, CompleteRequest, FinishBatch, StartRoll, SyncActive, Writing, Flushed,
         Sealed, ActiveFile, disk, hist
<1>2. active \in Inodes /\ ~HasFresh
  BY <1>1, ServingFacts, OpenedIff DEF Known
<1>3. ~HasFresh'
  BY <1>1, <1>2, OpenedIff, OpenedIffNext DEF Known
<1> QED BY <1>1, <1>2, <1>3, QuietSync

LEMMA InstallRollReopens ==
  ASSUME Known, Known', Survival, Survival', Reopens, HarmlessFailures, InstallRoll
  PROVE  Reopens'
<1>1. /\ pc = "installRoll" /\ pc' = "write" /\ job'.kind = "none" /\ crashed' = crashed
      /\ UNCHANGED <<dir, durableDir>> /\ files' = Collected(files, Live(dir, durableDir, active', Nil))
  BY NoFault DEF HarmlessCalls, InstallRoll, NoJob, hist
<1>2. FilesBetter
  BY <1>1, CollectedBetter DEF Live, Known
<1>3. /\ Opened /\ ~HasFresh' /\ ~TailExposed /\ ~Dropping'
      /\ pc \notin HeaderWindow /\ pc' \notin HeaderWindow
  BY <1>1 DEF Known, StepsOK, Kinds, Opened, HasFresh, TailExposed, InWindow, HeaderWindow,
              CutWindow, Dropping
<1> QED BY <1>1, <1>2, <1>3, NoEnds, SameDirStays, QuietStep

\* The parts of an ascending sequence.
LEMMA SplitEnds ==
  ASSUME NEW s \in Seq(Nat), Ascending(s), NEW d \in Nat, d <= Len(s)
  PROVE  \A x \in Range(SubSeq(s, 1, d)), y \in Range(SubSeq(s, d + 1, Len(s))) : x < y
<1> SUFFICES ASSUME NEW x \in Range(SubSeq(s, 1, d)), NEW y \in Range(SubSeq(s, d + 1, Len(s)))
             PROVE  x < y
  OBVIOUS
<1>1. (\E k \in 1..d : x = s[k]) /\ (\E k \in (d + 1)..Len(s) : y = s[k])
  BY RangeOfSplit
<1>2. PICK j \in 1..d, k \in (d + 1)..Len(s) : x = s[j] /\ y = s[k]
  BY <1>1
<1>3. j \in DOMAIN s /\ k \in DOMAIN s /\ j < k
  BY <1>2
<1> QED BY <1>2, <1>3 DEF Ascending

\* Truncate and CutOffset that delete from the start of the index.
LEMMA StartDropReopens ==
  ASSUME Known, Known', Survival, Survival', Reopens, pc = "idle", NEW upTo, NEW newJob,
         NEW step \in {"remove", "rewrite", "clearLeftover"}, StartDrop(upTo, newJob, step),
         step = "remove" =>
           \E d \in Nat : /\ d <= Len(index) /\ newJob.names = SubSeq(index, 1, d)
                          /\ newJob.idx = SubSeq(index, d + 1, Len(index)),
         step = "remove" => newJob.kind \in {"truncate", "cutBelow"},
         step = "clearLeftover" => newJob.kind = "cutAll",
         step = "rewrite" => newJob.kind = "cutRewrite"
  PROVE  Reopens'
<1>1. /\ UNCHANGED <<files, dir, durableDir, fresh, crashed>> /\ pc' = step /\ job' = newJob
  BY DEF StartDrop, disk
<1>2. Opened /\ ~Dropping /\ ~HasFresh /\ job.kind = "none"
  BY ServingFacts DEF Known
<1>3. ~HasFresh'
  BY <1>1, <1>2, OpenedIff, OpenedIffNext DEF Known
<1>4. ~TailExposed /\ pc \notin HeaderWindow /\ pc' \notin HeaderWindow
  BY <1>1, <1>2 DEF TailExposed, InWindow, HeaderWindow
<1>5. EndsOK'
  <2>1. CASE step = "remove"
    <3>1. index \in Seq(Nat) /\ Ascending(index)
      BY <1>2, IndexFacts DEF Known
    <3>2. PICK d \in Nat : /\ d <= Len(index) /\ newJob.names = SubSeq(index, 1, d)
                           /\ newJob.idx = SubSeq(index, d + 1, Len(index))
      BY <2>1
    <3>3. \A x \in Range(newJob.names), y \in Range(newJob.idx) : x < y
      BY <3>1, <3>2, SplitEnds
    <3> QED BY <1>1, <1>4, <2>1, <3>3 DEF EndsOK, Constructing
  <2>2. CASE step # "remove"
    BY <1>1, <1>4, <2>2, NoEnds DEF Dropping
  <2> QED BY <2>1, <2>2
<1>6. pc' \notin {"scan", "prune"}
  BY <1>1
<1> QED BY <1>1, <1>2, <1>3, <1>4, <1>5, <1>6, QuietDisk

LEMMA TruncateReopens ==
  ASSUME Known, Known', Survival, Survival', Reopens, NEW upTo \in Nat, Truncate(upTo)
  PROVE  Reopens'
<1> DEFINE d == Deletable(index, upTo)
           newJob == [NoJob EXCEPT !.kind = "truncate",
                         !.names = DeletedByTruncate(d),
                         !.idx = SubSeq(index, d + 1, Len(index))]
<1>1. pc = "idle" /\ d > 0 /\ StartDrop(upTo, newJob, "remove")
  BY DEF Truncate
<1>2. /\ newJob.kind = "truncate" /\ newJob.names = SubSeq(index, 1, d)
      /\ newJob.idx = SubSeq(index, d + 1, Len(index))
  BY DEF NoJob, DeletedByTruncate
<1>3. d \in Nat /\ d <= Len(index)
  <2>1. Opened /\ ~Dropping
    BY <1>1, ServingFacts DEF Known
  <2>2. index \in Seq(Nat) /\ Ascending(index) /\ index # << >> /\ Len(index) \in Nat
    BY <2>1, IndexFacts DEF Known
  <2>3. d \in Nat /\ d < Len(index)
    BY <2>2, DeletableRight
  <2> QED BY <2>2, <2>3
<1> HIDE DEF newJob, d
<1> QED BY <1>1, <1>2, <1>3, StartDropReopens

LEMMA CutReopens ==
  ASSUME Known, Known', Survival, Survival', Reopens, NEW upTo \in Nat,
         CutNoop(upTo) \/ CutEverything(upTo) \/ CutInside(upTo)
  PROVE  Reopens'
<1> DEFINE cut == Reach(upTo)
           b == Boundary(index, cut)
           above == SubSeq(index, b + 1, Len(index))
           all == [NoJob EXCEPT !.kind = "cutAll", !.base = nextLSN,
                                !.names = DeletedByCutEverything, !.idx = <<nextLSN>>]
           below == [NoJob EXCEPT !.kind = "cutBelow", !.base = cut,
                                  !.names = SubSeq(index, 1, b - 1), !.idx = <<cut>> \o above]
           inside == [NoJob EXCEPT !.kind = "cutRewrite", !.base = cut,
                                   !.names = SubSeq(index, 1, b), !.idx = <<cut>> \o above]
<1>1. pc = "idle"
  BY DEF CutNoop, CutEverything, CutInside
<1>2. Opened /\ ~Dropping /\ ~HasFresh /\ job.kind = "none"
  BY <1>1, ServingFacts DEF Known
<1>3. CASE CutNoop(upTo)
  <2>1. UNCHANGED <<files, dir, durableDir, pc, job, fresh, crashed>>
    BY <1>3 DEF CutNoop, disk
  <2>2. ~HasFresh' /\ ~Dropping'
    BY <1>2, <2>1 DEF HasFresh, Dropping
  <2>3. ~TailExposed /\ pc \notin HeaderWindow /\ pc' \notin HeaderWindow
    BY <1>1, <1>2, <2>1 DEF TailExposed, InWindow, HeaderWindow
  <2> QED BY <1>1, <1>2, <2>1, <2>2, <2>3, NoEnds, QuietDisk
<1>4. CASE CutEverything(upTo)
  <2>1. StartDrop(upTo, all, "clearLeftover") /\ all.kind = "cutAll"
    BY <1>4 DEF CutEverything, NoJob
  <2> HIDE DEF all
  <2> QED BY <1>1, <2>1, StartDropReopens
<1>5. CASE CutInside(upTo)
  <2>1. /\ ~CutNothing(cut) /\ cut < nextLSN
        /\ \/ index[b] = cut /\ StartDrop(upTo, below, "remove")
           \/ StartDrop(upTo, inside, "rewrite")
    BY <1>5 DEF CutInside
  <2>2. CASE StartDrop(upTo, inside, "rewrite")
    <3>1. inside.kind = "cutRewrite"
      BY DEF NoJob
    <3> HIDE DEF inside
    <3> QED BY <1>1, <2>2, <3>1, StartDropReopens
  <2>3. CASE index[b] = cut /\ StartDrop(upTo, below, "remove")
    <3>1. cut \in Nat
      BY <1>1, <2>3, StartDropSurvival DEF Survival
    <3>2. /\ index \in Seq(Nat) /\ Len(index) \in Nat /\ b \in 1..Len(index)
      BY <1>1, <1>2, <2>1, <3>1, IndexFacts, CutFacts DEF Known
    <3>3. <<cut>> \o above = SubSeq(index, b, Len(index))
      BY <2>3, <3>2, ConsSubSeq
    <3>4. b - 1 \in Nat /\ b - 1 <= Len(index) /\ (b - 1) + 1 = b
      <4> HIDE DEF b
      <4> QED BY <3>2
    <3>5. /\ below.kind = "cutBelow" /\ below.names = SubSeq(index, 1, b - 1)
          /\ below.idx = SubSeq(index, (b - 1) + 1, Len(index))
      BY <3>3, <3>4 DEF NoJob
    <3> HIDE DEF below, b
    <3> QED BY <1>1, <2>3, <3>4, <3>5, StartDropReopens
  <2> QED BY <2>1, <2>2, <2>3
<1> QED BY <1>3, <1>4, <1>5

-----------------------------------------------------------------------------
(* New segments.                                                           *)

\* The files of a directory whose names stay get no worse.
LEMMA NamesBetter ==
  ASSUME FilesBetter, NEW d, \A b \in DOMAIN d : d[b] \in Range(dir') \cup Range(durableDir')
  PROVE  Fits(files, d, files', d)
BY DEF Fits, Better, FilesBetter

\* The new name continues the log, and readers do not see it yet.
LEMMA CreateOpenReopens ==
  ASSUME Known, Known', Survival, Survival', Reopens, CreateOpen
  PROVE  Reopens'
<1> USE DEF Known
<1>1. /\ pc = "createOpen" /\ pc' = "createHeader"
      /\ UNCHANGED <<durableDir, job, nextLSN, active, index, crashed>>
  BY DEF CreateOpen, mem, hist
<1>2. PICK i \in FreeInodes :
        files' = [files EXCEPT ![i] = NewFile] /\ fresh' = i
  BY DEF CreateOpen
<1>3. /\ i \in Inodes /\ \A d \in {dir, durableDir} : \A b \in DOMAIN d : d[b] \in Inodes /\ d[b] # i
      /\ files'[i] = NewFile /\ \A j \in Inodes : j # i => files'[j] = files[j]
  <2>1. i \in Inodes /\ i \notin Range(dir) \cup Range(durableDir)
    BY DEF FreeInodes, Live
  <2>2. Range(dir) \subseteq Inodes /\ Range(durableDir) \subseteq Inodes
        /\ files \in [Inodes -> File]
    BY DEF DiskTypeOK
  <2> QED BY <1>2, <2>1, <2>2 DEF Range
<1>4. /\ job.base \notin DOMAIN dir /\ job.base \in Nat
      /\ job.kind \in {"init", "roll", "cutAll"}
      /\ job.kind \in {"roll", "cutAll"} =>
           /\ Opened /\ LastBase < nextLSN /\ job.base = nextLSN
           /\ DOMAIN dir = Range(index) /\ ~Dropping
      /\ job.kind = "init" => DOMAIN dir = {} /\ ~Opened
  BY <1>1, BaseIsFree, JobType
<1>5. /\ DOMAIN dir' = DOMAIN dir \cup {job.base} /\ dir'[job.base] = i
      /\ \A b \in DOMAIN dir : dir'[b] = dir[b]
  BY <1>2, CreateOpenSegs DEF KeptName
<1>6. /\ ~Constructing /\ Constructing' /\ Built = dir /\ DOMAIN Built' = DOMAIN dir
      /\ \A b \in DOMAIN dir : Built'[b] = dir[b]
  <2>1. ~Constructing /\ Constructing'
    BY <1>1 DEF Constructing, HeaderWindow
  <2>2. DOMAIN Built' = DOMAIN dir' \ {job.base}
    BY <1>1, <2>1, NextBuiltFacts
  <2> QED BY <1>4, <1>5, <2>1, <2>2, BuiltFacts, NextBuiltFacts
<1>7. \A d \in {dir, durableDir} : \A b \in DOMAIN d : files'[d[b]] = files[d[b]]
  BY <1>3
<1>8. RecoverableOK'
  <2>1. Fits(files, Built, files', Built')
    <3>1. \A b \in DOMAIN Built : files'[Built'[b]] = files[Built[b]] /\ files[Built[b]] \in File
      <4>1. \A b \in DOMAIN dir : files[dir[b]] \in File
        BY SegsType
      <4> QED BY <1>6, <1>7, <4>1
    <3> QED BY <1>6, <3>1, BetterOps DEF Fits
  <2>2. Fits(files, durableDir, files', durableDir')
    <3>1. \A b \in DOMAIN durableDir : files[durableDir[b]] \in File
      BY BuiltFacts DEF Proper
    <3> QED BY <1>1, <1>7, <3>1, BetterOps DEF Fits
  <2>3. ~TailExposed
    BY <1>1 DEF TailExposed, InWindow, HeaderWindow, CutWindow
  <2> QED BY <1>1, <2>1, <2>2, <2>3, StaysRecoverable DEF Reopens
<1>9. CleanOK'
  <2>1. Opened' => Opened
    BY <1>1, <1>4, OpenedIff, OpenedIffNext
  <2>2. ~ScanFails(NewFile) /\ NewFile.hdr = "absent"
    BY DEF ScanFails, NewFile
  <2>3. Opened => crashed = {} /\ \A b \in DOMAIN dir : ~ScanFails(files[dir[b]])
    BY <1>6 DEF Reopens, CleanOK
  <2>4. Opened' => crashed' = {} /\ \A b \in DOMAIN Built' : ~ScanFails(files'[Built'[b]])
    BY <1>1, <1>6, <1>7, <2>1, <2>3
  <2> QED BY <1>1, <1>2, <1>3, <2>2, <2>4 DEF CleanOK, HeaderWindow
<1>10. \A b \in DOMAIN dir : b < job.base /\ ((\A c \in DOMAIN dir : c <= b) => job.base <= EndOf(b))
  <2> SUFFICES ASSUME NEW b \in DOMAIN dir
               PROVE  b < job.base /\ ((\A c \in DOMAIN dir : c <= b) => job.base <= EndOf(b))
    OBVIOUS
  <2>1. job.kind \in {"roll", "cutAll"} /\ b \in Range(index)
    BY <1>4
  <2>2. /\ b <= LastBase /\ LastBase \in Range(index) /\ b \in Nat
        /\ nextLSN = Segs[LastBase] /\ LastBase \in Nat /\ nextLSN \in Nat
    BY <1>4, <2>1, IndexApart, IndexFacts
  <2>3. ASSUME \A c \in DOMAIN dir : c <= b PROVE job.base <= EndOf(b)
    <3>1. b = LastBase /\ LastBase \in DOMAIN dir
      BY <1>4, <2>1, <2>2, <2>3
    <3>2. job.base = EndOf(b)
      BY <1>4, <2>1, <2>2, <3>1 DEF Segs
    <3> QED BY <1>4, <3>2
  <2> QED BY <1>4, <2>1, <2>2, <2>3
<1>11. EndsOK'
  <2>1. \A b \in DOMAIN Built' : b < job.base /\ ((\A c \in DOMAIN Built' : c <= b) => job.base <= EndOf(b)')
    <3>1. \A b \in DOMAIN dir : EndOf(b)' = EndOf(b)
      BY <1>5, <1>7 DEF EndOf
    <3> QED BY <1>6, <1>10, <3>1
  <2>2. ASSUME Dropping' PROVE \A b \in Range(job.names), c \in Range(job.idx) : b < c
    <3>1. job.kind = "cutAll"
      BY <1>1, <2>2 DEF Dropping
    <3>2. job.names = index /\ job.idx = <<nextLSN>>
      BY <1>4, <3>1 DEF Agreement, DropPlanOK, PlacementOK, PlanOK
    <3>3. \A c \in Range(<<nextLSN>>) : c = nextLSN
      BY DEF Range
    <3> QED BY <1>4, <1>10, <3>1, <3>2, <3>3
  <2> QED BY <1>1, <2>1, <2>2 DEF EndsOK
<1> QED BY <1>1, <1>8, <1>9, <1>11, NoReading DEF Reopens

\* The header is written; recovery does not count on it yet.
LEMMA CreateHeaderReopens ==
  ASSUME Known, Known', Survival, Survival', Reopens, CreateHeader
  PROVE  Reopens'
<1> USE DEF Known
<1>1. /\ pc = "createHeader" /\ pc' = "createSync"
      /\ UNCHANGED <<dir, durableDir, job, fresh, crashed>>
      /\ files' = [files EXCEPT ![fresh].hdr = "cached"]
  BY DEF CreateHeader, hist
<1>2. HasFresh /\ fresh \in Inodes /\ files[fresh] \in File
  BY <1>1, OpenedIff DEF HasFresh, DiskTypeOK
<1>3. /\ files[fresh].hdr = "absent" /\ ~ScanFails(files[fresh])
  BY <1>1, <1>2 DEF Reopens, CleanOK
<1>4. /\ files'[fresh] = [files[fresh] EXCEPT !.hdr = "cached"]
      /\ \A i \in Inodes : i # fresh => files'[i] = files[i]
  BY <1>1, <1>2 DEF DiskTypeOK
<1>5. /\ files'[fresh].hdr = "cached" /\ files'[fresh].data = files[fresh].data
      /\ files'[fresh].junk = files[fresh].junk /\ files'[fresh].synced = files[fresh].synced
  BY <1>2, <1>4 DEF File
<1>6. \A i \in Inodes : Better(files[i], files'[i]) /\ (ScanFails(files'[i]) <=> ScanFails(files[i]))
  <2>1. Better(files[fresh], files'[fresh])
    BY <1>2, <1>3, <1>5 DEF Better, HasHeader, Whole, File
  <2>2. \A i \in Inodes : files[i] \in File
    BY DEF DiskTypeOK
  <2> QED BY <1>4, <1>5, <2>1, <2>2, BetterOps DEF ScanFails
<1>7. /\ Constructing /\ Constructing' /\ DOMAIN Built' = DOMAIN Built
      /\ \A b \in DOMAIN Built : Built'[b] = Built[b] /\ Built[b] \in Inodes
  <2>1. Constructing /\ Constructing'
    BY <1>1 DEF Constructing, HeaderWindow
  <2>2. \A b \in DOMAIN dir : dir[b] \in Inodes
    BY SegsType
  <2>3. DOMAIN Built' = DOMAIN Built
    BY <1>1, <2>1, BuiltFacts, NextBuiltFacts
  <2> QED BY <1>1, <2>1, <2>2, <2>3, BuiltFacts, NextBuiltFacts
<1>8. RecoverableOK'
  <2>1. Fits(files, Built, files', Built')
    BY <1>6, <1>7 DEF Fits, Better
  <2>2. Fits(files, durableDir, files', durableDir')
    <3>1. \A b \in DOMAIN durableDir : durableDir[b] \in Inodes
      BY NamedType
    <3> QED BY <1>1, <1>6, <3>1 DEF Fits, Better
  <2>3. ~TailExposed
    BY <1>7 DEF TailExposed
  <2> QED BY <1>1, <2>1, <2>2, <2>3, StaysRecoverable DEF Reopens
<1>9. CleanOK'
  <2>1. Opened' <=> Opened
    BY <1>1 DEF Opened
  <2>2. Opened => crashed = {} /\ \A b \in DOMAIN Built : ~ScanFails(files[Built[b]])
    BY DEF Reopens, CleanOK
  <2>3. Opened' => crashed' = {} /\ \A b \in DOMAIN Built' : ~ScanFails(files'[Built'[b]])
    BY <1>1, <1>6, <1>7, <2>1, <2>2
  <2> QED BY <1>1, <1>2, <1>3, <1>5, <1>6, <2>3 DEF CleanOK, HeaderWindow
<1>10. EndsOK'
  <2>1. \A b \in DOMAIN Built : EndOf(b)' = EndOf(b)
    <3>1. \A i \in Inodes : files'[i].data = files[i].data
      BY <1>4, <1>5
    <3> QED BY <1>1, <1>7, <3>1, BuiltFacts DEF EndOf
  <2>2. Dropping' <=> Dropping
    BY <1>1 DEF Dropping
  <2>3. \A b \in DOMAIN Built : b < job.base /\ ((\A c \in DOMAIN Built : c <= b) => job.base <= EndOf(b))
    BY <1>7 DEF Reopens, EndsOK
  <2> QED BY <1>1, <1>7, <2>1, <2>2, <2>3 DEF Reopens, EndsOK
<1> QED BY <1>1, <1>8, <1>9, <1>10, NoReading DEF Reopens

\* Only the last segment grows.
LEMMA WriteRecordReopens ==
  ASSUME Known, Known', Survival, Survival', Reopens, WriteRecord
  PROVE  Reopens'
<1> USE DEF Known
<1>1. /\ Writing /\ pc = "write" /\ pc' = "write"
      /\ files' = [files EXCEPT ![active] = Appended(ActiveFile, NewRec)]
      /\ UNCHANGED <<dir, durableDir, job, fresh, crashed>>
  BY DEF WriteRecord, Writing, hist
<1>2. /\ Opened /\ ~Dropping /\ ~HasFresh /\ job.kind = "none" /\ ~DirAhead
      /\ DOMAIN dir = Range(index) /\ active \in Inodes
  BY <1>1, ServingFacts, NotAhead, OpenedIff
<1>3. /\ LastBase \in DOMAIN dir /\ dir[LastBase] = active
      /\ \A b \in DOMAIN dir : b <= LastBase /\ b \in Nat /\ dir[b] \in Inodes /\ files[dir[b]] \in File
      /\ LastBase \in Nat
  BY <1>2, IndexFacts, IndexApart, SegsType
<1>4. NewRec \in Rec
  BY <1>1, PayloadType DEF NewRec
<1>5. files[active] \in File /\ files[active].junk = 0
  <2>1. Opened => \A b \in DOMAIN Built : ~ScanFails(files[Built[b]])
    BY DEF Reopens, CleanOK
  <2>2. Built = dir
    BY <1>1, BuiltFacts DEF Constructing, HeaderWindow
  <2> QED BY <1>2, <1>3, <2>1, <2>2, BetterOps
<1>6. /\ files'[active].hdr = files[active].hdr /\ files'[active].junk = 0
      /\ \A i \in Inodes : i # active => files'[i] = files[i]
  <2>1. NewRec.size \in Nat
    BY <1>4 DEF Rec
  <2> QED BY <1>1, <1>2, <1>5, <2>1 DEF Appended, ActiveFile, DiskTypeOK, File
<1>7. Built = dir /\ Built' = dir /\ pc \notin HeaderWindow /\ pc' \notin HeaderWindow
  BY <1>1, BuiltFacts, NextBuiltFacts DEF Constructing, HeaderWindow
<1>8. \A b \in DOMAIN dir : b # LastBase => dir[b] # active
  BY <1>3 DEF PlacementOK, NamesOK, NamedOnly
<1>9. Fits(files, dir, files', dir)
  <2>1. ASSUME NEW b \in DOMAIN dir, NEW c \in DOMAIN dir, b < c
        PROVE  Better(files[dir[b]], files'[dir[b]])
    <3>1. b # LastBase
      BY <1>3, <2>1
    <3> QED BY <1>3, <1>6, <1>8, <3>1, BetterOps
  <2>2. ASSUME NEW b \in DOMAIN dir PROVE HasHeader(files[dir[b]]) => HasHeader(files'[dir[b]])
    BY <1>3, <1>6, <2>2 DEF HasHeader
  <2> QED BY <2>1, <2>2 DEF Fits
<1>10. RecoverableOK'
  <2>1. MayLosePower => durableDir = dir
    BY <1>2 DEF Durable
  <2>2. ~TailExposed
    BY <1>2, <1>7 DEF TailExposed, InWindow
  <2> QED BY <1>1, <1>7, <1>9, <2>1, <2>2, StaysRecoverable DEF Reopens
<1>11. CleanOK'
  <2>1. crashed = {} /\ \A b \in DOMAIN dir : ~ScanFails(files[dir[b]])
    BY <1>2, <1>7 DEF Reopens, CleanOK
  <2>2. \A b \in DOMAIN dir : ~ScanFails(files'[dir[b]])
    BY <1>3, <1>6, <2>1 DEF ScanFails
  <2>3. ~HasFresh'
    BY <1>1, <1>2 DEF HasFresh
  <2> QED BY <1>1, <1>7, <2>1, <2>2, <2>3 DEF CleanOK
<1>12. ~Dropping'
  BY <1>1, <1>2 DEF Dropping
<1> QED BY <1>1, <1>7, <1>10, <1>11, <1>12, NoReading, NoEnds DEF Reopens

\* While power may fail, the files recovery finds behind the active segment and
\* the new one are whole, and so is the active one where its records are safe.
LEMMA WholeFiles ==
  ASSUME Known, Survival, MayLosePower, NEW b \in DOMAIN dir, dir[b] # fresh,
         dir[b] = active => job.kind = "roll" \/ (FsyncOnCommit /\ ~Unpublished)
  PROVE  Whole(files[dir[b]])
<1> USE DEF Known, Survival
<1>1. Synced(dir[b])
  <2>1. CASE dir[b] # active
    BY <2>1 DEF Durable
  <2>2. CASE dir[b] = active
    <3>1. Opened
      BY <2>2, OpenedIff, SegsType
    <3> QED BY <2>2, <3>1 DEF Durable
  <2> QED BY <2>1, <2>2
<1>2. /\ dir[b] \in Inodes /\ files[dir[b]].synced <= Len(files[dir[b]].data)
      /\ files[dir[b]].synced \in Nat /\ Len(files[dir[b]].data) \in Nat
  BY SegsType DEF StorageOK, File
<1> QED BY <1>1, <1>2 DEF Whole, Synced, HasUnsynced

\* The fsync of its header makes the new segment one that recovery counts on.
LEMMA CreateSyncReopens ==
  ASSUME Known, Known', Survival, Survival', Reopens, CreateSync
  PROVE  Reopens'
<1> USE DEF Known
<1>1. /\ pc = "createSync" /\ pc' = "createSyncDir"
      /\ UNCHANGED <<dir, durableDir, job, fresh, crashed, active>>
      /\ files' = [files EXCEPT ![fresh] = Fsynced(files[fresh])]
  BY DEF CreateSync, hist, mem
<1>2. /\ HasFresh /\ HasFresh' /\ fresh \in Inodes /\ files[fresh] \in File
      /\ job.kind \in {"init", "roll", "cutAll"}
      /\ job.base \in DOMAIN dir /\ dir[job.base] = fresh
  <2>1. HasFresh /\ HasFresh' /\ job.kind \in {"init", "roll", "cutAll"}
    BY <1>1 DEF HasFresh, StepsOK, Kinds
  <2> QED BY <1>1, <2>1, OpenedIff DEF DiskTypeOK, Agreement, NamedOK
<1>3. files[fresh].hdr = "cached" /\ files[fresh].junk = 0
  <2>1. files[fresh].hdr = "cached" /\ ~ScanFails(files[fresh])
    BY <1>1, <1>2 DEF Reopens, CleanOK
  <2> QED BY <1>2, <2>1, BetterOps
<1>4. /\ files'[fresh].hdr = "durable" /\ files'[fresh].junk = 0
      /\ HasHeader(files'[fresh])
      /\ \A i \in Inodes : i # fresh => files'[i] = files[i]
  <2>1. files'[fresh] = Fsynced(files[fresh])
    BY <1>1, <1>2 DEF DiskTypeOK
  <2>2. files'[fresh].hdr = "durable" /\ files'[fresh].junk = 0
    BY <1>2, <1>3, <2>1 DEF Fsynced, File
  <2> QED BY <1>1, <2>2 DEF HasHeader, DiskTypeOK
<1>5. /\ DOMAIN Built = DOMAIN dir \ {job.base} /\ \A b \in DOMAIN Built : Built[b] = dir[b]
      /\ Built' = dir /\ Constructing /\ ~Constructing'
      /\ Proper(files, Built) /\ Proper(files, durableDir)
      /\ Proper(files', dir) /\ Proper(files', durableDir)
  <2>1. Constructing /\ ~Constructing'
    BY <1>1 DEF Constructing, HeaderWindow
  <2>2. Proper(files', dir') /\ Proper(files', durableDir') /\ Built' = dir'
    BY <2>1, NextBuiltFacts
  <2> QED BY <1>1, <2>1, <2>2, BuiltFacts
<1>6. Proper(files', Built) /\ Links(Built, dir, job.base)
  <2>1. Links(Built, dir, job.base)
    BY <1>2, <1>5, JobType DEF Links
  <2>2. DOMAIN Built \subseteq Nat /\ \A b \in DOMAIN Built : b \in DOMAIN dir /\ Built[b] = dir[b]
    BY <1>5 DEF Proper
  <2> QED BY <1>5, <2>1, <2>2 DEF Proper
<1>7. \A b \in DOMAIN Built :
        /\ Built[b] \in Inodes /\ Built[b] # fresh /\ files'[Built[b]] = files[Built[b]]
        /\ files[Built[b]] \in File /\ files[Built[b]].junk = 0
  <2> SUFFICES ASSUME NEW b \in DOMAIN Built
               PROVE  /\ Built[b] \in Inodes /\ Built[b] # fresh
                      /\ files[Built[b]] \in File /\ files[Built[b]].junk = 0
    BY <1>4
  <2>1. Built[b] \in Inodes /\ files[Built[b]] \in File /\ b \in DOMAIN dir /\ b # job.base
    BY <1>5, SegsType
  <2>2. Built[b] # fresh
    BY <1>2, <1>5, <2>1 DEF PlacementOK, FreshOK, NamedOnly
  <2>3. Opened
    <3>1. CASE job.kind = "init"
      BY <1>2, <2>1, <3>1 DEF Agreement, NamedOK, PlacementOK, PlanOK
    <3>2. CASE job.kind # "init"
      BY <1>1, <3>2 DEF Opened
    <3> QED BY <3>1, <3>2
  <2>4. ~ScanFails(files[Built[b]])
    BY <2>3 DEF Reopens, CleanOK
  <2> QED BY <2>1, <2>2, <2>4, BetterOps
<1>8. \A b \in DOMAIN Built :
        /\ b < job.base /\ files'[Built[b]].junk = 0
        /\ (\A c \in DOMAIN Built : c <= b) => job.base <= b + Len(files'[Built[b]].data)
  BY <1>5, <1>7 DEF Reopens, EndsOK, EndOf
<1>9. Fits(files, Built, files', Built)
  BY <1>7, BetterOps DEF Fits
<1>10. Fits(files, durableDir, files', durableDir)
  <2>1. \A i \in Inodes : Better(files[i], files'[i])
    BY <1>1, BetterOps DEF DiskTypeOK
  <2>2. \A b \in DOMAIN durableDir : durableDir[b] \in Inodes
    BY NamedType
  <2> QED BY <2>1, <2>2 DEF Fits, Better
<1>11. RecoverableOK'
  <2> SUFFICES ASSUME NoWindow'
               PROVE  /\ Scannable(files', Built')
                      /\ MayLosePower /\ ~TailExposed' =>
                           /\ Scannable(files', durableDir')
                           /\ TailOnly(files', Built') /\ TailOnly(files', durableDir')
    BY DEF RecoverableOK, NoWindow
  <2>1. /\ Scannable(files, Built)
        /\ MayLosePower =>
             /\ Scannable(files, durableDir)
             /\ TailOnly(files, Built) /\ TailOnly(files, durableDir)
    BY <1>1, <1>5 DEF Reopens, RecoverableOK, NoWindow, TailExposed
  <2>2. /\ Scannable(files', Built)
        /\ MayLosePower =>
             /\ Scannable(files', durableDir)
             /\ TailOnly(files', Built) /\ TailOnly(files', durableDir)
    BY <1>5, <1>6, <1>9, <1>10, <2>1, FitsKeeps
  <2>3. /\ Scannable(files', dir)
        /\ TailOnly(files', Built)
             /\ (\A b \in DOMAIN Built : (\A c \in DOMAIN Built : c <= b) => Whole(files'[Built[b]]))
           => TailOnly(files', dir)
    <3>1. HasHeader(files'[dir[job.base]])
      BY <1>2, <1>4
    <3> QED BY <1>5, <1>6, <1>8, <2>2, <3>1, FitLinked
  <2>4. ASSUME MayLosePower, ~TailExposed', NEW b \in DOMAIN Built
        PROVE  Whole(files'[Built[b]])
    <3>1. b \in DOMAIN dir /\ dir[b] = Built[b]
      BY <1>5
    <3>2. dir[b] = active => job.kind = "roll" \/ (FsyncOnCommit /\ ~Unpublished)
      <4>1. CASE job.kind = "cutAll"
        <5>1. FsyncOnCommit
          BY <1>1, <1>5, <2>4, <4>1 DEF TailExposed, InWindow, CutWindow, TailMayBeLost, MayLosePower
        <5>2. ~Unpublished
          BY <1>1, <4>1 DEF Agreement, BoundsOK, Committing, Opened
        <5> QED BY <5>1, <5>2
      <4>2. CASE job.kind = "init"
        BY <1>2, <1>5, <4>2 DEF Agreement, NamedOK, PlacementOK, PlanOK
      <4> QED BY <1>2, <4>1, <4>2
    <3>3. Whole(files[dir[b]])
      BY <1>7, <2>4, <3>1, <3>2, WholeFiles
    <3> QED BY <1>7, <3>1, <3>3
  <2> QED BY <1>1, <1>5, <2>2, <2>3, <2>4
<1>12. CleanOK'
  <2>1. Opened' <=> Opened
    BY <1>1, OpenedIff, OpenedIffNext
  <2>2. ASSUME Opened PROVE crashed = {} /\ \A b \in DOMAIN dir : ~ScanFails(files'[dir[b]])
    <3>1. crashed = {} /\ \A b \in DOMAIN Built : ~ScanFails(files'[dir[b]])
      BY <1>5, <1>7, <2>2 DEF Reopens, CleanOK
    <3>2. ~ScanFails(files'[fresh])
      BY <1>4 DEF ScanFails
    <3> QED BY <1>2, <1>5, <3>1, <3>2
  <2> QED BY <1>1, <1>4, <1>5, <2>1, <2>2 DEF CleanOK, HeaderWindow, ScanFails
<1>13. EndsOK'
  <2>1. (Dropping' <=> Dropping) /\ pc' \notin HeaderWindow /\ pc' # "prune"
    BY <1>1, CreateRestKept DEF HeaderWindow
  <2> QED BY <1>1, <2>1, SameEnds DEF Reopens
<1> QED BY <1>1, <1>11, <1>12, <1>13, NoReading DEF Reopens

\* The fsync of a directory makes the names durable that are there.
LEMMA DirSyncReopens ==
  ASSUME Known, Known', Survival, Survival', Reopens, CreateSyncDir \/ PublishSync
  PROVE  Reopens'
<1> USE DEF Known
<1>1. /\ pc \in {"createSyncDir", "publishSync"} /\ pc' \in {"installRoll", "remove", "installEmpty"}
      /\ dir' = dir /\ durableDir' = dir /\ UNCHANGED <<job, fresh, crashed, active>>
      /\ files' = Collected(files, Live(dir, dir, active, fresh))
      /\ pc' = "remove" <=> job.kind \in {"cutAll", "cutRewrite"}
      /\ pc = "createSyncDir" => job.kind # "cutRewrite"
  <2>1. CASE CreateSyncDir
    <3>1. job.kind \in {"init", "roll", "cutAll"}
      BY <2>1 DEF CreateSyncDir, StepsOK, Kinds
    <3> QED BY <2>1, <3>1 DEF CreateSyncDir, hist, mem
  <2>2. CASE PublishSync
    <3>1. job.kind = "cutRewrite"
      BY <2>2 DEF PublishSync, StepsOK, Kinds
    <3> QED BY <2>2, <3>1 DEF PublishSync, hist, mem
  <2> QED BY <2>1, <2>2
<1>2. /\ HasFresh /\ fresh \in Inodes /\ files'[fresh] = files[fresh]
  <2>1. HasFresh /\ fresh \in Inodes
    BY <1>1, OpenedIff DEF HasFresh
  <2> QED BY <1>1, <2>1 DEF Collected, Live
<1>3. FilesBetter
  BY <1>1, CollectedBetter DEF Live
<1>4. pc \notin HeaderWindow /\ pc' \notin HeaderWindow /\ (TailExposed => TailExposed')
  BY <1>1 DEF HeaderWindow, CutWindow, TailExposed, InWindow, Constructing
<1>5. Opened' => Opened
  BY <1>1, OpenedIff, OpenedIffNext
<1>6. EndsOK'
  <2>1. Dropping' => Dropping
    BY <1>1 DEF Dropping
  <2> QED BY <1>1, <1>4, <2>1, SameEnds DEF Reopens
<1> QED BY <1>1, <1>2, <1>3, <1>4, <1>5, <1>6, SameDirStays, QuietStep

-----------------------------------------------------------------------------
(* The two cuts that bring in a new segment.                               *)

LEMMA ClearLeftoverReopens ==
  ASSUME Known, Known', Survival, Survival', Reopens, ClearLeftover
  PROVE  Reopens'
<1> USE DEF Known
<1>1. /\ pc = "clearLeftover" /\ pc' = "createOpen" /\ dir' = Unlink(dir, job.base)
      /\ files' = Collected(files, Live(dir', durableDir, active, fresh))
      /\ UNCHANGED <<durableDir, job, active, fresh, crashed>>
  BY DEF ClearLeftover, mem, hist
<1>2. job.base \notin DOMAIN dir /\ ~HasFresh
  BY <1>1, BaseIsFree
<1>3. SameDir(dir, dir')
  BY <1>1, <1>2 DEF Unlink, Restrict, SameDir
<1>4. FilesBetter
  BY <1>1, CollectedBetter DEF Live
<1>5. (Opened' => Opened) /\ ~HasFresh'
  BY <1>1, <1>2, OpenedIff, OpenedIffNext
<1>6. pc \notin HeaderWindow /\ pc' \notin HeaderWindow /\ ~TailExposed /\ ~Dropping'
  BY <1>1 DEF HeaderWindow, CutWindow, TailExposed, InWindow, Dropping
<1> QED BY <1>1, <1>3, <1>4, <1>5, <1>6, NoEnds, QuietStep

\* RewriteFrom fsyncs a file that decodes to its end.
LEMMA RewriteTempReopens ==
  ASSUME Known, Known', Survival, Survival', Reopens, RewriteTemp
  PROVE  Reopens'
<1> USE DEF Known
<1>1. /\ pc = "rewrite" /\ pc' = "publish" /\ SourceReadable
      /\ UNCHANGED <<dir, durableDir, job, active, crashed>>
  BY DEF RewriteTemp, mem, hist
<1>2. PICK i \in FreeInodes :
        files' = [files EXCEPT ![i] = Rewritten(Source, job.base)] /\ fresh' = i
  BY DEF RewriteTemp
<1>3. /\ i \in Inodes /\ i \notin Range(dir) \cup Range(durableDir)
      /\ files'[i] = Rewritten(Source, job.base)
      /\ \A j \in Inodes : j # i => files'[j] = files[j]
  BY <1>2 DEF FreeInodes, Live, DiskTypeOK
<1>4. FilesBetter
  <2>1. Range(dir) \cup Range(durableDir) \subseteq Inodes
    BY DEF DiskTypeOK
  <2> QED BY <1>1, <1>3, <2>1, UsualBetter
<1>5. files'[fresh'].junk = 0 /\ files'[fresh'].hdr = "durable"
  BY <1>2, <1>3 DEF Rewritten
<1>6. pc \notin HeaderWindow /\ pc' \notin HeaderWindow /\ ~TailExposed
  BY <1>1 DEF HeaderWindow, CutWindow, TailExposed, InWindow
<1>7. Opened' => Opened
  BY <1>1, OpenedIff, OpenedIffNext
<1>8. ~Dropping'
  BY <1>1 DEF Dropping
<1> QED BY <1>1, <1>4, <1>5, <1>6, <1>7, <1>8, SameDirStays, NoEnds, QuietStep

LEMMA RewriteTempFailsReopens ==
  ASSUME Known, Known', Survival, Survival', Reopens, HarmlessFailures, RewriteTempFails
  PROVE  Reopens'
<1> USE DEF Known
<1>1. /\ pc = "rewrite" /\ pc' = "idle" /\ job' = NoJob
      /\ UNCHANGED <<files, dir, durableDir, active, crashed>>
  BY NoFault DEF HarmlessCalls, RewriteTempFails, JobFails, mem, hist
<1>2. /\ pc \notin HeaderWindow /\ pc' \notin HeaderWindow /\ ~TailExposed /\ ~Dropping'
      /\ ~HasFresh'
  BY <1>1 DEF HeaderWindow, CutWindow, TailExposed, InWindow, Dropping, HasFresh
<1>3. Opened' => Opened
  BY <1>1, OpenedIff, OpenedIffNext
<1> QED BY <1>1, <1>2, <1>3, NoEnds, QuietDisk

\* The replacement that is dropped was never named.
LEMMA PublishFailsReopens ==
  ASSUME Known, Known', Survival, Survival', Reopens, HarmlessFailures, PublishFails
  PROVE  Reopens'
<1> USE DEF Known
<1>1. /\ pc = "publish" /\ pc' = "idle" /\ job' = NoJob
      /\ files' = Collected(files, Live(dir', durableDir', active, Nil))
      /\ UNCHANGED <<dir, durableDir, active, crashed>>
  BY NoFault DEF HarmlessCalls, PublishFails, JobFails, mem, hist
<1>2. FilesBetter
  BY <1>1, CollectedBetter DEF Live
<1>3. /\ pc \notin HeaderWindow /\ pc' \notin HeaderWindow /\ ~TailExposed /\ ~Dropping'
      /\ ~HasFresh'
  BY <1>1 DEF HeaderWindow, CutWindow, TailExposed, InWindow, Dropping, HasFresh
<1>4. Opened' => Opened
  BY <1>1, OpenedIff, OpenedIffNext
<1> QED BY <1>1, <1>2, <1>3, <1>4, NoEnds, SameDirStays, QuietStep

\* The replacement overlaps the segment it replaces and ends where that one does.
LEMMA PublishRewriteReopens ==
  ASSUME Known, Known', Survival, Survival', Reopens, PublishRewrite
  PROVE  Reopens'
<1> USE DEF Known
<1> DEFINE base == job.base
           low == index[Len(job.names)]
<1>1. /\ pc = "publish" /\ pc' = "publishSync"
      /\ files' = Collected(files, Live(dir', durableDir, active, fresh))
      /\ UNCHANGED <<durableDir, job, batch, fresh, active, nextLSN, lastLSN, crashed>>
  BY DEF PublishRewrite, mem, hist
<1>2. /\ job.kind = "cutRewrite" /\ Opened /\ ~Dropping /\ ~DirAhead /\ HasFresh
      /\ fresh \in Inodes /\ ~Committing
  BY <1>1, WriterOpened, NotAhead, OpenedIff DEF StepsOK, Kinds, Dropping, HasFresh, Committing
<1>3. /\ Len(job.names) \in 1..Len(index) /\ base \notin DOMAIN dir /\ DOMAIN dir = Range(index)
      /\ DOMAIN dir' = DOMAIN dir \cup {base} /\ dir'[base] = fresh
      /\ Segs'[base] = Segs[low]
      /\ \A c \in DOMAIN dir : KeptName(c) /\ Segs'[c] = Segs[c]
      /\ \A k \in 1..Len(index) : /\ k <= Len(job.names) => index[k] < base
                                  /\ k > Len(job.names) => base < index[k]
      /\ \A c \in Range(job.names) : c \in Nat /\ c < base
      /\ \A c \in Range(job.idx) : c \in Nat /\ base <= c
  BY PublishRewriteSegs
<1>4. /\ low \in Range(index) /\ low < base /\ base \in Nat /\ low \in DOMAIN dir /\ low \in Nat
      /\ base < Segs[low]
  <2>1. Len(job.names) <= Len(job.names) /\ Len(job.names) \in DOMAIN index
    BY <1>2, <1>3, IndexFacts
  <2>2. base < Segs[low]
    BY <1>1 DEF Agreement, DropPlanOK
  <2> QED BY <1>2, <1>3, <2>1, <2>2, JobType, SegsType DEF Range
<1>5. \A b \in DOMAIN dir : b <= low \/ base < b
  <2> SUFFICES ASSUME NEW b \in DOMAIN dir PROVE b <= low \/ base < b
    OBVIOUS
  <2>1. PICK k \in 1..Len(index) : b = index[k]
    BY <1>2, <1>3, IndexFacts DEF Range
  <2>2. CASE k > Len(job.names)
    BY <1>3, <2>1, <2>2
  <2>3. CASE k = Len(job.names)
    BY <1>4, <2>1, <2>3
  <2>4. CASE k < Len(job.names)
    <3>1. k \in DOMAIN index /\ Len(job.names) \in DOMAIN index
      BY <1>2, <1>3, <2>1, IndexFacts
    <3>2. index[k] < low
      BY <1>2, <2>4, <3>1, IndexFacts DEF Ascending
    <3> QED BY <1>4, <2>1, <3>2, SegsType
  <2> QED BY <1>3, <2>1, <2>2, <2>3, <2>4
<1> HIDE DEF low, base
<1>6. Links(dir, dir', base)
  BY <1>3, <1>4 DEF Links, KeptName
<1>7. FilesBetter
  BY <1>1, CollectedBetter DEF Live
<1>8. /\ pc \notin HeaderWindow /\ pc' \notin HeaderWindow /\ Built = dir /\ Built' = dir'
      /\ ~TailExposed
      /\ Proper(files, dir) /\ Proper(files, durableDir)
      /\ Proper(files', dir') /\ Proper(files', durableDir)
  <2>1. pc \notin HeaderWindow /\ pc' \notin HeaderWindow /\ ~TailExposed
    BY <1>1 DEF HeaderWindow, CutWindow, TailExposed, InWindow
  <2> QED BY <1>1, <2>1, BuiltFacts, NextBuiltFacts DEF Constructing
<1>9. Proper(files', dir)
  BY <1>6, <1>8 DEF Links, Proper
<1>10. /\ files'[fresh] = files[fresh] /\ files[fresh] \in File
       /\ \A b \in DOMAIN dir : files'[dir[b]] = files[dir[b]] /\ files[dir[b]] \in File
       /\ \A b \in DOMAIN durableDir : files'[durableDir[b]] = files[durableDir[b]]
  <2>1. /\ \A b \in DOMAIN dir : dir[b] \in Inodes /\ dir[b] \in Range(dir') /\ files[dir[b]] \in File
        /\ \A b \in DOMAIN durableDir : durableDir[b] \in Inodes /\ durableDir[b] \in Range(durableDir)
    <3>1. \A b \in DOMAIN dir : dir[b] \in Inodes /\ files[dir[b]] \in File
      BY SegsType
    <3>2. \A b \in DOMAIN durableDir : durableDir[b] \in Inodes
      BY NamedType
    <3> QED BY <1>6, <3>1, <3>2 DEF Links, Range
  <2>2. fresh \in Range(dir')
    BY <1>3 DEF Range
  <2>3. files[fresh] \in File
    BY <1>2 DEF DiskTypeOK
  <2> QED BY <1>1, <1>2, <2>1, <2>2, <2>3 DEF Collected, Live
<1>11. /\ files[fresh].hdr = "durable" /\ files[fresh].junk = 0 /\ Whole(files[fresh])
       /\ \A b \in DOMAIN dir : files[dir[b]].junk = 0
       /\ crashed = {}
  <2>1. ~ScanFails(files[fresh]) /\ files[fresh].hdr = "durable"
    BY <1>2, <1>8 DEF Reopens, CleanOK
  <2>2. crashed = {} /\ \A b \in DOMAIN dir : ~ScanFails(files[dir[b]])
    BY <1>2, <1>8 DEF Reopens, CleanOK
  <2>3. Whole(files[fresh])
    BY <1>1 DEF Survival, RewriteOK
  <2> QED BY <1>10, <2>1, <2>2, <2>3, BetterOps
<1>12. low + Len(files'[dir[low]].data) = base + Len(files'[dir'[base]].data)
  <2>1. Segs'[base] = base + Len(files'[dir'[base]].data)
    BY <1>3, SegNext
  <2>2. Segs[low] = low + Len(files[dir[low]].data)
    BY <1>4, SegsType
  <2> QED BY <1>3, <1>4, <1>10, <2>1, <2>2
<1>13. base < low + Len(files'[dir[low]].data)
  <2>1. Segs[low] = low + Len(files[dir[low]].data)
    BY <1>4, SegsType
  <2> QED BY <1>4, <1>10, <2>1
<1>14. RecoverableOK'
  <2>1. /\ Scannable(files, dir)
        /\ MayLosePower =>
             /\ Scannable(files, durableDir)
             /\ TailOnly(files, dir) /\ TailOnly(files, durableDir)
    BY <1>8, <1>11 DEF Reopens, RecoverableOK
  <2>2. Fits(files, dir, files', dir) /\ Fits(files, durableDir, files', durableDir)
    <3>1. \A b \in DOMAIN durableDir : files[durableDir[b]] \in File
      BY <1>8 DEF Proper
    <3> QED BY <1>10, <3>1, BetterOps DEF Fits
  <2>3. /\ Scannable(files', dir)
        /\ MayLosePower =>
             /\ Scannable(files', durableDir)
             /\ TailOnly(files', dir) /\ TailOnly(files', durableDir)
    BY <1>8, <1>9, <2>1, <2>2, FitsKeeps
  <2>4. /\ HasHeader(files'[dir'[base]]) /\ files'[dir'[base]].junk = 0
        /\ Whole(files'[dir'[base]])
        /\ \A b \in DOMAIN dir : files'[dir[b]].junk = 0
    BY <1>3, <1>10, <1>11 DEF HasHeader
  <2>5. /\ Scannable(files', dir')
        /\ TailOnly(files', dir) /\ Whole(files'[dir[low]]) => TailOnly(files', dir')
    BY <1>4, <1>5, <1>6, <1>8, <1>9, <1>12, <1>13, <2>3, <2>4, FitRewritten
  <2>6. ASSUME MayLosePower, ~TailExposed' PROVE Whole(files'[dir[low]])
    <3>1. FsyncOnCommit
      BY <1>1, <1>2, <1>8, <2>6
      DEF TailExposed, Constructing, InWindow, CutWindow, TailMayBeLost, MayLosePower
    <3>2. ~Unpublished
      BY <1>2 DEF Agreement, BoundsOK
    <3>3. dir[low] # fresh
      BY <1>2, <1>3, <1>4 DEF PlacementOK, FreshOK, NamedOnly, base
    <3> QED BY <1>4, <1>10, <2>6, <3>1, <3>2, <3>3, WholeFiles
  <2> QED BY <1>1, <1>8, <2>3, <2>5, <2>6 DEF RecoverableOK
<1>15. CleanOK'
  <2>1. \A b \in DOMAIN dir' : ~ScanFails(files'[dir'[b]])
    BY <1>3, <1>6, <1>10, <1>11 DEF Links, ScanFails
  <2>2. ~ScanFails(files'[fresh])
    BY <1>10, <1>11 DEF ScanFails
  <2> QED BY <1>1, <1>8, <1>10, <1>11, <2>1, <2>2 DEF CleanOK
<1>16. EndsOK'
  <2>1. \A b \in Range(job.names), c \in Range(job.idx) : b < c
    BY <1>3, <1>4
  <2> QED BY <1>1, <1>8, <2>1 DEF EndsOK, Constructing
<1> QED BY <1>1, <1>14, <1>15, <1>16, NoReading DEF Reopens

-----------------------------------------------------------------------------
(* Deletions.                                                              *)

\* What recovery has collected it can still read.
LEMMA StillReads ==
  ASSUME Known, Known', ReadOK, FilesBetter, job'.idx = job.idx, pc' # "scan",
         pc' = "prune" =>
           pc = "prune" /\ \A b \in Range(job.idx) : b \in DOMAIN dir' /\ dir'[b] = dir[b]
  PROVE  ReadOK'
<1> SUFFICES ASSUME pc' = "prune", NEW k \in DOMAIN job.idx
             PROVE  HasHeader(files'[dir'[job.idx[k]]]) /\ ~ScanFails(files'[dir'[job.idx[k]]])
  BY DEF ReadOK, OnDisk
<1>1. /\ job.idx[k] \in DOMAIN dir' /\ dir'[job.idx[k]] = dir[job.idx[k]]
      /\ dir'[job.idx[k]] \in Range(dir') /\ dir'[job.idx[k]] \in Inodes
      /\ HasHeader(files[dir[job.idx[k]]]) /\ ~ScanFails(files[dir[job.idx[k]]])
  BY DEF Range, ReadOK, OnDisk, Known, DiskTypeOK
<1>2. files[dir[job.idx[k]]] \in File /\ files'[dir'[job.idx[k]]] \in File
  BY <1>1 DEF Known, DiskTypeOK
<1>3. Better(files[dir[job.idx[k]]], files'[dir[job.idx[k]]])
  BY <1>1 DEF FilesBetter
<1> QED BY <1>1, <1>2, <1>3, BetterOps DEF Better

\* What is deleted lies at an end of the directory.
LEMMA DeletedAtEnd ==
  ASSUME Known, EndsOK, RemoveFile, NEW x, x = Head(job.names)
  PROVE  (\A b \in DOMAIN dir : x <= b) \/ (\A b \in DOMAIN dir : b <= x)
<1> USE DEF Known
<1> DEFINE kept == IF pc = "reconcile" THEN job.paths ELSE Range(job.idx)
<1>1. pc \in {"remove", "reconcile", "prune"} /\ job.names # << >> /\ ~job.unlinked
  BY DEF RemoveFile, Deleting
<1>2. /\ Ascending(job.names) /\ DOMAIN dir = Range(job.names) \cup kept
      /\ (Dropping <=> pc = "remove")
  BY <1>1, DeletingFacts DEF Pending
<1>3. /\ job.names \in Seq(Nat) /\ Len(job.names) \in Nat /\ DOMAIN job.names = 1..Len(job.names)
      /\ 1 \in DOMAIN job.names /\ x = job.names[1] /\ x \in Range(job.names) /\ x \in Nat
  <2>1. job.names \in Seq(Nat) /\ job.names # << >> /\ Head(job.names) = job.names[1]
    BY <1>1, JobType
  <2>2. /\ Len(job.names) \in Nat /\ DOMAIN job.names = 1..Len(job.names)
        /\ Len(job.names) > 0
    BY <2>1, LastElement
  <2> QED BY <2>1, <2>2 DEF Range
<1>4. \A b \in Range(job.names) : x <= b
  <2> SUFFICES ASSUME NEW k \in DOMAIN job.names PROVE x <= job.names[k]
    BY DEF Range
  <2>1. k = 1 \/ 1 < k
    BY <1>3
  <2>2. 1 < k => job.names[1] < job.names[k]
    BY <1>2, <1>3 DEF Ascending
  <2>3. job.names[k] \in Nat
    BY <1>3
  <2> QED BY <1>3, <2>1, <2>2, <2>3
<1>5. CASE pc = "prune"
  BY <1>3, <1>5 DEF EndsOK
<1>6. CASE pc = "remove"
  <2>1. \A c \in Range(job.idx) : x < c
    BY <1>2, <1>3, <1>6 DEF EndsOK
  <2>2. \A c \in Range(job.idx) : c \in Nat
    BY JobType DEF Range
  <2>3. DOMAIN dir = Range(job.names) \cup Range(job.idx)
    BY <1>2, <1>6
  <2>4. \A c \in Range(job.idx) : x <= c
    BY <1>3, <2>1, <2>2
  <2> QED BY <1>4, <2>3, <2>4
<1>7. CASE pc = "reconcile"
  <2>1. \A c \in job.paths : x < c /\ c \in Nat
    BY <1>3, <1>7, JobType DEF RecoveryOK, ReconcileOK
  <2>2. DOMAIN dir = Range(job.names) \cup job.paths
    BY <1>2, <1>7
  <2>3. \A c \in job.paths : x <= c
    BY <1>3, <2>1
  <2> QED BY <1>4, <2>2, <2>3
<1> QED BY <1>1, <1>5, <1>6, <1>7

LEMMA RemoveFileReopens ==
  ASSUME Known, Known', Survival, Survival', Reopens, RemoveFile
  PROVE  Reopens'
<1> USE DEF Known
<1> DEFINE x == Head(job.names)
           kept == IF pc = "reconcile" THEN job.paths ELSE Range(job.idx)
<1>1. /\ pc \in {"remove", "reconcile", "prune"} /\ pc' = pc
      /\ files' = Collected(files, Live(dir', durableDir, active, fresh))
      /\ job' = [job EXCEPT !.unlinked = TRUE]
      /\ UNCHANGED <<durableDir, fresh, active, crashed>>
  BY DEF RemoveFile, Deleting, mem, hist
<1>2. /\ job'.names = job.names /\ job'.idx = job.idx /\ job'.paths = job.paths
      /\ job'.kind = job.kind /\ job'.base = job.base
  BY <1>1 DEF ControlTypeOK
<1>3. x \in DOMAIN dir /\ Unlinks(dir, dir', x) /\ kept \subseteq DOMAIN dir'
  BY RemoveFileDispensable
<1>4. (\A b \in DOMAIN dir : x <= b) \/ (\A b \in DOMAIN dir : b <= x)
  BY DeletedAtEnd DEF Reopens
<1> HIDE DEF x
<1>5. FilesBetter
  BY <1>1, CollectedBetter DEF Live
<1>6. /\ pc \notin HeaderWindow /\ pc' \notin HeaderWindow /\ Built = dir /\ Built' = dir'
      /\ Proper(files, dir) /\ Proper(files, durableDir)
      /\ Proper(files', dir') /\ Proper(files', durableDir)
      /\ (TailExposed <=> TailExposed')
  <2>1. pc \notin HeaderWindow /\ pc' \notin HeaderWindow
    BY <1>1 DEF HeaderWindow
  <2>2. TailExposed <=> TailExposed'
    BY <1>1, <1>2, <2>1 DEF TailExposed, Constructing, InWindow, TailMayBeLost, FsyncOnCommit
  <2> QED BY <1>1, <2>1, <2>2, BuiltFacts, NextBuiltFacts DEF Constructing
<1>7. /\ Proper(files, dir')
      /\ \A b \in DOMAIN dir' : b \in DOMAIN dir /\ dir'[b] = dir[b]
  BY <1>3, <1>6 DEF Unlinks, Proper
<1>8. /\ Fits(files, dir', files', dir')
      /\ Fits(files, durableDir, files', durableDir)
  BY <1>1, <1>5 DEF Fits, Better, FilesBetter, Range
<1>9. RecoverableOK'
  <2>1. /\ Scannable(files, dir) => Scannable(files', dir')
        /\ TailOnly(files, dir) => TailOnly(files', dir')
    BY <1>3, <1>4, <1>6, <1>7, <1>8, FitUnlinked, FitsKeeps
  <2>2. /\ Scannable(files, durableDir) => Scannable(files', durableDir)
        /\ TailOnly(files, durableDir) => TailOnly(files', durableDir)
    BY <1>6, <1>8, FitsKeeps
  <2> QED BY <1>1, <1>6, <2>1, <2>2 DEF Reopens, RecoverableOK
<1>10. CleanOK'
  <2>1. Opened' <=> Opened
    BY <1>1, OpenedIff, OpenedIffNext
  <2>2. ASSUME Opened, NEW b \in DOMAIN dir' PROVE ~ScanFails(files'[dir'[b]])
    <3>1. ~ScanFails(files[dir[b]])
      BY <1>6, <1>7, <2>2 DEF Reopens, CleanOK
    <3>2. Better(files[dir'[b]], files'[dir'[b]])
      BY <1>5 DEF FilesBetter, Range
    <3>3. files[dir[b]] \in File /\ files'[dir'[b]] \in File
      BY <1>6, <1>7 DEF Proper
    <3> QED BY <1>7, <3>1, <3>2, <3>3, BetterOps DEF Better
  <2>3. ASSUME HasFresh' PROVE ~ScanFails(files'[fresh]) /\ files'[fresh].hdr = "durable"
    <3>1. HasFresh /\ fresh \in Inodes
      BY <1>1, <2>3, OpenedIff, OpenedIffNext
    <3>2. files'[fresh] = files[fresh]
      BY <1>1, <3>1 DEF Collected, Live
    <3> QED BY <1>6, <3>1, <3>2 DEF Reopens, CleanOK
  <2>4. pc' # "createHeader" /\ pc' # "createSync"
    BY <1>1
  <2> QED BY <1>1, <1>6, <2>1, <2>2, <2>3, <2>4 DEF Reopens, CleanOK
<1>11. ReadOK'
  <2>1. pc' = "prune" => pc = "prune" /\ \A b \in Range(job.idx) : b \in DOMAIN dir' /\ dir'[b] = dir[b]
    BY <1>1, <1>3, <1>7
  <2> QED BY <1>1, <1>2, <1>5, <2>1, StillReads DEF Reopens
<1>12. EndsOK'
  <2>1. Dropping' => Dropping
    BY <1>1, <1>2 DEF Dropping
  <2> QED BY <1>1, <1>2, <1>6, <1>7, <2>1, SameEnds DEF Reopens
<1> QED BY <1>9, <1>10, <1>11, <1>12 DEF Reopens

LEMMA SyncRemovalReopens ==
  ASSUME Known, Known', Survival, Survival', Reopens, SyncRemoval
  PROVE  Reopens'
<1> USE DEF Known
<1>1. /\ pc \in {"remove", "reconcile", "prune"} /\ pc' = pc /\ dir' = dir /\ durableDir' = dir
      /\ files' = Collected(files, Live(dir, dir, active, fresh)) /\ job.names # << >>
      /\ job' = [job EXCEPT !.unlinked = FALSE, !.names = Tail(job.names)]
      /\ UNCHANGED <<fresh, active, crashed>>
  BY DEF SyncRemoval, Deleting, mem, hist
<1>2. /\ job'.names = Tail(job.names) /\ job'.idx = job.idx
      /\ job'.kind = job.kind /\ job'.base = job.base
  BY <1>1 DEF ControlTypeOK
<1>3. FilesBetter
  BY <1>1, CollectedBetter DEF Live
<1>4. pc \notin HeaderWindow /\ pc' \notin HeaderWindow /\ (TailExposed => TailExposed')
  <2>1. pc \notin HeaderWindow /\ pc' \notin HeaderWindow
    BY <1>1 DEF HeaderWindow
  <2> QED BY <1>1, <1>2, <2>1 DEF TailExposed, Constructing, InWindow, TailMayBeLost, FsyncOnCommit
<1>5. (Opened' <=> Opened) /\ (HasFresh' <=> HasFresh)
  BY <1>1, OpenedIff, OpenedIffNext
<1>6. HasFresh => files'[fresh] = files[fresh]
  BY <1>1, OpenedIff DEF Collected, Live
<1>7. RecoverableOK'
  BY <1>1, <1>3, <1>4, SameDirStays, SameNamesRecoverable DEF Reopens
<1>8. CleanOK'
  BY <1>1, <1>3, <1>4, <1>5, <1>6, SameDirStays, SameNamesClean DEF Reopens
<1>9. ReadOK'
  <2>1. pc = "prune" => Range(job.idx) \subseteq DOMAIN dir
    BY DEF RecoveryOK, PruneOK
  <2> QED BY <1>1, <1>2, <1>3, <2>1, StillReads DEF Reopens
<1>10. EndsOK'
  <2>1. Range(job'.names) \subseteq Range(job.names)
    BY <1>1, <1>2, TailAscending, DeletingFacts, JobType
  <2>2. Dropping' => Dropping
    BY <1>1, <1>2 DEF Dropping
  <2> QED BY <1>1, <1>2, <1>4, <2>1, <2>2, SameEnds DEF Reopens
<1> QED BY <1>7, <1>8, <1>9, <1>10 DEF Reopens

\* In an open log that is not being changed all but the last segment are whole.
LEMMA NextTailOnly ==
  ASSUME Known', Survival', MayLosePower', Opened', ~Dropping', ~HasFresh'
  PROVE  TailOnly(files', dir')
<1> SUFFICES ASSUME NEW b \in DOMAIN dir', NEW c \in DOMAIN dir', b < c
             PROVE  Whole(files'[dir'[b]])
  BY DEF TailOnly
<1>1. /\ index' \in Seq(Nat) /\ index' # << >> /\ Ascending(index') /\ DOMAIN dir' = Range(index')
      /\ NamedOnly(active, LastBase)' /\ fresh' \notin Inodes
      /\ files' \in [Inodes -> File] /\ active' \in Inodes
      /\ \A x \in DOMAIN dir' : dir'[x] \in Inodes
  <2>1. \A x \in DOMAIN dir' : dir'[x] \in Inodes
    BY DEF Known, DiskTypeOK, Range
  <2>2. DOMAIN dir' = Range(index')
    BY DEF Known, Agreement, NamedOK
  <2>3. Ascending(index') /\ NamedOnly(active, LastBase)'
    BY DEF Known, PlacementOK, ActiveOK
  <2>4. index' \in Seq(Nat) /\ index' # << >> /\ active' \in Inodes
    BY OpenedIffNext DEF Known, StepsOK, MemTypeOK, Opened
  <2>5. fresh' \notin Inodes
    BY OpenedIffNext DEF Known
  <2>6. files' \in [Inodes -> File]
    BY DEF Known, DiskTypeOK
  <2> QED BY <2>1, <2>2, <2>3, <2>4, <2>5, <2>6
<1>2. dir'[b] # active'
  <2>1. PICK n \in Nat : n = Len(index') /\ n > 0 /\ DOMAIN index' = 1..n
    BY <1>1, LastElement
  <2>2. PICK j, k \in 1..n : b = index'[j] /\ c = index'[k]
    BY <1>1, <2>1 DEF Range
  <2>3. b \in Nat /\ c \in Nat /\ index'[n] \in Nat
    BY <1>1, <2>1, <2>2
  <2>4. k = n \/ index'[k] < index'[n]
    BY <1>1, <2>1, <2>2 DEF Ascending
  <2>5. b # index'[n]
    BY <2>2, <2>3, <2>4
  <2> QED BY <1>1, <2>1, <2>5 DEF NamedOnly, LastBase
<1>3. ~HasUnsynced(files'[dir'[b]])
  BY <1>1, <1>2 DEF Known, Durable, Synced
<1>4. files'[dir'[b]] \in File /\ files'[dir'[b]].synced <= Len(files'[dir'[b]].data)
  BY <1>1 DEF Survival, StorageOK
<1> QED BY <1>3, <1>4 DEF Whole, HasUnsynced, File

LEMMA FinishReopens ==
  ASSUME Known, Known', Survival, Survival', Reopens,
         FinishTruncate \/ FinishCutBelow \/ FinishCutRewrite \/ FinishCutEverything
  PROVE  Reopens'
<1> USE DEF Known
<1>1. /\ pc = "remove" /\ job.names = << >>
      /\ Installed(IF ReplacesActive THEN fresh ELSE active,
                   IF job.kind = "cutAll" THEN 0 ELSE job.idx[1])
  BY FinishInstalls
<1>2. Opened /\ Opened'
  BY <1>1, InstalledKept
<1>3. /\ pc' = "idle" /\ job' = NoJob /\ UNCHANGED <<dir, durableDir, crashed>>
      /\ files' = Collected(files, Live(dir, durableDir, active', Nil))
  BY <1>1 DEF Installed
<1>4. FilesBetter
  BY <1>3, CollectedBetter DEF Live
<1>5. /\ pc \notin HeaderWindow /\ pc' \notin HeaderWindow /\ Built = dir /\ Built' = dir
      /\ Proper(files, dir) /\ Proper(files', dir)
      /\ ~HasFresh' /\ ~Dropping'
  <2>1. pc \notin HeaderWindow /\ pc' \notin HeaderWindow /\ ~HasFresh' /\ ~Dropping'
    BY <1>1, <1>3 DEF HeaderWindow, HasFresh, Dropping, NoJob
  <2> QED BY <1>3, <2>1, BuiltFacts, NextBuiltFacts DEF Constructing
<1>6. RecoverableOK'
  <2>1. Scannable(files, dir)
    BY <1>2, <1>5 DEF Reopens, RecoverableOK, CleanOK
  <2>2. Fits(files, dir, files', dir)
    BY <1>3, <1>4 DEF Fits, Better, FilesBetter, Range
  <2>3. Scannable(files', dir)
    BY <1>5, <2>1, <2>2, FitsKeeps
  <2>4. ASSUME MayLosePower PROVE durableDir = dir /\ TailOnly(files', dir)
    <3>1. durableDir = dir
      BY <1>1, <2>4, NotAhead DEF Durable
    <3>2. MayLosePower'
      BY <2>4 DEF MayLosePower
    <3> QED BY <1>2, <1>3, <1>5, <3>1, <3>2, NextTailOnly
  <2> QED BY <1>3, <1>5, <2>3, <2>4 DEF RecoverableOK
<1>7. CleanOK'
  BY <1>2, <1>3, <1>4, <1>5, SameDirStays, SameNamesClean DEF Reopens
<1> QED BY <1>3, <1>5, <1>6, <1>7, NoReading, NoEnds DEF Reopens

-----------------------------------------------------------------------------
(* Recovery.                                                               *)

\* A step that only reads.
LEMMA ReadingKeeps ==
  ASSUME Known, Known', Survival, Survival', Reopens,
         pc \in {"closed", "scan", "reconcile", "prune"}, pc' \in {"closed", "createOpen", "scan", "reconcile"},
         FilesBetter, dir' = dir, durableDir' \in {dir, durableDir},
         UNCHANGED <<active, fresh, crashed>>,
         job'.kind \in {"none", "init", "recover"}, ReadOK'
  PROVE  Reopens'
<1> USE DEF Known
<1>2. /\ pc \notin HeaderWindow /\ pc' \notin HeaderWindow /\ ~TailExposed /\ ~Dropping'
  BY DEF HeaderWindow, CutWindow, TailExposed, InWindow, Dropping
<1>3. (Opened' => Opened) /\ ~HasFresh'
  BY OpenedIff, OpenedIffNext, RecoveringFacts
<1>4. RecoverableOK' /\ CleanOK'
  BY <1>2, <1>3, SameDirStays, SameNamesRecoverable, SameNamesClean DEF Reopens
<1>5. EndsOK'
  BY <1>2, NoEnds
<1> QED BY <1>4, <1>5 DEF Reopens

\* What recovery collects has a header, and all of it but the last decodes.
LEMMA ScanSegmentReads ==
  ASSUME Known, Survival, Reopens, ScanSegment
  PROVE  ReadOK'
<1> USE DEF Known
<1>1. /\ Scanning /\ pc = "scan" /\ ~Unrecoverable /\ ~Overlaps
      /\ job' = [job EXCEPT !.paths = job.paths \ {Path}, !.idx = Append(job.idx, Path),
                            !.expected = Path + ScanRecords(OnDisk(Path))]
      /\ UNCHANGED <<files, dir, pc>>
  BY DEF ScanSegment, Scanning, disk
<1>2. job'.idx = Append(job.idx, Path) /\ job'.paths = job.paths \ {Path}
  BY <1>1 DEF ControlTypeOK
<1>3. /\ Path \in Nat /\ Path \in DOMAIN dir /\ OnDisk(Path) \in File /\ job.idx \in Seq(Nat)
      /\ Len(job.idx) \in Nat /\ job.paths # {}
  BY <1>1, PathType, JobType DEF Scanning
<1>4. /\ DOMAIN job'.idx = 1..(Len(job.idx) + 1) /\ job'.idx[Len(job.idx) + 1] = Path
      /\ Len(job'.idx) = Len(job.idx) + 1
      /\ \A k \in 1..Len(job.idx) : job'.idx[k] = job.idx[k] /\ k \in DOMAIN job.idx
  BY <1>2, <1>3
<1>5. HasHeader(OnDisk(Path))
  <2>1. OnDisk(Path).hdr \in {"cached", "durable"}
    BY <1>1, <1>3 DEF Unrecoverable, File
  <2>2. MayLosePower => OnDisk(Path).hdr # "cached"
    <3>1. dir[Path] \notin {active, fresh}
      BY <1>1, <1>3, OpenedIff, RecoveringFacts, SegsType
    <3> QED BY <1>3, <3>1 DEF Durable, Synced, HasUnsynced, OnDisk
  <2> QED BY <2>1, <2>2 DEF HasHeader
<1>6. ScanFails(OnDisk(Path)) => job'.paths = {}
  BY <1>1, <1>2 DEF Unrecoverable, IsFinal
<1>7. \A k \in 1..Len(job.idx) : HasHeader(OnDisk(job.idx[k])) /\ ~ScanFails(OnDisk(job.idx[k]))
  BY <1>1, <1>3, <1>4 DEF Reopens, ReadOK
<1> SUFFICES ASSUME NEW k \in DOMAIN job'.idx
             PROVE  /\ HasHeader(OnDisk(job'.idx[k]))
                    /\ ScanFails(OnDisk(job'.idx[k])) => job'.paths = {} /\ k = Len(job'.idx)
  BY <1>1 DEF ReadOK, OnDisk
<1>8. CASE k = Len(job.idx) + 1
  BY <1>4, <1>5, <1>6, <1>8
<1>9. CASE k \in 1..Len(job.idx)
  BY <1>4, <1>7, <1>9
<1> QED BY <1>3, <1>4, <1>8, <1>9

LEMMA ReadingReopens ==
  ASSUME Known, Known', Survival, Survival', Reopens,
         OpenDir \/ ScanSegment \/ OpenCorrupt \/ Reconcile \/ Reconciled
  PROVE  Reopens'
<1> USE DEF Known
<1>1. /\ pc \in {"closed", "scan", "reconcile", "prune"}
      /\ pc' \in {"closed", "createOpen", "scan", "reconcile"}
      /\ dir' = dir /\ durableDir' \in {dir, durableDir} /\ UNCHANGED <<active, fresh, crashed>>
  BY DEF OpenDir, ScanSegment, OpenCorrupt, Reconcile, Reconciled, Closed, Scanning, OpenFails,
         disk, mem, hist
<1>0. FilesBetter
  <2>1. files' = files \/ files' = Collected(files, Live(dir, durableDir', active, fresh))
    BY DEF OpenDir, ScanSegment, OpenCorrupt, Reconcile, Reconciled, disk
  <2>2. Range(dir') \cup Range(durableDir') \subseteq Inodes
    BY DEF DiskTypeOK
  <2>3. \A i \in Range(dir') \cup Range(durableDir') : files'[i] = files[i]
    BY <1>1, <2>1, <2>2 DEF Collected, Live
  <2> QED BY <2>3, UsualBetter
<1>2. job'.kind \in {"none", "init", "recover"}
  <2>1. CASE OpenDir
    BY <2>1 DEF OpenDir, NoJob
  <2>2. CASE OpenCorrupt
    BY <2>2 DEF OpenCorrupt, OpenFails, NoJob
  <2>3. CASE ScanSegment \/ Reconcile \/ Reconciled
    <3>1. job'.kind = job.kind
      BY <2>3 DEF ScanSegment, Reconcile, Reconciled, ControlTypeOK
    <3>2. job.kind = "recover"
      BY <2>3, RecoveringFacts DEF ScanSegment, Reconcile, Reconciled, Scanning
    <3> QED BY <3>1, <3>2
  <2> QED BY <2>1, <2>2, <2>3
<1>3. ReadOK'
  <2>1. CASE OpenDir
    <3>1. job'.idx = << >> \/ pc' = "createOpen"
      BY <2>1 DEF OpenDir, NoJob
    <3>2. pc' = "scan" => DOMAIN job'.idx = {}
      BY <3>1
    <3>3. pc' \in {"createOpen", "scan"}
      BY <2>1 DEF OpenDir
    <3> QED BY <3>2, <3>3 DEF ReadOK
  <2>2. CASE ScanSegment
    BY <2>2, ScanSegmentReads
  <2>3. CASE OpenCorrupt \/ Reconcile
    BY <2>3 DEF OpenCorrupt, OpenFails, Reconcile, ReadOK
  <2>4. CASE Reconciled
    BY <2>4 DEF Reconciled, ReadOK, RecoveryOK, ReconcileOK
  <2> QED BY <2>1, <2>2, <2>3, <2>4
<1> QED BY <1>0, <1>1, <1>2, <1>3, ReadingKeeps

\* Open fails with the tail torn as before, or cut but not fsynced.
LEMMA TruncateTornTailFailsReopens ==
  ASSUME Known, Known', Survival, Survival', Reopens, TruncateTornTailFails
  PROVE  Reopens'
<1> USE DEF Known
<1>1. /\ pc = "scan" /\ pc' = "closed" /\ job' = NoJob
      /\ UNCHANGED <<dir, durableDir, active, fresh, crashed>>
  BY DEF TruncateTornTailFails, OpenFails, mem, hist
<1>2. FilesBetter
  <2>1. Range(dir') \cup Range(durableDir') \subseteq Inodes
    BY DEF DiskTypeOK
  <2>2. \A j \in Inodes : files'[j] = files[j] \/ files'[j] = [files[j] EXCEPT !.junk = 0]
    BY DEF TruncateTornTailFails, DiskTypeOK
  <2>3. ASSUME NEW f \in File PROVE Better(f, f) /\ Better(f, [f EXCEPT !.junk = 0])
    <3>1. /\ [f EXCEPT !.junk = 0].data = f.data /\ [f EXCEPT !.junk = 0].junk = 0
          /\ [f EXCEPT !.junk = 0].hdr = f.hdr /\ [f EXCEPT !.junk = 0].synced = f.synced
          /\ Len(f.data) \in Nat
      BY DEF File
    <3> QED BY <3>1, BetterOps DEF Better, Whole, HasHeader
  <2>4. \A j \in Inodes : files[j] \in File
    BY DEF DiskTypeOK
  <2> QED BY <2>1, <2>2, <2>3, <2>4 DEF FilesBetter
<1>3. /\ pc \notin HeaderWindow /\ pc' \notin HeaderWindow /\ ~TailExposed /\ ~Dropping'
      /\ ~Opened' /\ ~HasFresh'
  <2>1. pc \notin HeaderWindow /\ pc' \notin HeaderWindow /\ ~TailExposed
    BY <1>1 DEF HeaderWindow, CutWindow, TailExposed, InWindow
  <2> QED BY <1>1, <2>1 DEF Dropping, Opened, HasFresh
<1> QED BY <1>1, <1>2, <1>3, NoEnds, SameDirStays, QuietStep

\* What is kept of the segments is what was collected, its torn tail cut off.
LEMMA TruncateTornTailReopens ==
  ASSUME Known, Known', Survival, Survival', Reopens, TruncateTornTail
  PROVE  Reopens'
<1> USE DEF Known
<1>1. /\ pc = "scan" /\ job.paths = {} /\ pc' = "prune"
      /\ job'.names = Prunable /\ job'.idx = Survivors
      /\ UNCHANGED <<dir, durableDir, crashed, active, fresh>>
  BY DEF TruncateTornTail, ControlTypeOK, mem, hist
<1> DEFINE n == Len(job.idx)
<1>2. /\ job.idx \in Seq(Nat) /\ n \in Nat /\ n > 0 /\ DOMAIN job.idx = 1..n
      /\ LastCollected = job.idx[n] /\ LastCollected \in DOMAIN dir
      /\ Ascending(job.idx) /\ DOMAIN dir = Range(job.idx)
  <2>1. /\ job.idx \in Seq(Nat) /\ job.idx # << >> /\ n \in Nat /\ n > 0 /\ DOMAIN job.idx = 1..n
        /\ LastCollected = job.idx[n] /\ LastCollected \in DOMAIN dir
    BY <1>1, LastCollectedType, LastElement, JobType DEF LastCollected
  <2>2. Ascending(job.idx)
    BY <1>1 DEF RecoveryOK, ScanOK
  <2>3. DOMAIN dir = Range(job.idx)
    BY <1>1, <2>1, RecoveringFacts DEF Agreement, ScannedOK, RecoveryOK, ScanOK
  <2> QED BY <2>1, <2>2, <2>3
<1>3. PICK i \in Inodes : i = dir[LastCollected]
  BY <1>2, SegsType
<1>4. /\ files' \in [Inodes -> File]
      /\ files' \in {files, [files EXCEPT ![i] = TruncatedToValidEnd(files[i])]}
      /\ ScanFails(files[i]) => files' = [files EXCEPT ![i] = TruncatedToValidEnd(files[i])]
  BY <1>3 DEF TruncateTornTail, OnDisk, DiskTypeOK
<1>5. FilesBetter
  <2>1. Range(dir') \cup Range(durableDir') \subseteq Inodes
    BY DEF DiskTypeOK
  <2>2. files \in [Inodes -> File]
    BY DEF DiskTypeOK
  <2>3. \A j \in Inodes : files'[j] \in {files[j], TruncatedToValidEnd(files[j])}
    BY <1>4, <2>2
  <2> QED BY <2>1, <2>3, UsualBetter
<1>6. /\ pc \notin HeaderWindow /\ pc' \notin HeaderWindow /\ ~TailExposed
      /\ ~Opened' /\ ~HasFresh' /\ ~Dropping'
  <2>1. pc \notin HeaderWindow /\ pc' \notin HeaderWindow /\ pc \notin CutWindow
    BY <1>1 DEF HeaderWindow, CutWindow
  <2>2. job.kind = "recover" /\ ~Opened /\ ~HasFresh
    BY <1>1, RecoveringFacts
  <2>3. ~TailExposed
    BY <2>1, <2>2 DEF TailExposed, InWindow
  <2> QED BY <1>1, <2>1, <2>2, <2>3, OpenedIff, OpenedIffNext DEF Dropping
<1>7. RecoverableOK' /\ CleanOK'
  BY <1>1, <1>5, <1>6, SameDirStays, SameNamesRecoverable, SameNamesClean DEF Reopens
<1>8. PICK s : s = Survivors
  OBVIOUS
<1>9. /\ s \in Seq(Nat) /\ Len(s) \in 1..n /\ DOMAIN s = 1..Len(s)
      /\ \A k \in 1..Len(s) : s[k] = job.idx[k]
  BY <1>1, <1>8, SurvivorsType
<1>10. ReadOK'
  <2> SUFFICES ASSUME NEW k \in DOMAIN s
               PROVE  /\ HasHeader(files'[dir'[s[k]]])
                      /\ ~ScanFails(files'[dir'[s[k]]])
    BY <1>1, <1>8 DEF ReadOK, OnDisk
  <2>1. k \in DOMAIN job.idx /\ s[k] = job.idx[k] /\ s[k] \in DOMAIN dir
    BY <1>2, <1>9 DEF Range
  <2>2. PICK j \in Inodes : j = dir[s[k]]
    BY <2>1, SegsType
  <2>3. /\ HasHeader(files[j])
        /\ ScanFails(files[j]) => j = i
    BY <1>1, <1>2, <1>3, <2>1, <2>2 DEF Reopens, ReadOK, OnDisk
  <2>4. files[j] \in File /\ files'[j] \in {files[j], TruncatedToValidEnd(files[j])}
    BY <1>4 DEF DiskTypeOK
  <2>5. ScanFails(files[j]) => files'[j] = TruncatedToValidEnd(files[j])
    BY <1>4, <2>3 DEF DiskTypeOK
  <2>6. HasHeader(files'[j]) /\ files'[j].junk = 0
    BY <2>3, <2>4, <2>5, BetterOps
  <2> QED BY <1>1, <2>2, <2>6 DEF ScanFails
<1>11. EndsOK'
  <2>1. ASSUME NEW b \in Range(Prunable), NEW c \in DOMAIN dir PROVE c <= b
    <3>1. b = LastCollected
      <4>1. PICK q : q = Prunable
        OBVIOUS
      <4>2. q = << >> \/ q = <<LastCollected>>
        BY <1>1, <4>1, PrunableOne
      <4>3. Range(<< >>) = {} /\ Range(<<LastCollected>>) = {LastCollected}
        BY DEF Range
      <4> QED BY <4>1, <4>2, <4>3
    <3>2. PICK k \in 1..n : c = job.idx[k]
      BY <1>2 DEF Range
    <3>3. k = n \/ job.idx[k] < job.idx[n]
      BY <1>2 DEF Ascending
    <3> QED BY <1>2, <3>1, <3>2, <3>3
  <2> QED BY <1>1, <1>6, <2>1 DEF EndsOK, Constructing
<1> QED BY <1>7, <1>10, <1>11 DEF Reopens

\* Recovery ends with a directory that is a chain of whole segments.
LEMMA InstallStateReopens ==
  ASSUME Known, Known', Survival, Survival', Reopens, InstallState
  PROVE  Reopens'
<1> USE DEF Known
<1>1. /\ pc = "prune" /\ job.names = << >> /\ pc' = "idle" /\ job' = NoJob /\ crashed' = {}
      /\ UNCHANGED <<files, dir, durableDir, fresh>>
  BY DEF InstallState, disk
<1> DEFINE s == job.idx
           n == Len(s)
<1>2. /\ s \in Seq(Nat) /\ n \in Nat /\ n > 0 /\ DOMAIN s = 1..n
      /\ Ascending(s) /\ DOMAIN dir = Range(s)
  <2>1. /\ s \in Seq(Nat) /\ s # << >> /\ n \in Nat /\ n > 0 /\ DOMAIN s = 1..n /\ Ascending(s)
    BY <1>1, LastCollectedType, LastElement DEF RecoveryOK, PruneOK
  <2>2. Pending = {}
    BY <1>1 DEF Pending, Range, Agreement, DeletionOK
  <2> QED BY <1>1, <2>1, <2>2, DeletingFacts
<1>3. \A k \in 1..(n - 1) : s[k + 1] = s[k] + Len(files[dir[s[k]]].data)
  <2>1. \A k \in 1..(n - 1) : s[k + 1] = Segs[s[k]]
    BY <1>1, RecoveringFacts DEF Agreement, ChainOK
  <2>2. \A k \in 1..(n - 1) : s[k] \in DOMAIN dir
    BY <1>2 DEF Range
  <2> QED BY <2>1, <2>2, SegsType
<1>4. \A b \in DOMAIN dir : HasHeader(files[dir[b]]) /\ files[dir[b]].junk = 0
  <2> SUFFICES ASSUME NEW b \in DOMAIN dir PROVE HasHeader(files[dir[b]]) /\ files[dir[b]].junk = 0
    OBVIOUS
  <2>1. PICK k \in DOMAIN s : b = s[k]
    BY <1>2 DEF Range
  <2>2. HasHeader(files[dir[b]]) /\ ~ScanFails(files[dir[b]])
    BY <1>1, <2>1 DEF Reopens, ReadOK, OnDisk
  <2>3. files[dir[b]] \in File
    BY SegsType
  <2> QED BY <2>2, <2>3, BetterOps
<1>5. /\ pc \notin HeaderWindow /\ pc' \notin HeaderWindow /\ Built' = dir
      /\ ~HasFresh' /\ ~Dropping'
  <2>1. pc \notin HeaderWindow /\ pc' \notin HeaderWindow /\ ~Dropping'
    BY <1>1 DEF HeaderWindow, Dropping, NoJob
  <2>2. ~HasFresh'
    BY <1>1, RecoveringFacts, OpenedIff, OpenedIffNext
  <2> QED BY <1>1, <2>1, <2>2, NextBuiltFacts DEF Constructing
<1>6. Scannable(files, dir)
  <2> HIDE DEF s
  <2>1. Proper(files, dir)
    BY BuiltFacts
  <2> QED BY <1>2, <1>3, <1>4, <2>1, ChainFits
<1>7. RecoverableOK'
  <2>1. ASSUME MayLosePower PROVE durableDir = dir /\ TailOnly(files, dir)
    <3>1. durableDir = dir
      BY <1>1, <2>1, NotAhead DEF Durable
    <3>2. MayLosePower' /\ Opened'
      BY <1>1, <2>1 DEF MayLosePower, Opened, NoJob
    <3>3. TailOnly(files', dir')
      BY <1>5, <3>2, NextTailOnly
    <3> QED BY <1>1, <3>1, <3>3
  <2> QED BY <1>1, <1>5, <1>6, <2>1 DEF RecoverableOK
<1>8. CleanOK'
  <2>1. \A b \in DOMAIN dir : ~ScanFails(files[dir[b]])
    BY <1>4 DEF ScanFails
  <2> QED BY <1>1, <1>5, <2>1 DEF CleanOK
<1> QED BY <1>1, <1>5, <1>7, <1>8, NoReading, NoEnds DEF Reopens

\* A new log is one segment, without a record.
LEMMA InstallEmptyReopens ==
  ASSUME Known, Known', Survival, Survival', Reopens, InstallEmpty
  PROVE  Reopens'
<1> USE DEF Known
<1>1. /\ pc = "installEmpty" /\ pc' = "idle" /\ job' = NoJob /\ crashed' = {} /\ fresh' = Nil
      /\ UNCHANGED <<files, dir, durableDir>>
  BY DEF InstallEmpty, disk
<1>2. HasFresh /\ DOMAIN dir = {1} /\ dir[1] = fresh
  <2>1. job.kind = "init" /\ HasFresh /\ ~Opened
    BY <1>1 DEF StepsOK, Kinds, HasFresh, Opened
  <2> QED BY <1>1, <2>1 DEF Agreement, NamedOK
<1>3. HasHeader(files[fresh]) /\ ~ScanFails(files[fresh])
  <2>1. pc \notin HeaderWindow
    BY <1>1 DEF HeaderWindow
  <2>2. files[fresh].hdr = "durable" /\ ~ScanFails(files[fresh])
    BY <1>2, <2>1 DEF Reopens, CleanOK
  <2> QED BY <2>2 DEF HasHeader
<1>4. /\ pc' \notin HeaderWindow /\ Built' = dir
      /\ ~HasFresh' /\ ~Dropping'
  <2>1. pc' \notin HeaderWindow /\ ~Dropping' /\ ~HasFresh'
    BY <1>1 DEF HeaderWindow, Dropping, NoJob, HasFresh
  <2> QED BY <1>1, <2>1, NextBuiltFacts DEF Constructing
<1>5. Scannable(files, dir) /\ TailOnly(files, dir)
  BY <1>2, <1>3 DEF Scannable, TailOnly, NextName
<1>6. MayLosePower => durableDir = dir
  BY <1>1, NotAhead DEF Survival, Durable
<1>7. RecoverableOK'
  BY <1>1, <1>4, <1>5, <1>6 DEF RecoverableOK
<1>8. CleanOK'
  BY <1>1, <1>2, <1>3, <1>4 DEF CleanOK
<1> QED BY <1>1, <1>4, <1>7, <1>8, NoReading, NoEnds DEF Reopens

-----------------------------------------------------------------------------
(* The ways to stop.                                                       *)

\* Once the memory is gone nothing is open, half built or being deleted.
LEMMA StoppedReopens ==
  ASSUME Known, Known', Survival, Survival', MemoryLost, RecoverableOK'
  PROVE  Reopens'
<1>1. pc' = "closed" /\ ~Opened' /\ ~HasFresh' /\ ~Dropping'
  BY DEF MemoryLost, Opened, HasFresh, Dropping, NoJob
<1> QED BY <1>1, NoReading, NoEnds DEF Reopens, CleanOK, HeaderWindow

LEMMA CloseReopens ==
  ASSUME Known, Known', Survival, Survival', Reopens, Close
  PROVE  Reopens'
<1> USE DEF Known
<1>1. /\ pc = "idle" /\ MemoryLost /\ UNCHANGED <<dir, durableDir, crashed>>
      /\ files' = [i \in Inodes |->
                    IF i \in Live(dir, durableDir, Nil, Nil)
                    THEN IF i = active THEN Fsynced(files[i]) ELSE files[i]
                    ELSE NewFile]
  BY DEF Close, Stop
<1>2. FilesBetter
  <2>1. Range(dir') \cup Range(durableDir') \subseteq Inodes
    BY DEF DiskTypeOK
  <2> QED BY <1>1, <2>1, UsualBetter DEF Live
<1>3. pc \notin HeaderWindow /\ pc' \notin HeaderWindow /\ ~TailExposed
  <2>1. job.kind = "none"
    BY <1>1, ServingFacts
  <2> QED BY <1>1, <2>1 DEF HeaderWindow, MemoryLost, TailExposed, InWindow
<1>4. RecoverableOK'
  BY <1>1, <1>2, <1>3, SameDirStays, SameNamesRecoverable DEF Reopens
<1> QED BY <1>1, <1>4, StoppedReopens

\* What a crash outside the windows interrupts is not in one.
LEMMA CrashedOutside ==
  ASSUME Known, crashed' = Interrupted, NoWindow'
  PROVE  NoWindow /\ ~Constructing /\ ~TailExposed
<1> USE DEF Known
<1>1. CASE pc = "closed"
  BY <1>1 DEF NoWindow, Interrupted, Constructing, TailExposed, InWindow, HeaderWindow, CutWindow
<1>2. CASE pc # "closed"
  <2>1. crashed' = crashed \cup {[at |-> pc, kind |-> job.kind]}
    BY <1>2 DEF Interrupted
  <2>2. PICK x : x = [at |-> pc, kind |-> job.kind]
    OBVIOUS
  <2>3. x \in crashed' /\ x.at = pc /\ x.kind = job.kind /\ crashed \subseteq crashed'
    BY <2>1, <2>2
  <2>4. NoWindow /\ ~InWindow(pc, job.kind)
    <3>1. ~InWindow(x.at, x.kind)
      BY <2>3 DEF NoWindow
    <3>2. NoWindow
      BY <2>3 DEF NoWindow
    <3> QED BY <2>3, <3>1, <3>2
  <2> QED BY <2>4 DEF Constructing, TailExposed, InWindow
<1> QED BY <1>1, <1>2

LEMMA KillReopens ==
  ASSUME Known, Known', Survival, Survival', Reopens, Kill, OneKindOfCrash
  PROVE  Reopens'
<1> USE DEF Known
<1>1. /\ MemoryLost /\ UNCHANGED <<dir, durableDir>> /\ crashed' = Interrupted
      /\ files' = Collected(files, Live(dir, durableDir, Nil, Nil)) /\ ~MayLosePower
  BY DEF Kill, Stop, OneKindOfCrash, NoKills
<1>2. FilesBetter
  BY <1>1, CollectedBetter DEF Live
<1>3. RecoverableOK'
  <2> SUFFICES ASSUME NoWindow' PROVE Scannable(files', Built')
    BY <1>1 DEF RecoverableOK, NoWindow
  <2>1. NoWindow /\ ~Constructing
    BY <1>1, CrashedOutside
  <2>2. Scannable(files, dir)
    BY <2>1, BuiltFacts DEF Reopens, RecoverableOK, NoWindow
  <2>3. ~Constructing'
    BY <1>1 DEF MemoryLost, Constructing, HeaderWindow
  <2>4. Built' = dir /\ Proper(files', dir) /\ Proper(files, dir)
    BY <1>1, <2>3, BuiltFacts, NextBuiltFacts
  <2>5. Fits(files, dir, files', dir)
    BY <1>1, <1>2 DEF Fits, Better, FilesBetter, Range
  <2> QED BY <2>2, <2>4, <2>5, FitsKeeps
<1> QED BY <1>1, <1>3, StoppedReopens

\* Power takes from the last segment only, and not its header.
LEMMA PowerLossReopens ==
  ASSUME Known, Known', Survival, Survival', Reopens, PowerLoss
  PROVE  Reopens'
<1> USE DEF Known
<1>1. /\ MayLosePower /\ MemoryLost /\ durableDir' = dir' /\ crashed' = Interrupted
  BY DEF PowerLoss, Stop, MayLosePower
<1>2. RecoverableOK'
  <2>1. ~Constructing' /\ Built' = dir' /\ Proper(files', dir')
    <3>1. ~Constructing'
      BY <1>1 DEF MemoryLost, Constructing, HeaderWindow
    <3> QED BY <3>1, NextBuiltFacts
  <2> SUFFICES ASSUME NoWindow' PROVE Scannable(files', dir') /\ TailOnly(files', dir')
    BY <1>1, <2>1 DEF RecoverableOK, NoWindow
  <2>2. /\ Scannable(files, dir) /\ TailOnly(files, dir)
        /\ Scannable(files, durableDir) /\ TailOnly(files, durableDir)
    <3>1. NoWindow /\ ~Constructing /\ ~TailExposed
      BY <1>1, CrashedOutside
    <3> QED BY <1>1, <3>1, BuiltFacts DEF Reopens, RecoverableOK, NoWindow
  <2>3. PICK d \in {dir, durableDir} : SameDir(d, dir')
    <3>1. PICK lost \in SUBSET Linked, kept \in SUBSET Unlinked :
            dir' = DirAfterPowerLoss(lost, kept)
      BY DEF PowerLoss
    <3>2. OneApart(dir, durableDir)
      BY <1>1 DEF Survival, StorageOK
    <3> QED BY <3>1, <3>2, OneOfTwo
  <2>4. /\ Scannable(files, d) /\ TailOnly(files, d) /\ Proper(files, d)
        /\ DOMAIN d = DOMAIN dir' /\ \A b \in DOMAIN d : d[b] = dir'[b]
    BY <2>2, <2>3, BuiltFacts DEF SameDir
  <2>5. ASSUME NEW i \in Range(dir')
        PROVE  /\ files[i].hdr = "durable" => files'[i].hdr = "durable"
               /\ ~HasUnsynced(files[i]) => files'[i] = files[i]
    <3>1. PICK keep \in [Unsynced -> 0..MaxLSN], torn \in [Unsynced -> BOOLEAN] :
            files' = [j \in Inodes |->
               CASE j \notin Range(dir') -> NewFile
                 [] j \in Range(dir') \cap Unsynced ->
                      AfterPowerLoss(files[j], keep[j], torn[j])
                 [] OTHER -> files[j]]
      BY DEF PowerLoss
    <3>2. i \in Inodes /\ files[i] \in File
      BY <2>5 DEF DiskTypeOK
    <3>3. CASE i \in Unsynced
      <4>1. files'[i] = AfterPowerLoss(files[i], keep[i], torn[i])
        BY <2>5, <3>1, <3>2, <3>3
      <4>2. Fsynced(files[i]).hdr = IF files[i].hdr = "cached" THEN "durable" ELSE files[i].hdr
        BY <3>2 DEF Fsynced, File
      <4>3. files[i].hdr = "durable" => files'[i].hdr = "durable"
        BY <4>1, <4>2 DEF AfterPowerLoss
      <4> QED BY <3>3, <4>3 DEF Unsynced
    <3>4. CASE i \notin Unsynced
      <4>1. files'[i] = files[i]
        BY <2>5, <3>1, <3>2, <3>4
      <4> QED BY <4>1
    <3> QED BY <3>3, <3>4
  <2>6. \A b \in DOMAIN d : dir'[b] \in Range(dir') /\ files[dir'[b]] \in File
    BY <2>4 DEF Range, DiskTypeOK, Proper
  <2>7. ASSUME NEW b \in DOMAIN d
        PROVE  /\ HasHeader(files'[dir'[b]])
               /\ \A c \in DOMAIN d : b < c => files'[dir'[b]] = files[d[b]]
    <3>1. files[d[b]].hdr = "durable" /\ d[b] = dir'[b]
      BY <1>1, <2>4 DEF Scannable, HasHeader
    <3>2. HasHeader(files'[dir'[b]])
      BY <1>1, <2>5, <2>6, <3>1 DEF HasHeader
    <3>3. ASSUME NEW c \in DOMAIN d, b < c PROVE files'[dir'[b]] = files[d[b]]
      <4>1. Whole(files[d[b]])
        BY <2>4, <3>3 DEF TailOnly
      <4>2. ~HasUnsynced(files[d[b]])
        BY <2>6, <3>1, <4>1 DEF Whole, HasUnsynced, File
      <4> QED BY <2>5, <2>6, <3>1, <4>2
    <3> QED BY <3>2, <3>3
  <2>8. Fits(files, d, files', dir')
    BY <2>4, <2>6, <2>7, BetterOps DEF Fits
  <2> QED BY <2>1, <2>4, <2>8, FitsKeeps
<1> QED BY <1>1, <1>2, StoppedReopens

LEMMA InitReopens == Init => Reopens
<1> SUFFICES ASSUME Init PROVE Reopens
  OBVIOUS
<1> USE DEF Init
<1>1. ~Constructing /\ ~Opened /\ ~HasFresh /\ ~Dropping /\ pc = "closed" /\ Built = << >>
  BY DEF Constructing, HeaderWindow, Opened, HasFresh, Dropping, Built
<1>2. DOMAIN << >> = {}
  OBVIOUS
<1>3. RecoverableOK
  BY <1>1, <1>2 DEF RecoverableOK, Scannable, TailOnly
<1> QED BY <1>1, <1>3 DEF Reopens, ReadOK, CleanOK, EndsOK

LEMMA StutterReopens ==
  ASSUME Reopens, UNCHANGED vars
  PROVE  Reopens'
<1> USE DEF vars, disk, mem, hist
<1>1. /\ (Constructing <=> Constructing') /\ Built' = Built /\ (TailExposed <=> TailExposed')
      /\ (Opened <=> Opened') /\ (HasFresh <=> HasFresh') /\ (Dropping <=> Dropping')
  BY DEF Constructing, Built, TailExposed, Opened, HasFresh, Dropping
<1>2. RecoverableOK'
  BY <1>1 DEF Reopens, RecoverableOK
<1>3. ReadOK'
  BY DEF Reopens, ReadOK, OnDisk
<1>4. CleanOK'
  BY <1>1 DEF Reopens, CleanOK
<1>5. EndsOK'
  BY <1>1 DEF Reopens, EndsOK, EndOf
<1> QED BY <1>2, <1>3, <1>4, <1>5 DEF Reopens

-----------------------------------------------------------------------------
(* The specification.                                                      *)

\* Every step keeps the directory fit for Open.
LEMMA NextReopens ==
  ASSUME Known, Known', Survival, Survival', Reopens, Next, HarmlessFailures, OneKindOfCrash
  PROVE  Reopens'
<1>1. ASSUME Commit PROVE Reopens'
  <2>1. ~WriteRecordFails /\ ~FinishBatchFails /\ ~StartRollFails
    BY NoFault DEF HarmlessCalls, WriteRecordFails, FinishBatchFails, StartRollFails
  <2> QED
    BY <1>1, <2>1, CommitReopens, WriteRecordReopens, InstallRollReopens DEF Commit
<1>2. ASSUME Create PROVE Reopens'
  <2>1. ~CreateHeaderFails /\ ~CreateSyncDirFails
    BY NoFault DEF HarmlessCalls, CreateHeaderFails, CreateSyncDirFails
  <2>2. ~CreateOpenFails
    BY NoFault, BaseIsFree DEF HarmlessCalls, CreateOpenFails, Known
  <2> QED
    BY <1>2, <2>1, <2>2, CreateOpenReopens, CreateHeaderReopens, CreateSyncReopens,
       DirSyncReopens DEF Create
<1>3. ASSUME Drop PROVE Reopens'
  <2>1. ~ClearLeftoverFails
    BY NoFault DEF HarmlessCalls, ClearLeftoverFails
  <2>2. Bounds \subseteq Nat
    BY DEF Bounds
  <2> QED
    BY <1>3, <2>1, <2>2, TruncateReopens, CutReopens, ClearLeftoverReopens, RewriteTempReopens,
       RewriteTempFailsReopens, PublishFailsReopens, PublishRewriteReopens, DirSyncReopens,
       FinishReopens DEF Drop
<1>4. ASSUME Delete PROVE Reopens'
  <2>1. ~RemovalFails
    BY NoFault DEF HarmlessCalls, RemovalFails
  <2> QED BY <1>4, <2>1, RemoveFileReopens, SyncRemovalReopens DEF Delete
<1>5. ASSUME Recover PROVE Reopens'
  BY <1>5, ReadingReopens, InstallEmptyReopens, TruncateTornTailFailsReopens,
     TruncateTornTailReopens, InstallStateReopens DEF Recover
<1>6. ~CloseUnflushed
  BY NoFault DEF HarmlessCalls, CloseUnflushed
<1> QED
  BY <1>1, <1>2, <1>3, <1>4, <1>5, <1>6, CommitReopens, CloseReopens, KillReopens,
     PowerLossReopens DEF Next

(***************************************************************************)
(* A directory that a crash outside the windows may leave has no gap, a    *)
(* header in every segment and nothing torn before the last one.  Crashes  *)
(* are of one kind: what recovery finds after a kill is at risk in a power *)
(* loss, also below the last segment.                                      *)
(***************************************************************************)
THEOREM ReopensHolds ==
  ASSUME HarmlessFailures, NoEmptyRequests, OneKindOfCrash
  PROVE  Spec => [](IInv /\ Known /\ Survival /\ Reopens)
<1>1. /\ Known /\ Known' /\ Survival /\ Survival' /\ Reopens /\ [Next]_vars
      => Reopens'
  BY NextReopens, StutterReopens
<1> QED BY <1>1, SurvivalHolds, InitReopens, PTL DEF Spec

\* Open refuses a directory only if a crash has interrupted a window.
LEMMA RefusedOutside ==
  ASSUME Known, Survival, Reopens, Scanning, Unrecoverable
  PROVE  ~NoWindow
<1> USE DEF Known
<1> SUFFICES ASSUME NoWindow PROVE FALSE
  OBVIOUS
<1>1. pc = "scan" /\ job.paths # {} /\ job.paths \subseteq DOMAIN dir
  BY DEF Scanning, RecoveryOK, ScanOK
<1>2. Scannable(files, dir)
  <2>1. ~Constructing
    BY <1>1 DEF Constructing, HeaderWindow
  <2> QED BY <2>1, BuiltFacts DEF Reopens, RecoverableOK, NoWindow
<1>3. PICK p \in Nat : p = Path
  BY PathType
<1>4. p \in job.paths /\ p \in DOMAIN dir /\ OnDisk(p) \in File /\ \A x \in job.paths : p <= x
  BY <1>3, PathType
<1>5. OnDisk(p).hdr # "absent"
  BY <1>2, <1>4 DEF Scannable, HasHeader, OnDisk
<1>6. ASSUME ~IsFinal PROVE ~ScanFails(OnDisk(p))
  <2>1. PICK c \in job.paths : c # p
    BY <1>3, <1>4, <1>6 DEF IsFinal
  <2>2. p < c /\ c \in DOMAIN dir
    BY <1>1, <1>4, <2>1, SegsType
  <2>3. OnDisk(p).junk = 0
    BY <1>2, <1>4, <2>2 DEF Scannable, OnDisk
  <2> QED BY <1>4, <2>3, BetterOps
<1>7. ~Gap
  <2> SUFFICES ASSUME job.idx # << >> PROVE ~(p > job.expected)
    BY <1>3 DEF Gap, IsFirst
  <2> DEFINE n == Len(job.idx)
             l == job.idx[n]
  <2>1. /\ job.idx \in Seq(Nat) /\ n \in Nat /\ n > 0 /\ DOMAIN job.idx = 1..n
        /\ Ascending(job.idx) /\ \A k \in 1..n : job.idx[k] < p
    BY <1>1, <1>4, JobType, LastElement DEF RecoveryOK, ScanOK
  <2>2. l \in Nat /\ l < p /\ \A k \in 1..n : job.idx[k] \in Nat /\ job.idx[k] <= l
    <3>1. n \in 1..n
      BY <2>1
    <3>2. ASSUME NEW k \in 1..n PROVE job.idx[k] \in Nat /\ job.idx[k] <= job.idx[n]
      <4>1. k = n \/ job.idx[k] < job.idx[n]
        BY <2>1, <3>1 DEF Ascending
      <4> QED BY <2>1, <3>1, <4>1
    <3> QED BY <2>1, <3>1, <3>2
  <2>3. job.expected = Segs[l] /\ DOMAIN dir = Range(job.idx) \cup job.paths
    BY <1>1, RecoveringFacts DEF Agreement, ScannedOK, LastOf
  <2>4. l \in DOMAIN dir
    <3>1. n \in 1..n
      BY <2>1
    <3> QED BY <2>1, <2>3, <3>1 DEF Range
  <2>5. NextName(dir, l, p)
    <3>1. ASSUME NEW x \in DOMAIN dir PROVE x <= l \/ p <= x
      <4>1. CASE x \in job.paths
        BY <1>4, <4>1
      <4>2. CASE x \in Range(job.idx)
        <5>1. PICK k \in 1..n : x = job.idx[k]
          BY <2>1, <4>2 DEF Range
        <5> QED BY <2>2, <5>1
      <4> QED BY <2>3, <4>1, <4>2
    <3> QED BY <2>2, <3>1 DEF NextName
  <2> HIDE DEF l
  <2>6. p <= l + Len(files[dir[l]].data)
    BY <1>2, <1>4, <2>4, <2>5 DEF Scannable
  <2> QED BY <2>3, <2>4, <2>6, SegsType
<1> QED BY <1>3, <1>5, <1>6, <1>7 DEF Unrecoverable

\* Only Open sets corrupt, and only Open forgets a crash.
LEMMA OnlyOpenJudges ==
  ASSUME Next
  PROVE  \/ corrupt' = FALSE
         \/ corrupt' = corrupt /\ crashed \subseteq crashed'
         \/ OpenCorrupt /\ crashed' = crashed
<1> USE DEF hist
<1>1. Commit => UNCHANGED <<crashed, corrupt>>
  BY DEF Commit, BeginCommit, WriteRecord, WriteRecordFails, CompleteRequest,
         FinishBatch, FinishBatchFails, StartRoll, StartRollFails, InstallRoll
<1>2. Create => UNCHANGED <<crashed, corrupt>>
  BY DEF Create, CreateOpen, CreateOpenFails, CreateHeader, CreateSync,
         CreateHeaderFails, CreateSyncDir, CreateSyncDirFails
<1>3. Drop => UNCHANGED <<crashed, corrupt>>
  BY DEF Drop, Truncate, CutNoop, CutEverything, CutInside, StartDrop, ClearLeftover,
         ClearLeftoverFails, RewriteTemp, RewriteTempFails, PublishRewrite, PublishSync,
         PublishFails, FinishTruncate, FinishCutBelow, FinishCutRewrite, FinishCutEverything,
         Installed
<1>4. Delete => UNCHANGED <<crashed, corrupt>>
  BY DEF Delete, RemoveFile, SyncRemoval, RemovalFails
<1>5. Recover => \/ UNCHANGED <<crashed, corrupt>>
                 \/ corrupt' = FALSE
                 \/ OpenCorrupt /\ crashed' = crashed
  BY DEF Recover, OpenDir, InstallEmpty, ScanSegment, OpenCorrupt, Reconcile, Reconciled,
         TruncateTornTail, TruncateTornTailFails, InstallState
<1>6. SyncActive \/ Close \/ CloseUnflushed => UNCHANGED <<crashed, corrupt>>
  BY DEF SyncActive, Close, CloseUnflushed, Stop
<1>7. Kill \/ PowerLoss => corrupt' = corrupt /\ crashed \subseteq crashed'
  BY DEF Kill, PowerLoss, Stop, Interrupted
<1> QED BY <1>1, <1>2, <1>3, <1>4, <1>5, <1>6, <1>7 DEF Next

(***************************************************************************)
(* Open refuses a directory as corrupt only after a crash between the      *)
(* creation of a segment file and the fsync of its header or, where power  *)
(* may take the records of commits that were not fsynced, in the middle of *)
(* a cut.  Every other crash, also one of recovery, is recovered from.     *)
(***************************************************************************)
THEOREM CorruptOnlyInWindowsHolds ==
  ASSUME HarmlessFailures, NoEmptyRequests, OneKindOfCrash
  PROVE  Spec => []CorruptOnlyInWindows
<1>1. Init => CorruptOnlyInWindows
  BY DEF Init, CorruptOnlyInWindows
<1>2. /\ Known /\ Survival /\ Reopens /\ CorruptOnlyInWindows /\ [Next]_vars
      => CorruptOnlyInWindows'
  <2> SUFFICES ASSUME Known, Survival, Reopens, CorruptOnlyInWindows, [Next]_vars
               PROVE  CorruptOnlyInWindows'
    OBVIOUS
  <2>1. \/ corrupt' = FALSE
        \/ corrupt' = corrupt /\ crashed \subseteq crashed'
        \/ OpenCorrupt /\ crashed' = crashed
    BY OnlyOpenJudges DEF vars, hist
  <2>2. CASE OpenCorrupt /\ crashed' = crashed
    <3>1. ~NoWindow
      BY <2>2, RefusedOutside DEF OpenCorrupt
    <3> QED BY <2>2, <3>1 DEF NoWindow, CorruptOnlyInWindows
  <2>3. CASE corrupt' = FALSE
    BY <2>3 DEF CorruptOnlyInWindows
  <2>4. CASE corrupt' = corrupt /\ crashed \subseteq crashed'
    BY <2>4 DEF CorruptOnlyInWindows
  <2> QED BY <2>1, <2>2, <2>3, <2>4
<1> QED BY <1>1, <1>2, ReopensHolds, PTL DEF Spec
=============================================================================

-------------------------- MODULE Agreement_proofs --------------------------
(***************************************************************************)
(* WalStore implements SharedLog.  Agreement is inductive relative to      *)
(* IInv while at most the calls of HarmlessCalls fail and no request is    *)
(* empty, through every close, kill, power loss and recovery.  From it     *)
(* follow what readers see of an open log: gapless segments and bounds     *)
(* that are those of the records.                                          *)
(***************************************************************************)
EXTENDS WalRefinement, Placement_proofs

USE WalStateAssumption DEF ControlOK, TypeOK

\* A step keeps a name and the records of its file.
KeptName(b) == b \in DOMAIN dir' /\ dir'[b] = dir[b] /\ KeptData(dir[b])

\* A step keeps every name and every record.
KeptDir == DOMAIN dir' = DOMAIN dir /\ \A b \in DOMAIN dir : KeptName(b)

-----------------------------------------------------------------------------
(* The segments of a directory and the segments of the log.                *)

\* No other call fails.
LEMMA NoFault ==
  ASSUME HarmlessFailures, NEW call, call \notin HarmlessCalls
  PROVE  ~Fault(call)
BY DEF HarmlessFailures, Fault

\* A segment ends at its base or above.
LEMMA SegsType ==
  ASSUME ControlOK
  PROVE  /\ DOMAIN Segs = DOMAIN dir /\ DOMAIN dir \subseteq Nat
         /\ \A b \in DOMAIN dir :
              /\ Segs[b] \in Nat /\ b <= Segs[b]
              /\ dir[b] \in Inodes /\ files[dir[b]] \in File
              /\ Len(files[dir[b]].data) \in Nat
              /\ Segs[b] = b + Len(files[dir[b]].data)
<1>1. ASSUME NEW b \in DOMAIN dir
      PROVE  /\ b \in Nat /\ Len(files[dir[b]].data) \in Nat
             /\ dir[b] \in Inodes /\ files[dir[b]] \in File
  BY NamedType DEF File
<1>2. DOMAIN Segs = DOMAIN dir
      /\ \A b \in DOMAIN dir : Segs[b] = b + Len(files[dir[b]].data)
  BY DEF Segs, EndOf
<1> QED BY <1>1, <1>2

\* A segment that keeps its file keeps its end.
LEMMA SegKept ==
  ASSUME NEW b \in DOMAIN dir, KeptName(b)
  PROVE  b \in DOMAIN Segs' /\ Segs'[b] = Segs[b]
BY DEF Segs, EndOf, KeptName, KeptData

\* Where a segment ends after a step.
LEMMA SegNext ==
  ASSUME NEW b \in DOMAIN dir'
  PROVE  DOMAIN Segs' = DOMAIN dir' /\ Segs'[b] = b + Len(files'[dir'[b]].data)
BY DEF Segs, EndOf

\* A directory that is kept keeps the segments.
LEMMA SegsKept ==
  ASSUME KeptDir
  PROVE  Segs' = Segs
<1>1. \A b \in DOMAIN dir : EndOf(b)' = EndOf(b)
  BY DEF KeptDir, KeptName, EndOf, KeptData
<1> QED BY <1>1 DEF KeptDir, Segs

\* The log consists of segments, and of at least one while it is open.
LEMMA LogIndexType ==
  ASSUME ControlOK
  PROVE  /\ LogIndex \in Seq(Nat) /\ job.idx \in Seq(Nat) /\ job.names \in Seq(Nat)
         /\ index \in Seq(Nat)
         /\ Opened => LogIndex # << >> /\ index # << >>
         /\ Opened /\ Dropping => job.idx # << >> /\ job.kind \in DropKinds
<1>1. job.idx \in Seq(Nat) /\ job.names \in Seq(Nat) /\ index \in Seq(Nat)
  BY JobType DEF MemTypeOK, ControlTypeOK
<1>2. Dropping => job.kind \in DropKinds
  BY DEF Dropping, StepsOK, Kinds, DropKinds
<1> QED BY <1>1, <1>2 DEF LogIndex, StepsOK

\* The index of an open log whose directory is not being shortened.
LEMMA IndexFacts ==
  ASSUME ControlOK, PlacementOK, Agreement, Opened, ~Dropping
  PROVE  /\ LogIndex = index /\ Len(index) \in Nat /\ Len(index) > 0
         /\ index \in Seq(Nat) /\ DOMAIN index = 1..Len(index) /\ LastBase = index[Len(index)]
         /\ Ascending(index) /\ index[1] > 0
         /\ \A k \in 1..Len(index) :
              /\ index[k] \in Nat /\ index[k] \in DOMAIN dir /\ index[k] <= LastBase
              /\ Segs[index[k]] \in Nat /\ index[k] <= Segs[index[k]]
              /\ k < Len(index) => index[k + 1] = Segs[index[k]] /\ index[k] < index[k + 1]
         /\ LastBase \in DOMAIN dir /\ dir[LastBase] = active
         /\ nextLSN = Segs[LastBase] /\ LastBase <= nextLSN /\ nextLSN \in Nat
         /\ LastBase < nextLSN \/ Len(index) = 1 \/ Writing
         /\ firstLSN \in Nat /\ lastLSN \in Nat
<1> DEFINE n == Len(index)
<1>1. /\ LogIndex = index /\ n \in Nat /\ n > 0 /\ index \in Seq(Nat) /\ DOMAIN index = 1..n
      /\ Ascending(index) /\ index[1] > 0 /\ LastBase = index[n]
      /\ \A k \in 1..n : index[k] \in Nat
  BY OpenedState DEF LogIndex, LastBase
<1>2. firstLSN \in Nat /\ lastLSN \in Nat /\ nextLSN \in Nat
  BY DEF MemTypeOK
<1>n. n \in Nat /\ n > 0
  BY <1>1
<1> HIDE DEF n
<1>3. \A j, k \in 1..n : j < k => index[j] < index[k]
  BY <1>1 DEF Ascending
<1>4. ASSUME NEW k \in 1..n PROVE index[k] <= index[n]
  <2>1. k = n \/ (k < n /\ n \in 1..n)
    BY <1>n
  <2>2. index[k] \in Nat /\ index[n] \in Nat
    BY <1>1, <1>n
  <2> QED BY <2>1, <2>2, <1>3
<1>5. Range(index) \subseteq DOMAIN dir /\ \A k \in 1..(n - 1) : index[k + 1] = Segs[index[k]]
  BY <1>1 DEF Agreement, ChainOK
<1>6. \A k \in 1..n : index[k] \in DOMAIN dir
  BY <1>1, <1>5 DEF Range
<1>7. \A k \in 1..n : Segs[index[k]] \in Nat /\ index[k] <= Segs[index[k]]
  BY <1>6, SegsType
<1>8. /\ dir[index[n]] = active /\ nextLSN = Segs[index[n]]
      /\ index[n] < nextLSN \/ n = 1 \/ Writing
  BY <1>1 DEF Agreement, EndOK, LastOf
<1>9. ASSUME NEW k \in 1..n
      PROVE  /\ index[k] <= LastBase
             /\ k < n => index[k + 1] = Segs[index[k]] /\ index[k] < index[k + 1]
  <2>1. k < n => k \in 1..(n - 1) /\ k + 1 \in 1..n /\ k < k + 1
    BY <1>n
  <2>2. index[k] <= LastBase
    BY <1>1, <1>4
  <2> QED BY <2>1, <2>2, <1>3, <1>5
<1>10. LastBase \in DOMAIN dir /\ dir[LastBase] = active /\ nextLSN = Segs[LastBase]
       /\ LastBase <= nextLSN /\ (LastBase < nextLSN \/ n = 1 \/ Writing)
  BY <1>1, <1>6, <1>7, <1>8
<1> QED BY <1>1, <1>2, <1>6, <1>7, <1>9, <1>10 DEF n

-----------------------------------------------------------------------------
(* Frame lemmas.                                                           *)

\* The segments of the log stay what they are.
LEMMA ChainKept ==
  ASSUME ControlOK, ChainOK, LogIndex' = LogIndex,
         \A b \in Range(LogIndex) : b \in DOMAIN dir => KeptName(b)
  PROVE  ChainOK'
<1>1. LogIndex \in Seq(Nat) /\ Range(LogIndex) \subseteq DOMAIN dir
  BY LogIndexType DEF ChainOK
<1>2. \A b \in Range(LogIndex) : b \in DOMAIN dir' /\ Segs'[b] = Segs[b]
  BY <1>1, SegKept DEF KeptName
<1>3. \A k \in 1..(Len(LogIndex) - 1) : LogIndex[k] \in Range(LogIndex)
  BY <1>1 DEF Range
<1> QED BY <1>1, <1>2, <1>3 DEF ChainOK

\* A step that only moves on, within an operation on an open log.
LEMMA FrameAgreement ==
  ASSUME ControlOK, ControlOK', PlacementOK, Agreement, KeptDir,
         UNCHANGED <<mem, batch, job, fresh>>,
         pc \notin {"closed", "scan", "reconcile", "prune", "write", "remove"},
         pc' \notin {"closed", "scan", "reconcile", "prune", "write", "rewrite", "publish"},
         pc # "publish", Dropping' <=> Dropping
  PROVE  Agreement'
<1> USE DEF mem
<1>1. Segs' = Segs /\ DOMAIN dir' = DOMAIN dir
  BY SegsKept DEF KeptDir
<1>2. (Opened' <=> Opened) /\ (HasFresh' <=> HasFresh) /\ (Committing' <=> Committing)
  BY OpenedIff, OpenedIffNext DEF Committing
<1>3. LogIndex' = LogIndex
  BY <1>2 DEF LogIndex
<1>4. ChainOK' /\ ScannedOK'
  BY <1>1, <1>3 DEF Agreement, ChainOK, ScannedOK
<1>5. DeletionOK'
  <2>1. ~job.unlinked
    BY DEF Agreement, DeletionOK
  <2> QED BY <1>1, <2>1 DEF Agreement, DeletionOK, Pending
<1>6. NamedOK'
  BY <1>1, <1>2 DEF Agreement, NamedOK, KeptDir, KeptName
<1>7. EndOK'
  <2>1. ASSUME Opened
        PROVE  /\ LogIndex # << >> /\ LastOf(LogIndex) \in DOMAIN dir
    BY <2>1, LogIndexType, LastElement DEF Agreement, ChainOK, LastOf, Range
  <2>2. ReplacesActive' <=> ReplacesActive
    BY DEF ReplacesActive, CutsActive
  <2> QED
    BY <1>1, <1>2, <1>3, <2>1, <2>2
    DEF Agreement, EndOK, KeptDir, KeptName, Writing, LastOf
<1>8. BatchOK' /\ BoundsOK' /\ DropPlanOK'
  BY <1>1, <1>2 DEF Agreement, BatchOK, BoundsOK, DropPlanOK, Unpublished, LastBase
<1> QED BY <1>4, <1>5, <1>6, <1>7, <1>8 DEF Agreement

-----------------------------------------------------------------------------
(* Group commits.                                                          *)

\* Between the operations of an open log.
LEMMA ServingFacts ==
  ASSUME ControlOK, PlacementOK, Agreement, pc \in {"idle", "write"}
  PROVE  /\ Opened /\ ~Dropping /\ ~HasFresh /\ job.kind = "none" /\ LogIndex = index
         /\ DOMAIN dir = Range(index) /\ ~job.unlinked
         /\ pc = "idle" => ~Committing /\ ~Writing /\ ~Unpublished
<1>1. Opened /\ ~Dropping /\ ~HasFresh /\ job.kind = "none"
  BY WriterOpened DEF Dropping, HasFresh, StepsOK, Kinds
<1>2. pc = "idle" => ~Committing /\ ~Writing /\ ~Unpublished
  BY <1>1 DEF Committing, Writing, Agreement, BoundsOK
<1> QED BY <1>1, <1>2 DEF LogIndex, Agreement, NamedOK, DeletionOK

\* A step between two of the steps of a commit that moves no segment.
LEMMA ServingAgreement ==
  ASSUME ControlOK, ControlOK', PlacementOK, Agreement, KeptDir,
         pc \in {"idle", "write"}, pc' \in {"idle", "write"},
         UNCHANGED <<active, index, nextLSN, job>>,
         Writing => Writing', BatchOK', BoundsOK'
  PROVE  Agreement'
<1>1. /\ Opened /\ ~Dropping /\ ~HasFresh /\ job.kind = "none" /\ LogIndex = index
      /\ DOMAIN dir = Range(index) /\ ~job.unlinked
  BY ServingFacts
<1>2. /\ Opened' /\ ~Dropping' /\ ~HasFresh' /\ LogIndex' = index
  BY <1>1, WriterOpened DEF Opened, Dropping, HasFresh, LogIndex
<1>3. Segs' = Segs /\ DOMAIN dir' = DOMAIN dir
  BY SegsKept DEF KeptDir
<1>4. ChainOK' /\ ScannedOK' /\ DeletionOK'
  BY <1>1, <1>2, <1>3 DEF Agreement, ChainOK, ScannedOK, DeletionOK
<1>5. NamedOK' /\ DropPlanOK'
  BY <1>1, <1>2, <1>3 DEF NamedOK, DropPlanOK
<1>6. EndOK'
  <2>1. /\ LastBase \in DOMAIN dir /\ dir[LastBase] = active /\ nextLSN = Segs[LastBase]
        /\ LastBase < nextLSN \/ Len(index) = 1 \/ Writing
        /\ LastBase = index[Len(index)]
    BY <1>1, IndexFacts
  <2>2. dir'[LastBase] = active
    BY <2>1 DEF KeptDir, KeptName
  <2> QED BY <1>1, <1>2, <1>3, <2>1, <2>2 DEF EndOK, LastOf
<1> QED BY <1>4, <1>5, <1>6 DEF Agreement

\* The requests of a batch that is taken up are not empty.
LEMMA BeginCommitAgreement ==
  ASSUME ControlOK, ControlOK', PlacementOK, Agreement, NoEmptyRequests,
         NEW b \in Batches, BeginCommit(b)
  PROVE  Agreement'
<1> USE DEF BeginCommit, disk, mem
<1>1. Opened /\ ~Unpublished /\ ~Writing /\ job.kind = "none"
  BY ServingFacts
<1>2. KeptDir
  BY DEF KeptDir, KeptName, KeptData
<1>3. /\ batch'.reqs = b /\ ~batch'.wrote
      /\ \A k \in DOMAIN b : b[k] # << >>
      /\ b \in Seq(Seq(Nat))
  BY DEF NoBatch, NoEmptyRequests
<1>4. /\ Len(b) \in Nat /\ DOMAIN b = 1..Len(b)
      /\ b # << >> => Head(b) = b[1] /\ 1 \in DOMAIN b
  BY <1>3
<1>5. \A k \in 2..Len(b) : k \in DOMAIN b
  BY <1>4
<1>6. ~Unpublished' /\ job' = job
  BY <1>1 DEF Unpublished
<1>7. BatchOK'
  BY <1>1, <1>3, <1>4, <1>5, <1>6 DEF BatchOK
<1>8. BoundsOK'
  BY <1>1, <1>6, OpenedIff, OpenedIffNext DEF Agreement, BoundsOK
<1> QED BY <1>1, <1>2, <1>7, <1>8, ServingAgreement

\* What follows the first element of a sequence.
LEMMA TailFacts ==
  ASSUME NEW S, NEW r \in Seq(S), r # << >>
  PROVE  LET t == Tail(r)
         IN  /\ Len(r) \in Nat /\ Len(t) \in Nat /\ Len(t) + 1 = Len(r)
             /\ \A k \in 1..Len(t) : t[k] = r[k + 1] /\ k + 1 \in 2..Len(r)
             /\ t # << >> => Head(t) = t[1] /\ 1 \in 1..Len(t)
<1>1. Tail(r) \in Seq(S) /\ Len(r) \in Nat /\ Len(r) > 0 /\ Len(Tail(r)) = Len(r) - 1
  OBVIOUS
<1>2. \A k \in 1..(Len(r) - 1) : Tail(r)[k] = r[k + 1]
  OBVIOUS
<1>3. Tail(r) # << >> => Len(Tail(r)) > 0 /\ Head(Tail(r)) = Tail(r)[1]
  BY <1>1
<1> QED BY <1>1, <1>2, <1>3

\* A request that is complete has written records.
LEMMA CompleteRequestAgreement ==
  ASSUME ControlOK, ControlOK', PlacementOK, Agreement, CompleteRequest
  PROVE  Agreement'
<1> USE DEF CompleteRequest, disk, mem
<1>1. Opened /\ job.kind = "none" /\ Committing
  BY ServingFacts DEF Committing
<1>2. KeptDir
  BY DEF KeptDir, KeptName, KeptData
<1>3. Unpublished /\ \A k \in 2..Len(batch.reqs) : batch.reqs[k] # << >>
  BY <1>1 DEF Agreement, BatchOK
<1>4. Unpublished' /\ job' = job /\ batch'.wrote /\ batch'.reqs = Tail(batch.reqs)
  BY <1>3 DEF Unpublished
<1>5. /\ batch'.reqs # << >> => Head(batch'.reqs) # << >>
      /\ \A k \in 2..Len(batch'.reqs) : batch'.reqs[k] # << >>
  <2> DEFINE r == batch.reqs
             t == Tail(r)
  <2>1. r \in Seq(Seq(Nat)) /\ r # << >>
    BY DEF ControlTypeOK
  <2>2. /\ Len(r) \in Nat /\ Len(t) \in Nat /\ Len(t) + 1 = Len(r)
        /\ \A k \in 1..Len(t) : t[k] = r[k + 1] /\ k + 1 \in 2..Len(r)
        /\ t # << >> => Head(t) = t[1] /\ 1 \in 1..Len(t)
    BY <2>1, TailFacts
  <2>3. \A k \in 1..Len(t) : t[k] # << >>
    BY <2>2, <1>3
  <2> HIDE DEF r, t
  <2>4. \A k \in 2..Len(t) : k \in 1..Len(t)
    BY <2>2
  <2>5. (t # << >> => Head(t) # << >>) /\ \A k \in 2..Len(t) : t[k] # << >>
    BY <2>2, <2>3, <2>4
  <2> QED BY <2>5, <1>4 DEF r, t
<1>6. BatchOK'
  BY <1>1, <1>4, <1>5 DEF BatchOK
<1>7. BoundsOK'
  BY <1>1, <1>4, OpenedIff, OpenedIffNext DEF Agreement, BoundsOK, Committing
<1> QED BY <1>1, <1>2, <1>6, <1>7, ServingAgreement DEF Writing

\* finishBatch publishes the bounds of what was written.
LEMMA FinishBatchAgreement ==
  ASSUME ControlOK, ControlOK', PlacementOK, Agreement, FinishBatch
  PROVE  Agreement'
<1> USE DEF FinishBatch
<1>1. /\ Opened /\ ~Dropping /\ job.kind = "none" /\ Committing /\ active \in Inodes
      /\ ActiveFile \in File /\ files \in [Inodes -> File]
  BY ServingFacts, ActiveType DEF Committing, DiskTypeOK
<1>2. KeptDir
  <2>1. \A i \in Inodes : KeptData(i)
    BY <1>1, FsyncedType DEF KeptData, ActiveFile
  <2> QED BY <2>1, SegsType DEF KeptDir, KeptName
<1>3. /\ index[1] \in Nat /\ index[1] > 0 /\ nextLSN \in Nat /\ lastLSN \in Nat /\ firstLSN \in Nat
  BY <1>1, IndexFacts
<1>4. /\ batch.wrote <=> Unpublished
      /\ index[1] <= lastLSN + 1 /\ lastLSN < nextLSN
      /\ firstLSN # 0 => firstLSN = index[1] /\ firstLSN < nextLSN
      /\ firstLSN = 0 /\ ~Unpublished => index[1] = nextLSN
  BY <1>1 DEF Agreement, BatchOK, BoundsOK
<1>5. BatchOK' /\ ~Committing'
  BY <1>1 DEF BatchOK, Committing
<1>6. BoundsOK'
  <2>1. ~Unpublished' /\ lastLSN' < nextLSN' /\ index'[1] <= lastLSN' + 1
    BY <1>3, <1>4 DEF Unpublished
  <2>2. /\ firstLSN' # 0 => firstLSN' = index'[1] /\ firstLSN' < nextLSN'
        /\ firstLSN' = 0 => index'[1] = nextLSN'
    BY <1>3, <1>4 DEF Unpublished, PublishedFirst
  <2> QED BY <1>1, <2>1, <2>2, OpenedIff, OpenedIffNext DEF BoundsOK
<1> QED BY <1>2, <1>5, <1>6, ServingAgreement DEF Writing

\* An fsync of the active segment moves nothing.
LEMMA SyncActiveAgreement ==
  ASSUME ControlOK, ControlOK', PlacementOK, Agreement, SyncActive
  PROVE  Agreement'
<1> USE DEF SyncActive, mem
<1>1. /\ Opened /\ ~Dropping /\ job.kind = "none" /\ active \in Inodes
      /\ ActiveFile \in File /\ files \in [Inodes -> File]
  BY ServingFacts, ActiveType DEF DiskTypeOK
<1>2. KeptDir
  <2>1. \A i \in Inodes : KeptData(i)
    BY <1>1, FsyncedType DEF KeptData, ActiveFile, Flushed
  <2> QED BY <2>1, SegsType DEF KeptDir, KeptName
<1>3. ~Dropping'
  BY <1>1 DEF Dropping
<1> QED BY <1>1, <1>2, <1>3, FrameAgreement

\* Another first element leaves the rest of a sequence.
LEMMA ReplaceHead ==
  ASSUME NEW S, NEW r \in Seq(S), r # << >>, NEW x \in S
  PROVE  LET t == <<x>> \o Tail(r)
         IN  /\ t # << >> /\ Len(t) = Len(r) /\ Len(r) \in Nat
             /\ \A k \in 2..Len(r) : t[k] = r[k]
<1> DEFINE u == Tail(r)
           t == <<x>> \o u
<1>1. /\ Len(r) \in Nat /\ Len(r) > 0 /\ u \in Seq(S) /\ Len(u) = Len(r) - 1
      /\ \A k \in 1..(Len(r) - 1) : u[k] = r[k + 1]
  OBVIOUS
<1> HIDE DEF u
<1>2. /\ Len(t) = Len(u) + 1 /\ t \in Seq(S) /\ \A k \in 1..Len(u) : t[k + 1] = u[k]
  BY <1>1
<1> HIDE DEF t
<1>3. t # << >>
  BY <1>1, <1>2
<1>4. ASSUME NEW k \in 2..Len(r) PROVE t[k] = r[k]
  <2>1. PICK j \in 1..(Len(r) - 1) : k = j + 1
    BY <1>1
  <2> QED BY <2>1, <1>1, <1>2
<1> QED BY <1>1, <1>2, <1>3, <1>4 DEF u, t

\* A record goes to the end of the last segment.
LEMMA WriteRecordAgreement ==
  ASSUME ControlOK, ControlOK', PlacementOK, Agreement, WriteRecord
  PROVE  Agreement'
<1> USE DEF WriteRecord
<1>1. /\ Opened /\ ~Dropping /\ ~HasFresh /\ job.kind = "none" /\ Committing
      /\ LogIndex = index /\ DOMAIN dir = Range(index) /\ ~job.unlinked
  BY ServingFacts DEF Committing, Writing
<1>2. /\ Opened' /\ ~Dropping' /\ ~HasFresh' /\ Committing' /\ LogIndex' = index
  BY <1>1, WriterOpened DEF Opened, Dropping, HasFresh, LogIndex, Committing, Writing
<1>3. /\ Len(index) \in Nat /\ Len(index) > 0 /\ LastBase = index[Len(index)]
      /\ \A k \in 1..Len(index) :
           /\ index[k] \in Nat /\ index[k] \in DOMAIN dir
           /\ k < Len(index) => index[k + 1] = Segs[index[k]] /\ index[k] # LastBase
      /\ LastBase \in DOMAIN dir /\ dir[LastBase] = active
      /\ nextLSN = Segs[LastBase] /\ LastBase <= nextLSN /\ nextLSN \in Nat /\ LastBase \in Nat
      /\ lastLSN \in Nat /\ firstLSN \in Nat
  <2>1. \A k \in 1..Len(index) : k < Len(index) => index[k] # index[Len(index)]
    BY <1>1, IndexFacts, SMTT(30) DEF Ascending
  <2> QED BY <1>1, <2>1, IndexFacts
<1>4. /\ active \in Inodes /\ files[active].data \in Seq(Rec)
      /\ files'[active].data = Append(files[active].data, NewRec)
      /\ \A i \in Inodes : i # active => KeptData(i)
      /\ NewRec \in Rec
  <2>1. active \in Inodes /\ ActiveFile \in File /\ files \in [Inodes -> File] /\ NewRec \in Rec
    BY <1>1, ActiveType, PayloadType DEF DiskTypeOK
  <2>2. Appended(ActiveFile, NewRec).data = Append(ActiveFile.data, NewRec)
    BY <2>1, AppendedType
  <2> QED BY <2>1, <2>2 DEF KeptData, ActiveFile, File
<1>5. DOMAIN Segs' = DOMAIN dir /\ Segs'[LastBase] = nextLSN + 1
  <2>1. dir' = dir /\ DOMAIN Segs' = DOMAIN dir /\ Segs'[LastBase] = LastBase + Len(files'[active].data)
    BY <1>3 DEF Segs, EndOf
  <2>2. Len(files[active].data) \in Nat /\ nextLSN = LastBase + Len(files[active].data)
    BY <1>3, SegsType
  <2>3. Len(files'[active].data) = Len(files[active].data) + 1
    <3>1. PICK q \in Seq(Rec) : q = files[active].data
      BY <1>4
    <3>2. Len(Append(q, NewRec)) = Len(q) + 1
      BY <1>4, AppendType
    <3> QED BY <1>4, <3>1, <3>2
  <2> QED BY <1>3, <2>1, <2>2, <2>3, SMTT(30)
<1>6. ASSUME NEW k \in 1..Len(index), k < Len(index)
      PROVE  Segs'[index[k]] = Segs[index[k]]
  <2>1. index[k] \in DOMAIN dir /\ index[k] # LastBase
    BY <1>3, <1>6
  <2>2. dir[index[k]] # active
    BY <1>1, <2>1 DEF PlacementOK, ActiveOK, NamedOnly
  <2>3. dir[index[k]] \in Inodes
    BY <2>1, SegsType
  <2> QED BY <1>4, <2>1, <2>2, <2>3, SegKept DEF KeptName
<1>7. ChainOK' /\ ScannedOK' /\ DeletionOK'
  <2>1. Range(index) \subseteq DOMAIN dir'
    BY <1>1
  <2>2. \A k \in 1..(Len(index) - 1) : k \in 1..Len(index) /\ k < Len(index)
    BY <1>3
  <2>3. \A k \in 1..(Len(index) - 1) : index[k + 1] = Segs'[index[k]]
    BY <2>2, <1>3, <1>6
  <2>4. ChainOK'
    BY <1>2, <2>1, <2>3 DEF ChainOK
  <2> QED BY <1>1, <1>2, <2>4 DEF ScannedOK, DeletionOK, Writing
<1>8. NamedOK' /\ DropPlanOK'
  BY <1>1, <1>2 DEF NamedOK, DropPlanOK, Writing
<1>9. EndOK'
  BY <1>2, <1>3, <1>5 DEF EndOK, LastOf
<1>10. Unpublished' /\ index[1] <= lastLSN + 1 /\ lastLSN < nextLSN'
       /\ (firstLSN # 0 => firstLSN = index[1] /\ firstLSN < nextLSN')
  BY <1>1, <1>3 DEF Agreement, BoundsOK, Unpublished
<1>11. BoundsOK'
  BY <1>2, <1>10 DEF BoundsOK
<1>12. BatchOK'
  <2> DEFINE r == batch.reqs
             t == <<Tail(Head(r))>> \o Tail(r)
  <2>1. r \in Seq(Seq(Nat)) /\ r # << >> /\ Tail(Head(r)) \in Seq(Nat)
    BY PayloadType DEF ControlTypeOK, Writing
  <2>2. /\ t # << >> /\ Len(t) = Len(r) /\ Len(r) \in Nat
        /\ \A k \in 2..Len(r) : t[k] = r[k]
    BY <2>1, ReplaceHead
  <2>3. \A k \in 2..Len(r) : r[k] # << >>
    BY <1>1 DEF Agreement, BatchOK
  <2>4. batch'.reqs = t /\ job' = job
    BY DEF ControlTypeOK
  <2> HIDE DEF r, t
  <2> QED BY <1>1, <1>10, <2>2, <2>3, <2>4 DEF BatchOK
<1> QED BY <1>7, <1>8, <1>9, <1>11, <1>12 DEF Agreement

-----------------------------------------------------------------------------
(* The segment roll.                                                       *)

\* A segment that is to roll has a record.
LEMMA StartRollAgreement ==
  ASSUME ControlOK, ControlOK', PlacementOK, Agreement, StartRoll
  PROVE  Agreement'
<1> USE DEF StartRoll, mem
<1>1. /\ Opened /\ ~Dropping /\ ~HasFresh /\ job.kind = "none" /\ Committing
      /\ LogIndex = index /\ DOMAIN dir = Range(index) /\ ~job.unlinked
  BY ServingFacts DEF Committing, Writing
<1>2. /\ job' = [NoJob EXCEPT !.kind = "roll", !.base = nextLSN] /\ job'.kind = "roll"
      /\ ~job'.unlinked
      /\ Opened' /\ ~Dropping' /\ ~HasFresh' /\ LogIndex' = index
      /\ Committing'
  BY DEF Opened, Dropping, HasFresh, LogIndex, NoJob, Committing
<1>3. active \in Inodes /\ ActiveFile \in File /\ files \in [Inodes -> File]
  BY <1>1, ActiveType DEF DiskTypeOK
<1>4. KeptDir
  <2>1. \A i \in Inodes : KeptData(i)
    BY <1>3, FsyncedType DEF KeptData, ActiveFile, Sealed
  <2> QED BY <2>1, SegsType DEF KeptDir, KeptName
<1>5. Segs' = Segs /\ DOMAIN dir' = DOMAIN dir
  BY <1>4, SegsKept DEF KeptDir
<1>6. /\ LastBase \in DOMAIN dir /\ dir[LastBase] = active /\ nextLSN = Segs[LastBase]
      /\ LastBase = index[Len(index)] /\ LastBase < nextLSN
  <2>1. /\ LastBase \in DOMAIN dir /\ dir[LastBase] = active /\ nextLSN = Segs[LastBase]
        /\ LastBase = index[Len(index)] /\ LastBase \in Nat
    BY <1>1, IndexFacts, SegsType
  <2>2. nextLSN = LastBase + Len(ActiveFile.data) /\ ActiveFile.data \in Seq(Rec)
    BY <1>1, <1>3 DEF PlacementOK, ActiveOK, File
  <2>3. ActiveFile.data # << >>
    BY DEF NeedsRoll
  <2>4. Len(ActiveFile.data) \in Nat /\ Len(ActiveFile.data) > 0
    BY <2>2, <2>3, LastElement
  <2> QED BY <2>1, <2>2, <2>4
<1>7. ChainOK' /\ ScannedOK' /\ DeletionOK'
  BY <1>1, <1>2, <1>5 DEF Agreement, ChainOK, ScannedOK, DeletionOK
<1>8. NamedOK' /\ DropPlanOK'
  BY <1>1, <1>2, <1>5 DEF NamedOK, DropPlanOK
<1>9. EndOK'
  <2>1. dir'[LastBase] = active
    BY <1>4, <1>6 DEF KeptDir, KeptName
  <2> QED BY <1>2, <1>5, <1>6, <2>1 DEF EndOK, LastOf
<1>10. BatchOK' /\ BoundsOK'
  BY <1>1, <1>2 DEF Agreement, BatchOK, BoundsOK, Unpublished, Writing
<1> QED BY <1>7, <1>8, <1>9, <1>10 DEF Agreement

\* The new segment begins where the sealed one ends.
LEMMA InstallRollAgreement ==
  ASSUME ControlOK, ControlOK', PlacementOK, PlacementOK', Agreement, HarmlessFailures, InstallRoll
  PROVE  Agreement'
<1> USE DEF InstallRoll
<1>1. /\ Opened /\ ~Dropping /\ HasFresh /\ job.kind = "roll" /\ Committing
      /\ LogIndex = index /\ fresh \in Inodes /\ ~job.unlinked
  BY WriterOpened
  DEF Dropping, HasFresh, StepsOK, Kinds, Committing, LogIndex, Agreement, DeletionOK
<1>2. /\ pc' = "write" /\ batch' = batch /\ job' = NoJob /\ job'.kind = "none" /\ ~job'.unlinked
      /\ Opened' /\ ~Dropping' /\ ~HasFresh' /\ Committing'
      /\ LogIndex' = index' /\ index' = Append(index, job.base) /\ active' = fresh
  BY NoFault DEF HarmlessCalls, NoJob, Opened, Dropping, HasFresh, LogIndex, Committing
<1>3. DOMAIN dir = Range(index) \cup {job.base} /\ job.base \in DOMAIN dir /\ dir[job.base] = fresh
  BY <1>1 DEF Agreement, NamedOK
<1>4. /\ job.base = nextLSN /\ LastBase < nextLSN
  BY <1>1 DEF PlacementOK, PlanOK
<1>5. KeptDir
  <2>1. \A b \in DOMAIN dir : dir[b] \in Inodes \cap Live(dir, durableDir, active', Nil)
    BY SegsType DEF Live, Range
  <2> QED BY <2>1, CollectedKept DEF KeptDir, KeptName
<1>6. Segs' = Segs /\ DOMAIN dir' = DOMAIN dir
  BY <1>5, SegsKept DEF KeptDir
<1>7. Segs[job.base] = job.base
  <2>1. files[fresh].data = << >>
    BY <1>1 DEF PlacementOK, FreshOK
  <2>2. job.base \in Nat /\ Segs[job.base] = job.base + Len(files[dir[job.base]].data)
    BY <1>3, SegsType
  <2>3. files[dir[job.base]].data = << >>
    BY <1>3, <2>1
  <2> QED BY <2>2, <2>3
<1> DEFINE n == Len(index)
           t == Append(index, job.base)
<1>8. /\ n \in Nat /\ n > 0 /\ index \in Seq(Nat) /\ LastBase = index[n] /\ nextLSN = Segs[LastBase]
      /\ \A k \in 1..n : k < n => index[k + 1] = Segs[index[k]]
  BY <1>1, IndexFacts
<1>9. /\ t \in Seq(Nat) /\ Len(t) = n + 1 /\ t[n + 1] = job.base /\ DOMAIN t = 1..(n + 1)
      /\ \A k \in 1..n : t[k] = index[k]
      /\ Range(t) = Range(index) \cup {job.base}
  <2>1. job.base \in Nat
    BY JobType
  <2>2. /\ t \in Seq(Nat) /\ Len(t) = n + 1 /\ t[n + 1] = job.base
        /\ DOMAIN t = 1..(n + 1) /\ DOMAIN index = 1..n /\ \A k \in 1..n : t[k] = index[k]
    BY <1>8, <2>1, AppendType
  <2>3. Range(t) = Range(index) \cup {job.base}
    BY <1>8, <2>2 DEF Range
  <2> QED BY <2>2, <2>3
<1> HIDE DEF n, t
<1>10. \A k \in 1..n : t[k + 1] = Segs[t[k]]
  <2> SUFFICES ASSUME NEW k \in 1..n PROVE t[k + 1] = Segs[t[k]]
    OBVIOUS
  <2>1. CASE k = n
    BY <2>1, <1>4, <1>8, <1>9
  <2>2. CASE k # n
    <3>1. k < n /\ k + 1 \in 1..n
      BY <1>8, <2>2
    <3> QED BY <3>1, <1>8, <1>9
  <2> QED BY <2>1, <2>2
<1>11. index' = t
  BY <1>2 DEF t
<1>12. ChainOK' /\ ScannedOK' /\ DeletionOK'
  <2>1. Len(t) - 1 = n
    BY <1>8, <1>9
  <2>2. ChainOK'
    BY <1>2, <1>3, <1>6, <1>9, <1>10, <1>11, <2>1 DEF ChainOK
  <2> QED BY <1>2, <2>2 DEF ScannedOK, DeletionOK
<1>13. NamedOK' /\ DropPlanOK'
  BY <1>2, <1>3, <1>6, <1>9, <1>11 DEF NamedOK, DropPlanOK
<1>14. EndOK'
  <2>1. batch.reqs # << >> /\ Head(batch.reqs) # << >>
    BY <1>1 DEF StepsOK, Agreement, BatchOK
  <2>2. Writing'
    BY <1>2, <2>1 DEF Writing
  <2> QED BY <1>2, <1>3, <1>4, <1>6, <1>7, <1>9, <1>11, <2>2 DEF EndOK, LastOf
<1>15. BatchOK'
  BY <1>1, <1>2 DEF Agreement, BatchOK, Unpublished
<1>16. BoundsOK'
  <2>1. index'[1] = index[1]
    BY <1>8, <1>9, <1>11, SMTT(30)
  <2> QED BY <1>1, <1>2, <2>1 DEF Agreement, BoundsOK, Unpublished
<1> QED BY <1>12, <1>13, <1>14, <1>15, <1>16 DEF Agreement

-----------------------------------------------------------------------------
(* Segment creation.                                                       *)

\* No segment of an open log starts at nextLSN once its last one has a record.
LEMMA NextIsFree ==
  ASSUME ControlOK, PlacementOK, Agreement, Opened, ~Dropping, LastBase < nextLSN
  PROVE  \A k \in 1..Len(index) : index[k] < nextLSN
<1>1. /\ LastBase \in Nat /\ nextLSN \in Nat
      /\ \A k \in 1..Len(index) : index[k] \in Nat /\ index[k] <= LastBase
  BY IndexFacts, SegsType
<1> QED BY <1>1

\* The name of a segment to be created is free.
LEMMA BaseIsFree ==
  ASSUME ControlOK, PlacementOK, Agreement,
         pc = "createOpen" \/ pc = "clearLeftover"
  PROVE  /\ job.base \notin DOMAIN dir /\ ~HasFresh /\ ~Dropping /\ ~job.unlinked
         /\ job.kind \in {"init", "roll", "cutAll"}
         /\ job.kind \in {"roll", "cutAll"} =>
              /\ Opened /\ LastBase < nextLSN /\ job.base = nextLSN
              /\ DOMAIN dir = Range(index)
         /\ job.kind = "init" => ~Opened /\ DOMAIN dir = {}
<1>1. /\ ~HasFresh /\ ~Dropping /\ job.kind \in {"init", "roll", "cutAll"} /\ ~job.unlinked
  BY DEF HasFresh, Dropping, StepsOK, Kinds, Agreement, DeletionOK
<1>2. ASSUME job.kind \in {"roll", "cutAll"}
      PROVE  /\ Opened /\ LastBase < nextLSN /\ job.base = nextLSN
             /\ DOMAIN dir = Range(index) /\ job.base \notin DOMAIN dir
  <2>1. Opened /\ LastBase < nextLSN /\ job.base = nextLSN
    BY <1>1, <1>2, WriterOpened DEF PlacementOK, PlanOK, Agreement, DropPlanOK
  <2>2. DOMAIN dir = Range(index)
    BY <1>1, <2>1 DEF Agreement, NamedOK
  <2>3. \A k \in 1..Len(index) : index[k] < nextLSN /\ index[k] \in Nat
    BY <1>1, <2>1, NextIsFree, IndexFacts
  <2>4. nextLSN \notin Range(index)
    BY <1>1, <2>1, <2>3, IndexFacts DEF Range
  <2> QED BY <2>1, <2>2, <2>4
<1>3. job.kind = "init" => ~Opened /\ DOMAIN dir = {}
  BY <1>1 DEF Opened, Agreement, NamedOK
<1> QED BY <1>1, <1>2, <1>3

\* A new segment is empty; the others stay.
LEMMA CreateOpenSegs ==
  ASSUME ControlOK, PlacementOK, Agreement, CreateOpen
  PROVE  /\ fresh' = dir'[job.base] /\ DOMAIN dir' = DOMAIN dir \cup {job.base}
         /\ Segs'[job.base] = job.base
         /\ \A b \in DOMAIN dir : KeptName(b) /\ Segs'[b] = Segs[b]
<1> USE DEF CreateOpen
<1>1. job.base \notin DOMAIN dir
  BY BaseIsFree
<1>2. PICK i \in FreeInodes : /\ files' = [files EXCEPT ![i] = NewFile]
                              /\ dir' = Link(dir, job.base, i) /\ fresh' = i
  OBVIOUS
<1>3. /\ job.base \in Nat /\ i \in Inodes /\ DOMAIN dir \subseteq Nat /\ Range(dir) \subseteq Inodes
      /\ files \in [Inodes -> File] /\ i \notin Range(dir)
  BY JobType DEF DiskTypeOK, FreeInodes, Live
<1>4. /\ DOMAIN dir' = DOMAIN dir \cup {job.base} /\ dir'[job.base] = i
      /\ \A b \in DOMAIN dir : KeptName(b)
  <2>1. /\ DOMAIN dir' = DOMAIN dir \cup {job.base} /\ dir'[job.base] = i
        /\ \A b \in DOMAIN dir : dir'[b] = dir[b]
    <3>1. PICK d, base : d = Link(dir, base, i) /\ base = job.base
      OBVIOUS
    <3>2. /\ DOMAIN d = DOMAIN dir \cup {base} /\ d[base] = i
          /\ \A b \in DOMAIN dir : b # base => d[b] = dir[b]
      BY <3>1 DEF Link
    <3> QED BY <1>1, <1>2, <3>1, <3>2
  <2>2. \A b \in DOMAIN dir : dir[b] # i
    BY <1>3 DEF Range
  <2> QED BY <1>2, <1>3, <2>1, <2>2 DEF KeptName, KeptData
<1>5. \A b \in DOMAIN dir : Segs'[b] = Segs[b]
  BY <1>4, SegKept
<1>6. Segs'[job.base] = job.base
  <2>1. job.base \in DOMAIN dir' /\ files'[i].data = << >>
    BY <1>2, <1>3, <1>4, NewFileType
  <2>2. Segs'[job.base] = job.base + Len(files'[dir'[job.base]].data)
    BY <2>1, SegNext
  <2>3. files'[dir'[job.base]].data = << >>
    BY <1>4, <2>1
  <2> QED BY <1>3, <2>2, <2>3
<1> QED BY <1>2, <1>4, <1>5, <1>6

\* A new segment ends the log once it is installed.
LEMMA CreateOpenAgreement ==
  ASSUME ControlOK, ControlOK', PlacementOK, PlacementOK', Agreement, CreateOpen
  PROVE  Agreement'
<1> USE DEF CreateOpen, mem
<1>1. /\ job.base \notin DOMAIN dir /\ ~HasFresh /\ ~Dropping /\ ~job.unlinked
      /\ job.kind \in {"init", "roll", "cutAll"}
      /\ job.kind \in {"roll", "cutAll"} =>
           /\ Opened /\ LastBase < nextLSN /\ job.base = nextLSN
           /\ DOMAIN dir = Range(index)
      /\ job.kind = "init" => ~Opened /\ DOMAIN dir = {}
  BY BaseIsFree
<1>4. /\ DOMAIN dir' = DOMAIN dir \cup {job.base} /\ fresh' = dir'[job.base]
      /\ Segs'[job.base] = job.base
      /\ \A b \in DOMAIN dir : KeptName(b) /\ Segs'[b] = Segs[b]
  BY CreateOpenSegs
<1>7. /\ pc' = "createHeader" /\ job' = job /\ batch' = batch /\ HasFresh'
      /\ Opened' <=> Opened
      /\ Dropping' <=> job.kind = "cutAll"
      /\ Committing' <=> Committing
  BY <1>1 DEF HasFresh, Opened, Dropping, Committing
<1>8. ScannedOK' /\ BatchOK' /\ BoundsOK' /\ DropPlanOK'
  <2>1. DropPlanOK'
    BY <1>7 DEF DropPlanOK, Dropping
  <2> QED BY <1>7, <2>1 DEF Agreement, ScannedOK, BatchOK, BoundsOK, Unpublished
<1>9. CASE job.kind = "cutAll"
  <2>1. /\ job.idx = <<nextLSN>> /\ LogIndex' = job.idx /\ job.names = index
    BY <1>1, <1>7, <1>9 DEF PlacementOK, PlanOK, LogIndex, Agreement, DropPlanOK
  <2>2. ChainOK'
    <3>1. Range(job.idx) = {nextLSN} /\ Len(job.idx) = 1
      BY <2>1 DEF Range
    <3> QED BY <1>1, <1>4, <1>7, <1>9, <2>1, <3>1 DEF ChainOK
  <2>3. DeletionOK'
    <3>1. Range(job.idx) = {nextLSN} /\ Ascending(index)
      BY <1>1, <1>9, <2>1, IndexFacts DEF Range
    <3>2. Range(index) \cap {nextLSN} = {} /\ DOMAIN dir' = Range(index) \cup {nextLSN}
      BY <1>1, <1>4, <1>9
    <3> QED BY <1>1, <1>7, <2>1, <3>1, <3>2 DEF DeletionOK, Pending
  <2>4. NamedOK'
    BY <1>4, <1>7, <1>9 DEF NamedOK
  <2>5. EndOK'
    <3>1. ReplacesActive' /\ Len(job.idx) = 1 /\ job.idx[1] = nextLSN
      BY <1>7, <1>9, <2>1 DEF ReplacesActive
    <3> QED BY <1>1, <1>4, <1>7, <1>9, <2>1, <3>1 DEF EndOK, LastOf
  <2> QED BY <1>8, <2>2, <2>3, <2>4, <2>5 DEF Agreement
<1>10. CASE job.kind # "cutAll"
  <2>1. LogIndex' = LogIndex /\ ~Dropping'
    BY <1>1, <1>7, <1>10 DEF LogIndex
  <2>2. ChainOK'
    BY <1>4, <2>1, ChainKept DEF Agreement
  <2>3. DeletionOK'
    BY <1>1, <1>7, <2>1 DEF DeletionOK
  <2>4. NamedOK'
    <3>1. job.kind = "init" => job.base = 1
      BY DEF PlacementOK, PlanOK
    <3>2. Opened => job.kind = "roll"
      BY <1>1, <1>10
    <3> QED BY <1>1, <1>4, <1>7, <1>10, <3>1, <3>2 DEF NamedOK
  <2>5. EndOK'
    <3>1. ASSUME Opened
          PROVE  /\ LastBase \in DOMAIN dir /\ dir[LastBase] = active /\ nextLSN = Segs[LastBase]
                 /\ LastBase < nextLSN /\ LogIndex' = index
                 /\ dir'[LastBase] = active /\ Segs'[LastBase] = nextLSN
                 /\ LastBase = index[Len(index)]
      <4>1. /\ LastBase \in DOMAIN dir /\ dir[LastBase] = active /\ nextLSN = Segs[LastBase]
            /\ LastBase < nextLSN /\ LogIndex' = index /\ LastBase = index[Len(index)]
        BY <3>1, <1>1, <1>10, <2>1, IndexFacts
      <4> QED BY <4>1, <1>4 DEF KeptName
    <3> QED BY <1>7, <2>1, <3>1 DEF EndOK, LastOf
  <2> QED BY <1>8, <2>2, <2>3, <2>4, <2>5 DEF Agreement
<1> QED BY <1>9, <1>10

\* Writing the header and the fsyncs keep the directory.
LEMMA CreateRestKept ==
  ASSUME ControlOK, CreateHeader \/ CreateSync \/ CreateSyncDir
  PROVE  /\ KeptDir /\ (Dropping' <=> Dropping)
         /\ UNCHANGED <<active, index, nextLSN, firstLSN, lastLSN, batch, job, fresh>>
         /\ pc \in {"createHeader", "createSync", "createSyncDir"}
         /\ pc' \in {"createSync", "createSyncDir", "installRoll", "installEmpty", "remove"}
<1> USE DEF mem
<1>1. /\ HasFresh /\ fresh \in Inodes /\ files[fresh] \in File /\ files \in [Inodes -> File]
  BY OpenedIff DEF HasFresh, CreateHeader, CreateSync, CreateSyncDir, DiskTypeOK
<1>2. KeptDir
  <2>1. CASE CreateHeader \/ CreateSync
    <3>1. \A i \in Inodes : KeptData(i)
      <4>1. [files[fresh] EXCEPT !.hdr = "cached"].data = files[fresh].data
        BY <1>1 DEF File
      <4>2. CASE CreateHeader
        BY <4>1, <4>2, <1>1 DEF KeptData, CreateHeader
      <4>3. CASE CreateSync
        BY <4>3, <1>1, FsyncedType DEF KeptData, CreateSync
      <4> QED BY <2>1, <4>2, <4>3
    <3> QED BY <2>1, <3>1, SegsType DEF KeptDir, KeptName, CreateHeader, CreateSync
  <2>2. CASE CreateSyncDir
    <3>1. \A b \in DOMAIN dir : dir[b] \in Inodes \cap Live(dir, dir, active, fresh)
      BY SegsType DEF Live, Range
    <3> QED BY <2>2, <3>1, CollectedKept DEF KeptDir, KeptName, CreateSyncDir
  <2> QED BY <2>1, <2>2
<1>3. /\ UNCHANGED <<active, index, nextLSN, firstLSN, lastLSN, batch, job, fresh>>
      /\ pc \in {"createHeader", "createSync", "createSyncDir"}
      /\ pc' \in {"createSync", "createSyncDir", "installRoll", "installEmpty", "remove"}
      /\ pc' = "installRoll" => job.kind = "roll"
      /\ pc' = "installEmpty" => job.kind = "init"
      /\ pc' = "remove" => job.kind = "cutAll"
  <2>1. pc \in {"createHeader", "createSync", "createSyncDir"}
    BY DEF CreateHeader, CreateSync, CreateSyncDir
  <2>2. job.kind \in {"init", "roll", "cutAll"}
    BY <2>1 DEF StepsOK, Kinds
  <2> QED BY <2>1, <2>2 DEF CreateHeader, CreateSync, CreateSyncDir
<1>4. Dropping' <=> Dropping
  <2>1. job.kind \in {"init", "roll", "cutAll"}
    BY <1>3 DEF StepsOK, Kinds
  <2> QED BY <1>3, <2>1 DEF Dropping
<1> QED BY <1>2, <1>3, <1>4

\* They only move on.
LEMMA CreateRestAgreement ==
  ASSUME ControlOK, ControlOK', PlacementOK, Agreement,
         CreateHeader \/ CreateSync \/ CreateSyncDir
  PROVE  Agreement'
BY CreateRestKept, FrameAgreement DEF mem

-----------------------------------------------------------------------------
(* Truncate and CutOffset begin.                                           *)

\* The first d elements of an ascending sequence and the rest.
LEMMA SplitAscending ==
  ASSUME NEW s \in Seq(Nat), Ascending(s), NEW d \in Nat, d < Len(s)
  PROVE  LET t == SubSeq(s, 1, d)
             u == SubSeq(s, d + 1, Len(s))
         IN  /\ t \in Seq(Nat) /\ u \in Seq(Nat) /\ Len(t) = d /\ Len(u) = Len(s) - d
             /\ \A k \in 1..d : t[k] = s[k]
             /\ \A k \in 1..Len(u) : u[k] = s[d + k]
             /\ Ascending(t) /\ Range(t) \cap Range(u) = {}
             /\ Range(s) = Range(t) \cup Range(u)
<1> DEFINE t == SubSeq(s, 1, d)
           u == SubSeq(s, d + 1, Len(s))
<1>1. /\ t \in Seq(Nat) /\ u \in Seq(Nat) /\ Len(t) = d /\ Len(u) = Len(s) - d
      /\ \A k \in 1..d : t[k] = s[k]
      /\ \A k \in 1..(Len(s) - d) : u[k] = s[d + k]
  <2>1. Len(s) \in Nat /\ d <= Len(s)
    OBVIOUS
  <2> QED BY <2>1, SplitAt, SMTT(30)
<1>2. /\ Len(s) \in Nat /\ DOMAIN s = 1..Len(s) /\ DOMAIN t = 1..d
      /\ DOMAIN u = 1..(Len(s) - d) /\ \A k \in 1..Len(s) : s[k] \in Nat
  BY <1>1
<1> HIDE DEF t, u
<1>3. \A j, k \in 1..Len(s) : j < k => s[j] < s[k]
  BY <1>2 DEF Ascending
<1>4. Ascending(t)
  <2> SUFFICES ASSUME NEW j \in 1..d, NEW k \in 1..d, j < k PROVE t[j] < t[k]
    BY <1>2 DEF Ascending
  <2>1. j \in 1..Len(s) /\ k \in 1..Len(s)
    BY <1>2
  <2> QED BY <1>1, <1>3, <2>1
<1>5. ASSUME NEW j \in 1..d, NEW k \in 1..(Len(s) - d) PROVE t[j] # u[k]
  <2>1. j \in 1..Len(s) /\ d + k \in 1..Len(s) /\ j < d + k
    BY <1>2
  <2>2. s[j] < s[d + k] /\ s[j] \in Nat /\ s[d + k] \in Nat
    BY <1>2, <1>3, <2>1
  <2> QED BY <1>1, <2>2, SMTT(30)
<1>6. \A k \in 1..Len(s) : k \in 1..d \/ \E j \in 1..(Len(s) - d) : k = d + j
  <2> SUFFICES ASSUME NEW k \in 1..Len(s), k \notin 1..d
               PROVE  \E j \in 1..(Len(s) - d) : k = d + j
    OBVIOUS
  <2>1. k - d \in 1..(Len(s) - d) /\ k = d + (k - d)
    BY <1>2
  <2> QED BY <2>1
<1>7. Range(s) \subseteq Range(t) \cup Range(u)
  <2> SUFFICES ASSUME NEW k \in 1..Len(s) PROVE s[k] \in Range(t) \cup Range(u)
    BY <1>2 DEF Range
  <2>1. CASE k \in 1..d
    BY <2>1, <1>1, <1>2 DEF Range
  <2>2. CASE k \notin 1..d
    <3>1. PICK j \in 1..(Len(s) - d) : k = d + j
      BY <1>6, <2>2
    <3> QED BY <3>1, <1>1, <1>2 DEF Range
  <2> QED BY <2>1, <2>2
<1>8. Range(t) \subseteq Range(s) /\ Range(u) \subseteq Range(s)
  <2>1. ASSUME NEW k \in 1..d PROVE t[k] \in Range(s)
    <3>1. k \in 1..Len(s)
      BY <1>2
    <3> QED BY <3>1, <1>1, <1>2 DEF Range
  <2>2. ASSUME NEW k \in 1..(Len(s) - d) PROVE u[k] \in Range(s)
    <3>1. d + k \in 1..Len(s)
      BY <1>2
    <3> QED BY <3>1, <1>1, <1>2 DEF Range
  <2> QED BY <2>1, <2>2, <1>2 DEF Range
<1>9. Range(t) \cap Range(u) = {}
  BY <1>2, <1>5 DEF Range
<1> QED BY <1>1, <1>4, <1>7, <1>8, <1>9 DEF t, u

\* The two parts of a sequence of LSNs.
LEMMA SplitLSNs ==
  ASSUME NEW s \in Seq(Nat), NEW d \in Nat, d <= Len(s)
  PROVE  /\ SubSeq(s, 1, d) \in Seq(Nat) /\ SubSeq(s, d + 1, Len(s)) \in Seq(Nat)
         /\ Len(SubSeq(s, 1, d)) = d /\ Len(SubSeq(s, d + 1, Len(s))) = Len(s) - d
         /\ \A k \in 1..d : SubSeq(s, 1, d)[k] = s[k]
         /\ \A k \in 1..(Len(s) - d) : SubSeq(s, d + 1, Len(s))[k] = s[d + k]
<1>1. d + 1 \in Int /\ d \in Int /\ Len(s) \in Int /\ 1 \in Int
  OBVIOUS
<1>2. /\ SubSeq(s, 1, d) \in Seq(Nat) /\ Len(SubSeq(s, 1, d)) = d
      /\ \A k \in 1..d : SubSeq(s, 1, d)[k] = s[k]
  <2>1. \A k \in 1..d : s[k] \in Nat
    OBVIOUS
  <2> QED BY <1>1, <2>1, SubSeqProperties
<1>3. /\ SubSeq(s, d + 1, Len(s)) \in Seq(Nat) /\ Len(SubSeq(s, d + 1, Len(s))) = Len(s) - d
      /\ \A k \in 1..(Len(s) - d) : SubSeq(s, d + 1, Len(s))[k] = s[d + k]
  <2>1. \A k \in (d + 1)..Len(s) : s[k] \in Nat
    OBVIOUS
  <2> QED BY <1>1, <2>1, SubSeqProperties
<1> QED BY <1>2, <1>3

\* A bound that falls on the base of a segment keeps the segments from it on.
LEMMA StartDeletion ==
  ASSUME ControlOK, ControlOK', PlacementOK, Agreement, pc = "idle",
         UNCHANGED <<disk, mem, batch, fresh>>, pc' = "remove",
         NEW d \in Nat, d < Len(index), index[d + 1] < nextLSN,
         job'.kind \in {"truncate", "cutBelow"}, ~job'.unlinked,
         job'.names = SubSeq(index, 1, d), job'.idx = SubSeq(index, d + 1, Len(index))
  PROVE  Agreement'
<1> USE DEF disk, mem
<1>1. /\ Opened /\ ~Dropping /\ ~HasFresh /\ LogIndex = index /\ DOMAIN dir = Range(index)
      /\ ~Committing /\ ~Unpublished /\ ~Writing
  BY ServingFacts
<1> DEFINE n == Len(index)
           t == SubSeq(index, 1, d)
           u == SubSeq(index, d + 1, n)
<1>2. /\ n \in Nat /\ n > 0 /\ index \in Seq(Nat) /\ LastBase = index[n] /\ nextLSN = Segs[LastBase]
      /\ Ascending(index) /\ dir[LastBase] = active
      /\ \A k \in 1..n : k < n => index[k + 1] = Segs[index[k]]
      /\ \A k \in 1..n : index[k] \in Nat /\ index[k] \in DOMAIN dir
      /\ LastBase < nextLSN \/ n = 1
      /\ firstLSN \in Nat /\ nextLSN \in Nat
  BY <1>1, IndexFacts
<1>3. /\ t \in Seq(Nat) /\ u \in Seq(Nat) /\ Len(t) = d /\ Len(u) = n - d
      /\ \A k \in 1..d : t[k] = index[k]
      /\ \A k \in 1..Len(u) : u[k] = index[d + k]
      /\ Ascending(t) /\ Range(t) \cap Range(u) = {}
      /\ Range(index) = Range(t) \cup Range(u)
  BY <1>2, SplitAscending
<1> HIDE DEF n, t, u
<1>4. job'.names = t /\ job'.idx = u
  BY DEF n, t, u
<1>5. /\ Opened' /\ Dropping' /\ ~HasFresh' /\ LogIndex' = u /\ Segs' = Segs /\ ~Committing'
  BY <1>4 DEF Opened, Dropping, HasFresh, LogIndex, Segs, EndOf, Committing
<1>6. ChainOK'
  <2>1. Range(u) \subseteq DOMAIN dir'
    BY <1>1, <1>3
  <2>2. ASSUME NEW k \in 1..(Len(u) - 1) PROVE u[k + 1] = Segs[u[k]]
    <3>1. PICK m \in Nat : m = d + k
      BY <1>2
    <3>2. /\ k \in 1..Len(u) /\ k + 1 \in 1..Len(u) /\ m \in 1..n /\ m < n
          /\ d + (k + 1) = m + 1
      BY <1>2, <1>3, <3>1
    <3>3. u[k] = index[m] /\ u[k + 1] = index[m + 1]
      BY <1>3, <3>1, <3>2
    <3> QED BY <3>2, <3>3, <1>2
  <2> QED BY <1>5, <2>1, <2>2 DEF ChainOK
<1>7. DeletionOK' /\ ScannedOK' /\ BatchOK'
  BY <1>1, <1>3, <1>4, <1>5 DEF DeletionOK, Pending, ScannedOK, BatchOK
<1>8. NamedOK'
  BY <1>5 DEF NamedOK
<1>9. u[Len(u)] = LastBase /\ u[1] = index[d + 1] /\ Len(u) > 0
  <2>1. Len(u) \in 1..Len(u) /\ 1 \in 1..Len(u) /\ d + Len(u) = n
    BY <1>2, <1>3 DEF n
  <2> QED BY <2>1, <1>2, <1>3
<1>10. LastBase < nextLSN
  <2>1. n = 1 => d = 0
    BY <1>2 DEF n
  <2> QED BY <2>1, <1>2
<1>11. EndOK'
  <2>1. ~ReplacesActive'
    BY DEF ReplacesActive
  <2> QED BY <1>2, <1>5, <1>9, <1>10, <2>1 DEF EndOK, LastOf
<1>12. BoundsOK'
  BY <1>1, <1>5 DEF Agreement, BoundsOK, Unpublished
<1>13. DropPlanOK'
  <2>1. firstLSN <= u[1]
    <3>1. firstLSN # 0 => firstLSN = index[1]
      BY <1>1 DEF Agreement, BoundsOK
    <3>2. d + 1 \in 1..n /\ 1 \in 1..n /\ (1 < d + 1 \/ d + 1 = 1)
      BY <1>2 DEF n
    <3>3. index[1] <= index[d + 1] /\ index[1] \in Nat /\ index[d + 1] \in Nat
      <4>1. DOMAIN index = 1..n
        BY <1>2 DEF n
      <4>2. 1 < d + 1 => index[1] < index[d + 1]
        BY <1>2, <3>2, <4>1 DEF Ascending
      <4>3. index[1] \in Nat /\ index[d + 1] \in Nat
        BY <1>2, <3>2
      <4> QED BY <3>2, <4>2, <4>3
    <3> QED BY <1>2, <1>9, <3>1, <3>3
  <2>2. pc' = "remove" /\ Dropping' /\ job'.kind # "cutAll" /\ u[1] < nextLSN
    BY <1>5, <1>9
  <2> QED BY <1>4, <2>1, <2>2 DEF DropPlanOK
<1> QED BY <1>6, <1>7, <1>8, <1>11, <1>12, <1>13 DEF Agreement

\* Truncate drops the segments that end at or below its bound.
LEMMA TruncateAgreement ==
  ASSUME ControlOK, ControlOK', PlacementOK, Agreement, NEW upTo, Truncate(upTo)
  PROVE  Agreement'
<1> DEFINE d == Deletable(index, upTo)
<1>1. /\ pc = "idle" /\ d > 0 /\ pc' = "remove" /\ UNCHANGED <<disk, mem, batch, fresh>>
      /\ job' = [NoJob EXCEPT !.kind = "truncate", !.names = SubSeq(index, 1, d),
                              !.idx = SubSeq(index, d + 1, Len(index))]
  BY DEF Truncate, StartDrop, DeletedByTruncate
<1>2. Opened /\ ~Dropping /\ ~Writing
  BY <1>1, ServingFacts
<1>3. d \in Nat /\ d < Len(index) /\ d > 0
  BY <1>1, <1>2, IndexFacts, DeletableType
<1> HIDE DEF d
<1>4. index[d + 1] < nextLSN
  <2>1. Len(index) \in Nat /\ (LastBase < nextLSN \/ Len(index) = 1)
    BY <1>2, IndexFacts
  <2>2. d + 1 \in 1..Len(index) /\ Len(index) # 1
    <3>1. PICK e \in Nat, n \in Nat : e = d /\ n = Len(index)
      BY <1>3, <2>1
    <3>2. e + 1 \in 1..n /\ n # 1
      BY <1>3, <3>1
    <3> QED BY <3>1, <3>2
  <2>3. index[d + 1] <= LastBase /\ index[d + 1] \in Nat /\ LastBase \in Nat /\ nextLSN \in Nat
    BY <1>2, <2>2, IndexFacts, SegsType
  <2> QED BY <2>1, <2>2, <2>3
<1>5. /\ job'.kind = "truncate" /\ ~job'.unlinked /\ job'.names = SubSeq(index, 1, d)
      /\ job'.idx = SubSeq(index, d + 1, Len(index))
  BY <1>1 DEF NoJob
<1> QED BY <1>1, <1>3, <1>4, <1>5, StartDeletion

\* A cut that changes nothing.
LEMMA CutNoopAgreement ==
  ASSUME ControlOK, ControlOK', PlacementOK, Agreement, NEW upTo, CutNoop(upTo)
  PROVE  Agreement'
<1> USE DEF CutNoop, disk, mem
<1>1. KeptDir /\ ~Dropping /\ ~Dropping'
  BY ServingFacts DEF KeptDir, KeptName, KeptData, Dropping
<1> QED BY <1>1, FrameAgreement

\* An element put in front of a sequence.
LEMMA PrependType ==
  ASSUME NEW x \in Nat, NEW t \in Seq(Nat)
  PROVE  /\ <<x>> \o t \in Seq(Nat) /\ Len(<<x>> \o t) = Len(t) + 1 /\ (<<x>> \o t)[1] = x
         /\ \A i \in 1..Len(t) : (<<x>> \o t)[i + 1] = t[i]
OBVIOUS

\* A sequence from b on is its b-th element and what follows.
LEMMA ConsSubSeq ==
  ASSUME NEW s \in Seq(Nat), NEW b \in 1..Len(s)
  PROVE  <<s[b]>> \o SubSeq(s, b + 1, Len(s)) = SubSeq(s, b, Len(s))
<1>1. b \in 1..Len(s) /\ Len(s) \in b..Len(s)
  OBVIOUS
<1> QED BY <1>1, SubSeqRecursiveFirst

\* Where a cut falls: the segment that holds its LSN.
LEMMA CutFacts ==
  ASSUME ControlOK, PlacementOK, Agreement, pc = "idle", NEW cut \in Nat,
         ~CutNothing(cut), cut < nextLSN
  PROVE  LET b == Boundary(index, cut)
         IN  /\ b \in 1..Len(index) /\ index[b] <= cut /\ cut < Segs[index[b]]
             /\ firstLSN # 0 /\ firstLSN < cut
             /\ \A k \in 1..Len(index) : k > b => cut < index[k]
<1>1. Opened /\ ~Dropping
  BY ServingFacts
<1>2. /\ index \in Seq(Nat) /\ index # << >> /\ Ascending(index) /\ DOMAIN index = 1..Len(index)
      /\ Len(index) \in Nat /\ LastBase = index[Len(index)] /\ nextLSN = Segs[LastBase]
      /\ \A k \in 1..Len(index) : index[k] \in Nat /\ Segs[index[k]] \in Nat
      /\ \A k \in 1..Len(index) : k < Len(index) => index[k + 1] = Segs[index[k]]
      /\ firstLSN \in Nat
  <2>1. index # << >>
    BY <1>1, OpenedState
  <2> QED BY <1>1, <2>1, IndexFacts
<1>3. firstLSN # 0 /\ firstLSN < cut
  BY <1>2 DEF CutNothing
<1>4. firstLSN = index[1]
  BY <1>1, <1>3 DEF Agreement, BoundsOK
<1>5. PICK b : b = Boundary(index, cut)
  OBVIOUS
<1>6. b \in 1..Len(index) /\ index[b] <= cut /\ \A k \in DOMAIN index : k > b => cut < index[k]
  <2>1. index[1] <= cut
    BY <1>2, <1>3, <1>4
  <2> QED BY <1>2, <1>5, <2>1, BoundaryRight
<1>7. cut < Segs[index[b]]
  <2>1. CASE b = Len(index)
    BY <2>1, <1>2
  <2>2. CASE b # Len(index)
    <3>0. PICK n \in Nat : n = Len(index)
      BY <1>2
    <3>a. b \in 1..n /\ b # n
      BY <1>6, <2>2, <3>0
    <3>1. b < Len(index) /\ b + 1 \in 1..Len(index) /\ b + 1 > b
      BY <3>0, <3>a
    <3>2. cut < index[b + 1]
      BY <1>2, <1>6, <3>1
    <3>3. index[b + 1] = Segs[index[b]]
      BY <1>2, <1>6, <3>1
    <3> QED BY <3>2, <3>3
  <2> QED BY <2>1, <2>2
<1> QED BY <1>2, <1>3, <1>5, <1>6, <1>7

\* A cut inside the log deletes the segments below it, or rewrites the one it
\* falls into first.
LEMMA CutInsideAgreement ==
  ASSUME ControlOK, ControlOK', PlacementOK, Agreement, NEW upTo \in Nat, CutInside(upTo)
  PROVE  Agreement'
<1> DEFINE cut == Reach(upTo)
           b == Boundary(index, cut)
           above == SubSeq(index, b + 1, Len(index))
<1>1. /\ pc = "idle" /\ ~CutNothing(cut) /\ cut < nextLSN
      /\ UNCHANGED <<disk, mem, batch, fresh>>
      /\ \/ /\ index[b] = cut /\ pc' = "remove"
            /\ job' = [NoJob EXCEPT !.kind = "cutBelow", !.base = cut,
                         !.names = SubSeq(index, 1, b - 1), !.idx = <<cut>> \o above]
         \/ /\ index[b] # cut /\ pc' = "rewrite"
            /\ job' = [NoJob EXCEPT !.kind = "cutRewrite", !.base = cut,
                         !.names = SubSeq(index, 1, b), !.idx = <<cut>> \o above]
  BY DEF CutInside, StartDrop
<1>2. cut \in Nat
  BY DEF Reach, MinOf, MemTypeOK
<1> HIDE DEF cut
<1>3. /\ b \in 1..Len(index) /\ index[b] <= cut /\ cut < Segs[index[b]]
      /\ firstLSN # 0 /\ firstLSN < cut
  BY <1>1, <1>2, CutFacts
<1>4. /\ Opened /\ ~Dropping /\ ~HasFresh /\ LogIndex = index /\ DOMAIN dir = Range(index)
      /\ ~Committing /\ ~Unpublished /\ ~Writing
  BY <1>1, ServingFacts
<1>5. index \in Seq(Nat) /\ Len(index) \in Nat
  BY <1>4, IndexFacts
<1>6. CASE index[b] = cut
  <2>1. PICK d : d = b - 1
    OBVIOUS
  <2>2. d \in Nat /\ d < Len(index) /\ d + 1 = b
    BY <1>3, <1>5, <2>1
  <2>3. <<cut>> \o above = SubSeq(index, b, Len(index))
    BY <1>3, <1>5, <1>6, ConsSubSeq
  <2>4. /\ job'.kind = "cutBelow" /\ ~job'.unlinked /\ job'.names = SubSeq(index, 1, d)
        /\ job'.idx = SubSeq(index, d + 1, Len(index)) /\ pc' = "remove"
    <3>1. job' = [NoJob EXCEPT !.kind = "cutBelow", !.base = cut,
                    !.names = SubSeq(index, 1, d), !.idx = SubSeq(index, d + 1, Len(index))]
          /\ pc' = "remove"
      BY <1>1, <1>6, <2>1, <2>2, <2>3
    <3> QED BY <3>1 DEF NoJob
  <2>5. index[d + 1] < nextLSN
    BY <1>1, <1>6, <2>2
  <2> QED BY <1>1, <2>2, <2>4, <2>5, StartDeletion
<1>7. CASE index[b] # cut
  <2>0. UNCHANGED <<files, dir, active, index, nextLSN, firstLSN, lastLSN, batch, fresh>>
    BY <1>1 DEF disk, mem
  <2>1. PICK e : e = b
    OBVIOUS
  <2>2. /\ job'.kind = "cutRewrite" /\ ~job'.unlinked /\ job'.names = SubSeq(index, 1, e)
        /\ job'.idx = <<cut>> \o SubSeq(index, e + 1, Len(index)) /\ job'.base = cut
        /\ pc' = "rewrite"
    <3>1. job' = [NoJob EXCEPT !.kind = "cutRewrite", !.base = cut,
                    !.names = SubSeq(index, 1, e),
                    !.idx = <<cut>> \o SubSeq(index, e + 1, Len(index))]
          /\ pc' = "rewrite"
      BY <1>1, <1>7, <2>1
    <3> QED BY <3>1 DEF NoJob
  <2>3. e \in 1..Len(index) /\ index[e] < cut /\ cut < Segs[index[e]]
    <3>1. index[b] \in Nat
      BY <1>3, <1>4, IndexFacts
    <3> QED BY <1>2, <1>3, <1>7, <2>1, <3>1
  <2>4. Len(job'.names) = e /\ DOMAIN index = 1..Len(index)
    <3>1. e \in Nat /\ e <= Len(index)
      BY <1>5, <2>3
    <3>2. Len(SubSeq(index, 1, e)) = e
      BY <1>5, <3>1, SplitAt
    <3> QED BY <1>4, <2>2, <3>2, IndexFacts
  <2>5. /\ Opened' /\ ~Dropping' /\ ~HasFresh' /\ LogIndex' = index /\ Segs' = Segs /\ ~Committing'
    BY <1>4, <2>0, <2>2 DEF Opened, Dropping, HasFresh, LogIndex, Segs, EndOf, Committing
  <2>6. ChainOK' /\ DeletionOK' /\ ScannedOK' /\ NamedOK' /\ BatchOK'
    BY <1>4, <2>0, <2>2, <2>5 DEF Agreement, ChainOK, DeletionOK, ScannedOK, NamedOK, BatchOK
  <2>7. EndOK' /\ BoundsOK'
    BY <1>4, <2>0, <2>2, <2>5 DEF Agreement, EndOK, BoundsOK, Unpublished, Writing
  <2>8. DropPlanOK'
    BY <1>3, <2>0, <2>2, <2>3, <2>4, <2>5 DEF DropPlanOK
  <2> QED BY <2>6, <2>7, <2>8 DEF Agreement
<1> QED BY <1>6, <1>7

\* A cut above the last record deletes every segment; an empty log is not cut.
LEMMA CutEverythingAgreement ==
  ASSUME ControlOK, ControlOK', PlacementOK, Agreement, NEW upTo \in Nat, CutEverything(upTo)
  PROVE  Agreement'
<1> USE DEF disk, mem
<1>1. /\ pc = "idle" /\ ~CutNothing(Reach(upTo)) /\ pc' = "clearLeftover"
      /\ UNCHANGED <<disk, mem, batch, fresh>>
      /\ job' = [NoJob EXCEPT !.kind = "cutAll", !.base = nextLSN, !.names = index,
                              !.idx = <<nextLSN>>]
  BY DEF CutEverything, StartDrop, DeletedByCutEverything
<1>2. /\ Opened /\ ~Dropping /\ ~HasFresh /\ LogIndex = index /\ DOMAIN dir = Range(index)
      /\ ~Committing /\ ~Unpublished /\ ~Writing
  BY <1>1, ServingFacts
<1>3. firstLSN # 0 /\ job'.kind = "cutAll" /\ job'.names = index /\ ~job'.unlinked
  BY <1>1 DEF CutNothing, NoJob
<1>4. LastBase < nextLSN
  <2>1. firstLSN = index[1] /\ firstLSN < nextLSN
    BY <1>2, <1>3 DEF Agreement, BoundsOK
  <2> QED BY <1>2, <2>1, IndexFacts
<1>5. /\ Opened' /\ ~Dropping' /\ ~HasFresh' /\ LogIndex' = index /\ Segs' = Segs /\ ~Committing'
      /\ LastBase' = LastBase
  BY <1>1, <1>3 DEF Opened, Dropping, HasFresh, LogIndex, Segs, EndOf, Committing, LastBase
<1>6. ChainOK' /\ DeletionOK' /\ ScannedOK' /\ NamedOK' /\ BatchOK'
  BY <1>1, <1>2, <1>3, <1>5 DEF Agreement, ChainOK, DeletionOK, ScannedOK, NamedOK, BatchOK
<1>7. EndOK' /\ BoundsOK'
  BY <1>1, <1>2, <1>5 DEF Agreement, EndOK, BoundsOK, Unpublished
<1>8. DropPlanOK'
  BY <1>1, <1>3, <1>4, <1>5 DEF DropPlanOK
<1> QED BY <1>6, <1>7, <1>8 DEF Agreement

\* There is no leftover to clear.
LEMMA ClearLeftoverAgreement ==
  ASSUME ControlOK, ControlOK', PlacementOK, Agreement, ClearLeftover
  PROVE  Agreement'
<1> USE DEF ClearLeftover, mem
<1>1. job.base \notin DOMAIN dir /\ ~Dropping
  BY BaseIsFree
<1>2. DOMAIN dir' = DOMAIN dir /\ \A b \in DOMAIN dir : dir'[b] = dir[b]
  BY <1>1 DEF Unlink, Restrict
<1>3. KeptDir
  <2>1. \A b \in DOMAIN dir : dir[b] \in Inodes \cap Live(dir', durableDir, active, fresh)
    BY <1>2, SegsType DEF Live, Range
  <2> QED BY <1>2, <2>1, CollectedKept DEF KeptDir, KeptName
<1>4. ~Dropping'
  BY <1>1 DEF Dropping
<1> QED BY <1>1, <1>3, <1>4, FrameAgreement

-----------------------------------------------------------------------------
(* RewriteFrom and the publication of the rewritten segment.               *)

\* The replacement ends where the segment it replaces does.
LEMMA RewriteTempAgreement ==
  ASSUME ControlOK, ControlOK', PlacementOK, Agreement, RewriteTemp
  PROVE  Agreement'
<1> USE DEF RewriteTemp, mem
<1>1. /\ Opened /\ ~Dropping /\ job.kind = "cutRewrite" /\ ~Committing /\ ~job.unlinked
      /\ LogIndex = index /\ job' = job /\ pc' = "publish"
  BY WriterOpened
  DEF StepsOK, Kinds, Dropping, Committing, LogIndex, Agreement, DeletionOK
<1>2. /\ Opened' /\ ~Dropping' /\ LogIndex' = index /\ ~Committing' /\ HasFresh'
  BY <1>1 DEF Opened, Dropping, LogIndex, Committing, HasFresh
<1>3. PICK i \in FreeInodes : /\ files' = [files EXCEPT ![i] = Rewritten(Source, job.base)]
                              /\ fresh' = i
  OBVIOUS
<1>4. /\ i \in Inodes /\ files \in [Inodes -> File] /\ i \notin Range(dir)
      /\ active \in Inodes
  BY <1>1, ActiveType DEF DiskTypeOK, FreeInodes, Live
<1>5. KeptDir
  <2>1. \A b \in DOMAIN dir : dir[b] # i
    BY <1>4 DEF Range
  <2> QED BY <1>3, <1>4, <2>1, SegsType DEF KeptDir, KeptName, KeptData
<1>6. Segs' = Segs /\ DOMAIN dir' = DOMAIN dir
  BY <1>5, SegsKept DEF KeptDir
<1>7. PICK b : b = Len(job.names)
  OBVIOUS
<1>8. /\ b \in DOMAIN index /\ job.names = SubSeq(index, 1, b)
      /\ job.idx = <<job.base>> \o SubSeq(index, b + 1, Len(index))
      /\ index[b] < job.base /\ job.base < Segs[index[b]] /\ firstLSN # 0
  BY <1>7 DEF Agreement, DropPlanOK
<1>9. /\ index \in Seq(Nat) /\ Len(index) \in Nat /\ DOMAIN index = 1..Len(index)
      /\ LastBase = index[Len(index)] /\ LastBase \in DOMAIN dir /\ dir[LastBase] = active
      /\ nextLSN = Segs[LastBase] /\ index[b] \in DOMAIN dir /\ index[b] \in Nat
      /\ LastBase < nextLSN \/ Len(index) = 1
      /\ job.base \in Nat
  BY <1>1, <1>8, IndexFacts, JobType DEF Writing
<1>10. OldBoundary = index[b]
  <2>1. b \in Nat /\ b <= Len(index) /\ b \in 1..b
    BY <1>8, <1>9, SMTT(30)
  <2>2. SubSeq(index, 1, b)[b] = index[b]
    BY <1>9, <2>1, SplitLSNs
  <2> QED BY <1>7, <1>8, <2>2 DEF OldBoundary
<1>11. CutsActive => b = Len(index)
  <2>1. b \in Nat /\ b <= Len(index)
    BY <1>8, <1>9
  <2>2. /\ SubSeq(index, b + 1, Len(index)) \in Seq(Nat)
        /\ Len(SubSeq(index, b + 1, Len(index))) = Len(index) - b
    BY <1>9, <2>1, SplitLSNs
  <2>3. Len(job.idx) = Len(SubSeq(index, b + 1, Len(index))) + 1
    BY <1>8, <1>9, <2>2, PrependType
  <2>n. PICK n \in Nat : n = Len(index)
    BY <1>9
  <2>4. PICK m : m = Len(job.idx) /\ m = (n - b) + 1
    BY <2>2, <2>3, <2>n
  <2>5. b <= n /\ (m = 1 => b = n)
    BY <2>1, <2>n, <2>4
  <2> QED BY <2>n, <2>4, <2>5 DEF CutsActive
<1>12. PICK f, old, base : f = Source /\ old = index[b] /\ base = job.base
  OBVIOUS
<1>13. f = files[dir[old]]
  BY <1>9, <1>10, <1>11, <1>12 DEF Source, ActiveFile
<1>14. /\ f \in File /\ old \in DOMAIN dir /\ old \in Nat /\ base \in Nat /\ old < base
       /\ Segs[old] = old + Len(f.data) /\ base < Segs[old]
       /\ \A k \in DOMAIN f.data : f.data[k].lsn = old + k - 1
  <2>1. f \in File /\ old \in DOMAIN dir /\ old \in Nat /\ Segs[old] = old + Len(f.data)
    BY <1>9, <1>12, <1>13, SegsType
  <2>2. Placed(dir[old], old)
    BY <2>1 DEF PlacementOK, NamesOK
  <2> QED BY <1>8, <1>9, <1>12, <1>13, <2>1, <2>2 DEF Placed
<1>15. base + Len(Rewritten(f, base).data) = Segs[old]
  <2>1. Len(Rewritten(f, base).data) = old + Len(f.data) - base
    BY <1>14, RewrittenInPlace, ZenonT(30)
  <2>2. Len(f.data) \in Nat
    BY <1>14 DEF File
  <2> QED BY <1>14, <2>1, <2>2
<1>16. files'[fresh'] = Rewritten(f, base)
  BY <1>3, <1>4, <1>12
<1>17. ChainOK' /\ ScannedOK' /\ DeletionOK' /\ BatchOK'
  BY <1>1, <1>2, <1>6 DEF Agreement, ChainOK, ScannedOK, DeletionOK, BatchOK
<1>18. NamedOK' /\ BoundsOK'
  BY <1>1, <1>2, <1>6
  DEF Agreement, NamedOK, BoundsOK, HasFresh, Unpublished
<1>19. EndOK'
  <2>1. dir'[LastBase] = active
    BY <1>5, <1>9 DEF KeptDir, KeptName
  <2> QED BY <1>2, <1>6, <1>9, <2>1 DEF EndOK, LastOf
<1>20. DropPlanOK'
  BY <1>1, <1>2, <1>6, <1>7, <1>8, <1>12, <1>15, <1>16 DEF DropPlanOK
<1> QED BY <1>17, <1>18, <1>19, <1>20 DEF Agreement

\* A boundary segment that cannot be read ends the cut before it began.
LEMMA RewriteTempFailsAgreement ==
  ASSUME ControlOK, ControlOK', PlacementOK, Agreement, RewriteTempFails
  PROVE  Agreement'
<1> USE DEF RewriteTempFails, JobFails, mem
<1>1. /\ Opened /\ ~Dropping /\ job.kind = "cutRewrite" /\ ~Committing
      /\ LogIndex = index /\ ~HasFresh
  BY WriterOpened
  DEF StepsOK, Kinds, Dropping, Committing, LogIndex, HasFresh
<1>2. /\ Opened' /\ ~Dropping' /\ LogIndex' = index /\ ~Committing' /\ ~HasFresh'
      /\ job'.kind = "none" /\ ~job'.unlinked /\ Segs' = Segs
  BY DEF Opened, Dropping, LogIndex, Committing, HasFresh, NoJob, Segs, EndOf
<1>3. ChainOK' /\ ScannedOK' /\ DeletionOK' /\ BatchOK'
  BY <1>1, <1>2 DEF Agreement, ChainOK, ScannedOK, DeletionOK, BatchOK
<1>4. NamedOK' /\ BoundsOK' /\ DropPlanOK'
  BY <1>1, <1>2 DEF Agreement, NamedOK, BoundsOK, Unpublished, DropPlanOK
<1>5. EndOK'
  BY <1>1, <1>2 DEF Agreement, EndOK, Writing
<1> QED BY <1>3, <1>4, <1>5 DEF Agreement

\* A replacement that is not renamed is dropped, and the log is as before.
LEMMA PublishFailsAgreement ==
  ASSUME ControlOK, ControlOK', PlacementOK, Agreement, PublishFails, HarmlessFailures
  PROVE  Agreement'
<1> USE DEF PublishFails, JobFails, mem
<1>1. pc = "publish"
  BY NoFault DEF HarmlessCalls
<1>2. /\ Opened /\ ~Dropping /\ job.kind = "cutRewrite" /\ ~Committing
      /\ LogIndex = index
  BY <1>1, WriterOpened DEF StepsOK, Kinds, Dropping, Committing, LogIndex
<1>3. /\ Opened' /\ ~Dropping' /\ LogIndex' = index /\ ~Committing' /\ ~HasFresh'
      /\ job'.kind = "none" /\ ~job'.unlinked
  BY <1>2 DEF Opened, Dropping, LogIndex, Committing, HasFresh, NoJob
<1>4. KeptDir
  <2>1. \A b \in DOMAIN dir : dir[b] \in Inodes \cap Live(dir, durableDir, active, Nil)
    BY SegsType DEF Live, Range
  <2> QED BY <2>1, CollectedKept DEF KeptDir, KeptName
<1>5. Segs' = Segs
  BY <1>4, SegsKept DEF KeptDir
<1>6. ChainOK' /\ ScannedOK' /\ DeletionOK' /\ BatchOK'
  BY <1>2, <1>3, <1>5 DEF Agreement, ChainOK, ScannedOK, DeletionOK, BatchOK
<1>7. NamedOK' /\ BoundsOK' /\ DropPlanOK'
  BY <1>2, <1>3 DEF Agreement, NamedOK, BoundsOK, Unpublished, DropPlanOK
<1>8. EndOK'
  BY <1>2, <1>3, <1>5 DEF Agreement, EndOK, Writing
<1> QED BY <1>6, <1>7, <1>8 DEF Agreement

\* Renamed into place, the replacement starts the log that the cut leaves:
\* it lies between the segments that are deleted and those that are kept.
LEMMA PublishRewriteSegs ==
  ASSUME ControlOK, PlacementOK, Agreement, PublishRewrite
  PROVE  LET b == Len(job.names)
         IN  /\ b \in 1..Len(index) /\ firstLSN # 0
             /\ job.base \notin DOMAIN dir /\ DOMAIN dir = Range(index)
             /\ DOMAIN dir' = DOMAIN dir \cup {job.base} /\ dir'[job.base] = fresh
             /\ Segs'[job.base] = Segs[index[b]]
             /\ \A c \in DOMAIN dir : KeptName(c) /\ Segs'[c] = Segs[c]
             /\ \A k \in 1..Len(index) : /\ k <= b => index[k] < job.base
                                         /\ k > b => job.base < index[k]
             /\ Range(index) \subseteq Range(job.names) \cup Range(job.idx)
             /\ Range(job.idx) \subseteq {job.base} \cup Range(index) /\ job.base \in Range(job.idx)
             /\ Range(job.names) \subseteq Range(index)
             /\ \A c \in Range(job.names) : c \in Nat /\ c < job.base
             /\ \A c \in Range(job.idx) : c \in Nat /\ job.base <= c
<1> USE DEF PublishRewrite, mem
<1>1. /\ Opened /\ ~Dropping /\ job.kind = "cutRewrite" /\ ~Committing /\ ~job.unlinked
      /\ LogIndex = index /\ job' = job /\ pc' = "publishSync" /\ HasFresh /\ fresh \in Inodes
      /\ DOMAIN dir = Range(index)
  BY WriterOpened, OpenedIff
  DEF StepsOK, Kinds, Dropping, Committing, LogIndex, Agreement, DeletionOK, HasFresh, NamedOK
<1>2. /\ Opened' /\ Dropping' /\ LogIndex' = job.idx /\ ~Committing' /\ HasFresh'
  BY <1>1 DEF Opened, Dropping, LogIndex, Committing, HasFresh
<1>3. PICK b, base : b = Len(job.names) /\ base = job.base
  OBVIOUS
<1> DEFINE n == Len(index)
           u == SubSeq(index, b + 1, n)
           t == SubSeq(index, 1, b)
           v == <<base>> \o u
<1>4. /\ b \in DOMAIN index /\ job.names = t /\ job.idx = v
      /\ index[b] < base /\ base < Segs[index[b]] /\ firstLSN # 0
      /\ base + Len(files[fresh].data) = Segs[index[b]]
  BY <1>3 DEF Agreement, DropPlanOK
<1>5. /\ index \in Seq(Nat) /\ n \in Nat /\ n > 0 /\ DOMAIN index = 1..n /\ Ascending(index)
      /\ LastBase = index[n] /\ LastBase \in DOMAIN dir /\ dir[LastBase] = active
      /\ nextLSN = Segs[LastBase] /\ nextLSN \in Nat
      /\ LastBase < nextLSN \/ n = 1
      /\ base \in Nat
      /\ \A k \in 1..n : index[k] \in Nat /\ index[k] \in DOMAIN dir /\ Segs[index[k]] \in Nat
                         /\ index[k] <= LastBase
      /\ \A k \in 1..n : k < n => index[k + 1] = Segs[index[k]]
  BY <1>1, <1>3, IndexFacts, JobType DEF Writing
<1>6. \A j, k \in 1..n : j < k => index[j] < index[k]
  BY <1>5 DEF Ascending
<1>7. b \in 1..n /\ b \in Nat /\ b <= n
  BY <1>4, <1>5
<1>8. /\ u \in Seq(Nat) /\ Len(u) = n - b /\ \A k \in 1..(n - b) : u[k] = index[b + k]
      /\ t \in Seq(Nat) /\ Len(t) = b /\ \A k \in 1..b : t[k] = index[k]
  BY <1>5, <1>7, SplitLSNs DEF n, u, t
<1> HIDE DEF n, u, t
<1>9. /\ v \in Seq(Nat) /\ Len(v) = n - b + 1 /\ v[1] = base
      /\ \A k \in 1..(n - b) : v[k + 1] = index[b + k]
  <2>1. /\ v \in Seq(Nat) /\ Len(v) = Len(u) + 1 /\ v[1] = base
        /\ \A k \in 1..Len(u) : v[k + 1] = u[k]
    BY <1>5, <1>8, PrependType
  <2> QED BY <1>8, <2>1
<1> HIDE DEF v
<1>10. \A k \in 1..n : index[k] # base /\ (k <= b => index[k] < base) /\ (k > b => base < index[k])
  <2> SUFFICES ASSUME NEW k \in 1..n
               PROVE  /\ index[k] # base
                      /\ (k <= b => index[k] < base) /\ (k > b => base < index[k])
    OBVIOUS
  <2>1. k <= b => index[k] < base
    <3>1. k = b \/ (k <= b => k < b)
      BY <1>7
    <3>2. index[b] \in Nat /\ index[k] \in Nat
      BY <1>5, <1>7
    <3> QED BY <1>4, <1>5, <1>6, <1>7, <3>1, <3>2
  <2>2. k > b => base < index[k]
    <3>1. ASSUME k > b PROVE b < n /\ b + 1 \in 1..n /\ (k = b + 1 \/ b + 1 < k)
      BY <3>1, <1>5, <1>7
    <3>2. ASSUME k > b PROVE base < index[b + 1] /\ index[b + 1] \in Nat /\ index[k] \in Nat
      BY <3>1, <3>2, <1>4, <1>5, <1>7
    <3>3. ASSUME k > b PROVE index[b + 1] <= index[k]
      BY <3>1, <3>2, <3>3, <1>6
    <3> QED BY <3>2, <3>3, <1>5
  <2>3. index[k] # base
    <3>1. (k <= b \/ k > b) /\ index[k] \in Nat
      BY <1>5, <1>7
    <3> QED BY <3>1, <2>1, <2>2, <1>5
  <2> QED BY <2>1, <2>2, <2>3
<1>11. base \notin DOMAIN dir
  BY <1>1, <1>5, <1>10 DEF Range
<1>12. /\ DOMAIN dir' = DOMAIN dir \cup {base} /\ dir'[base] = fresh
       /\ \A c \in DOMAIN dir : KeptName(c)
       /\ files'[fresh] = files[fresh]
  <2>1. /\ DOMAIN dir' = DOMAIN dir \cup {base} /\ dir'[base] = fresh
        /\ \A c \in DOMAIN dir : dir'[c] = dir[c]
    BY <1>3, <1>11 DEF Link
  <2>2. \A c \in DOMAIN dir : dir[c] \in Inodes \cap Live(dir', durableDir, active, fresh)
    BY <2>1, SegsType DEF Live, Range
  <2>3. fresh \in Inodes \cap Live(dir', durableDir, active, fresh) /\ files \in [Inodes -> File]
    BY <1>1 DEF Live, DiskTypeOK
  <2>4. files'[fresh] = files[fresh]
    BY <2>3 DEF Collected
  <2> QED BY <2>1, <2>2, <2>4, CollectedKept DEF KeptName
<1>13. Segs'[base] = Segs[index[b]] /\ \A c \in DOMAIN dir : Segs'[c] = Segs[c]
  <2>1. base \in DOMAIN dir' /\ Segs'[base] = base + Len(files'[dir'[base]].data)
    BY <1>12, SegNext
  <2> QED BY <1>4, <1>12, <2>1, SegKept
<1>14. /\ Range(index) \subseteq Range(t) \cup Range(v)
       /\ Range(v) \subseteq {base} \cup Range(index) /\ Range(t) \subseteq Range(index)
       /\ base \in Range(v)
       /\ \A c \in Range(t) : c \in Nat /\ c < base
       /\ \A c \in Range(v) : c \in Nat /\ base <= c
  <2>1. DOMAIN v = 1..(n - b + 1) /\ DOMAIN t = 1..b
    BY <1>8, <1>9, <1>7, <1>5
  <2>2. ASSUME NEW k \in 1..(n - b + 1)
        PROVE  v[k] = base \/ \E j \in 1..n : j > b /\ v[k] = index[j]
    <3>1. CASE k = 1
      BY <3>1, <1>9
    <3>2. CASE k # 1
      <4>1. PICK m \in 1..(n - b) : k = m + 1
        BY <1>5, <1>7, <3>2
      <4>2. b + m \in 1..n /\ b + m > b
        BY <1>5, <1>7
      <4> QED BY <4>1, <4>2, <1>9
    <3> QED BY <3>1, <3>2
  <2>3. ASSUME NEW j \in 1..n PROVE index[j] \in Range(t) \cup Range(v)
    <3>1. CASE j <= b
      <4>1. j \in 1..b
        BY <3>1, <1>7
      <4> QED BY <4>1, <1>8, <2>1 DEF Range
    <3>2. CASE j > b
      <4>1. PICK m \in 1..(n - b) : j = b + m
        <5>1. j - b \in 1..(n - b) /\ j = b + (j - b)
          BY <3>2, <1>5, <1>7
        <5> QED BY <5>1
      <4>2. v[m + 1] = index[j] /\ m + 1 \in 1..(n - b + 1)
        BY <4>1, <1>5, <1>7, <1>9
      <4> QED BY <4>2, <2>1 DEF Range
    <3> QED BY <3>1, <3>2, <1>7
  <2>4. ASSUME NEW k \in 1..b PROVE t[k] \in Range(index) /\ t[k] < base /\ t[k] \in Nat
    <3>1. k \in 1..n /\ k <= b
      BY <1>5, <1>7
    <3> QED BY <3>1, <1>5, <1>8, <1>10 DEF Range
  <2>5. ASSUME NEW k \in 1..(n - b + 1) PROVE base <= v[k] /\ v[k] \in Nat
    BY <2>2, <1>5, <1>10
  <2>6. Range(v) \subseteq {base} \cup Range(index)
    BY <2>1, <2>2, <1>5 DEF Range
  <2>7. Range(index) \subseteq Range(t) \cup Range(v)
    BY <2>3, <1>5 DEF Range
  <2>8. /\ \A c \in Range(t) : c \in Nat /\ c < base
        /\ \A c \in Range(v) : c \in Nat /\ base <= c
    BY <2>1, <2>4, <2>5 DEF Range
  <2>9. base \in Range(v)
    <3>1. 1 \in 1..(n - b + 1)
      BY <1>5, <1>7
    <3> QED BY <1>9, <2>1, <3>1 DEF Range
  <2>10. Range(t) \subseteq Range(index)
    BY <2>1, <2>4 DEF Range
  <2> QED BY <2>6, <2>7, <2>8, <2>9, <2>10
<1> QED BY <1>1, <1>3, <1>4, <1>7, <1>10, <1>11, <1>12, <1>13, <1>14 DEF n

LEMMA PublishRewriteAgreement ==
  ASSUME ControlOK, ControlOK', PlacementOK, Agreement, PublishRewrite
  PROVE  Agreement'
<1> USE DEF PublishRewrite, mem
<1>1. /\ Opened /\ ~Dropping /\ job.kind = "cutRewrite" /\ ~Committing /\ ~job.unlinked
      /\ LogIndex = index /\ job' = job /\ pc' = "publishSync" /\ HasFresh /\ fresh \in Inodes
      /\ DOMAIN dir = Range(index)
  BY WriterOpened, OpenedIff
  DEF StepsOK, Kinds, Dropping, Committing, LogIndex, Agreement, DeletionOK, HasFresh, NamedOK
<1>2. /\ Opened' /\ Dropping' /\ LogIndex' = job.idx /\ ~Committing' /\ HasFresh'
  BY <1>1 DEF Opened, Dropping, LogIndex, Committing, HasFresh
<1>3. PICK b, base : b = Len(job.names) /\ base = job.base
  OBVIOUS
<1> DEFINE n == Len(index)
           u == SubSeq(index, b + 1, n)
           t == SubSeq(index, 1, b)
           v == <<base>> \o u
<1>4. /\ b \in DOMAIN index /\ job.names = t /\ job.idx = v
      /\ index[b] < base /\ base < Segs[index[b]] /\ firstLSN # 0
      /\ base + Len(files[fresh].data) = Segs[index[b]]
  BY <1>3 DEF Agreement, DropPlanOK
<1>5. /\ index \in Seq(Nat) /\ n \in Nat /\ n > 0 /\ DOMAIN index = 1..n /\ Ascending(index)
      /\ LastBase = index[n] /\ LastBase \in DOMAIN dir /\ dir[LastBase] = active
      /\ nextLSN = Segs[LastBase] /\ nextLSN \in Nat
      /\ LastBase < nextLSN \/ n = 1
      /\ base \in Nat
      /\ \A k \in 1..n : index[k] \in Nat /\ index[k] \in DOMAIN dir /\ Segs[index[k]] \in Nat
                         /\ index[k] <= LastBase
      /\ \A k \in 1..n : k < n => index[k + 1] = Segs[index[k]]
  BY <1>1, <1>3, IndexFacts, JobType DEF Writing
<1>6. \A j, k \in 1..n : j < k => index[j] < index[k]
  BY <1>5 DEF Ascending
<1>7. b \in 1..n /\ b \in Nat /\ b <= n
  BY <1>4, <1>5
<1>8. /\ u \in Seq(Nat) /\ Len(u) = n - b /\ \A k \in 1..(n - b) : u[k] = index[b + k]
      /\ t \in Seq(Nat) /\ Len(t) = b /\ \A k \in 1..b : t[k] = index[k]
  BY <1>5, <1>7, SplitLSNs DEF n, u, t
<1> HIDE DEF n, u, t
<1>9. /\ v \in Seq(Nat) /\ Len(v) = n - b + 1 /\ v[1] = base
      /\ \A k \in 1..(n - b) : v[k + 1] = index[b + k]
  <2>1. /\ v \in Seq(Nat) /\ Len(v) = Len(u) + 1 /\ v[1] = base
        /\ \A k \in 1..Len(u) : v[k + 1] = u[k]
    BY <1>5, <1>8, PrependType
  <2> QED BY <1>8, <2>1
<1> HIDE DEF v
<1>10. /\ \A k \in 1..n : (k <= b => index[k] < base) /\ (k > b => base < index[k])
       /\ base \notin DOMAIN dir
       /\ DOMAIN dir' = DOMAIN dir \cup {base} /\ dir'[base] = fresh
       /\ Segs'[base] = Segs[index[b]]
       /\ \A c \in DOMAIN dir : KeptName(c) /\ Segs'[c] = Segs[c]
       /\ Range(index) \subseteq Range(t) \cup Range(v)
       /\ Range(v) \subseteq {base} \cup Range(index) /\ Range(t) \subseteq Range(index)
       /\ base \in Range(v)
       /\ \A c \in Range(t) : c \in Nat /\ c < base
       /\ \A c \in Range(v) : c \in Nat /\ base <= c
  BY <1>3, <1>4, PublishRewriteSegs DEF n
<1>11. /\ Range(v) \subseteq DOMAIN dir' /\ Range(t) \cap Range(v) = {}
       /\ DOMAIN dir' = Range(t) \cup Range(v)
  <2>1. Range(t) \cap Range(v) = {}
    <3> SUFFICES ASSUME NEW c \in Range(t), c \in Range(v) PROVE FALSE
      OBVIOUS
    <3>1. c \in Nat /\ c < base /\ base <= c
      BY <1>10
    <3> QED BY <3>1, <1>5
  <2> QED BY <1>1, <1>10, <2>1
<1>15. ChainOK'
  <2>1. ASSUME NEW k \in 1..(n - b) PROVE v[k + 1] = Segs'[v[k]]
    <3>1. PICK m \in Nat : m = b + k
      BY <1>7
    <3>2. m \in 1..n /\ v[k + 1] = index[m]
      BY <1>5, <1>7, <1>9, <3>1
    <3>3. CASE k = 1
      <4>1. m = b + 1 /\ b < n
        BY <1>5, <1>7, <3>1, <3>2, <3>3
      <4> QED BY <4>1, <1>5, <1>7, <1>9, <1>10, <3>2, <3>3
    <3>4. CASE k # 1
      <4>1. PICK j \in 1..(n - b) : k = j + 1
        BY <1>5, <1>7, <3>4
      <4>2. PICK l \in Nat : l = b + j
        BY <1>7
      <4>3. l \in 1..n /\ l < n /\ m = l + 1 /\ v[k] = index[l]
        BY <1>5, <1>7, <1>9, <3>1, <4>1, <4>2
      <4>4. index[l + 1] = Segs[index[l]] /\ index[l] \in DOMAIN dir
        BY <1>5, <4>3
      <4> QED BY <1>10, <3>2, <4>3, <4>4
    <3> QED BY <3>3, <3>4
  <2>2. Len(v) - 1 = n - b
    BY <1>5, <1>7, <1>9
  <2> QED BY <1>2, <1>4, <1>11, <2>1, <2>2 DEF ChainOK
<1>16. DeletionOK' /\ ScannedOK' /\ BatchOK'
  <2>1. Ascending(t)
    <3> SUFFICES ASSUME NEW j \in 1..b, NEW k \in 1..b, j < k PROVE t[j] < t[k]
      BY <1>8, <1>7 DEF Ascending
    <3>1. j \in 1..n /\ k \in 1..n
      BY <1>5, <1>7
    <3> QED BY <3>1, <1>6, <1>8
  <2> QED BY <1>1, <1>2, <1>4, <1>11, <2>1 DEF DeletionOK, Pending, ScannedOK, BatchOK
<1>17. NamedOK' /\ BoundsOK'
  BY <1>1, <1>2, <1>3, <1>10 DEF Agreement, NamedOK, BoundsOK, Unpublished
<1>18. EndOK'
  <2>1. ReplacesActive' <=> n = b
    BY <1>1, <1>4, <1>5, <1>7, <1>9 DEF ReplacesActive, CutsActive
  <2>2. CASE n = b
    <3>1. v[Len(v)] = base
      BY <1>5, <1>9, <2>2
    <3>2. Segs'[base] = nextLSN /\ base < nextLSN
      BY <1>4, <1>5, <1>10, <2>2
    <3> QED BY <1>2, <1>4, <1>10, <2>1, <2>2, <3>1, <3>2 DEF EndOK, LastOf
  <2>3. CASE n # b
    <3>1. v[Len(v)] = LastBase
      <4>1. n - b \in 1..(n - b) /\ b + (n - b) = n
        BY <1>5, <1>7, <2>3
      <4>2. v[(n - b) + 1] = index[b + (n - b)]
        BY <1>9, <4>1
      <4> QED BY <4>1, <4>2, <1>5, <1>9
    <3>2. Segs'[LastBase] = nextLSN /\ LastBase < nextLSN /\ dir'[LastBase] = active
      <4>1. n # 1
        BY <1>5, <1>7, <2>3
      <4> QED BY <4>1, <1>5, <1>10, <1>10 DEF KeptName
    <3> QED BY <1>2, <1>4, <2>1, <2>3, <3>1, <3>2 DEF EndOK, LastOf
  <2> QED BY <2>2, <2>3
<1>19. DropPlanOK'
  <2>1. firstLSN = index[1]
    BY <1>1, <1>4 DEF Agreement, BoundsOK
  <2>2. firstLSN <= base
    <3>1. 1 \in 1..n /\ 1 <= b
      BY <1>5, <1>7
    <3> QED BY <1>5, <1>10, <2>1, <3>1
  <2>3. base < nextLSN
    <3>1. CASE b = n
      BY <3>1, <1>4, <1>5
    <3>2. CASE b # n
      <4>1. b < n /\ n # 1 /\ b + 1 \in 1..n
        BY <1>5, <1>7, <3>2
      <4>2. base < index[b + 1] /\ index[b + 1] <= LastBase /\ LastBase < nextLSN
            /\ index[b + 1] \in Nat
        BY <4>1, <1>4, <1>5, <1>7
      <4>3. LastBase \in Nat
        BY <1>5
      <4> QED BY <4>2, <4>3, <1>5
    <3> QED BY <3>1, <3>2
  <2> QED BY <1>1, <1>2, <1>4, <1>9, <2>2, <2>3 DEF DropPlanOK
<1> QED BY <1>15, <1>16, <1>17, <1>18, <1>19 DEF Agreement

\* The fsync of the directory moves nothing.
LEMMA PublishSyncAgreement ==
  ASSUME ControlOK, ControlOK', PlacementOK, Agreement, PublishSync
  PROVE  Agreement'
<1> USE DEF PublishSync, mem
<1>1. KeptDir
  <2>1. \A b \in DOMAIN dir : dir[b] \in Inodes \cap Live(dir, dir, active, fresh)
    BY SegsType DEF Live, Range
  <2> QED BY <2>1, CollectedKept DEF KeptDir, KeptName
<1>2. Dropping /\ Dropping'
  BY DEF Dropping
<1> QED BY <1>1, <1>2, FrameAgreement

-----------------------------------------------------------------------------
(* Deletions.                                                              *)

\* The rest of an ascending sequence does not contain its first element.
LEMMA TailAscending ==
  ASSUME NEW s \in Seq(Nat), s # << >>, Ascending(s)
  PROVE  /\ Tail(s) \in Seq(Nat) /\ Ascending(Tail(s))
         /\ Range(s) = {Head(s)} \cup Range(Tail(s)) /\ Head(s) \notin Range(Tail(s))
<1> DEFINE t == Tail(s)
<1>1. /\ t \in Seq(Nat) /\ Len(s) \in Nat /\ Len(s) > 0 /\ Len(t) = Len(s) - 1
      /\ Head(s) = s[1] /\ DOMAIN s = 1..Len(s) /\ DOMAIN t = 1..(Len(s) - 1)
      /\ \A k \in 1..(Len(s) - 1) : t[k] = s[k + 1]
      /\ \A k \in 1..Len(s) : s[k] \in Nat
  OBVIOUS
<1> HIDE DEF t
<1>2. \A j, k \in 1..Len(s) : j < k => s[j] < s[k]
  BY <1>1 DEF Ascending
<1>3. \A k \in 1..(Len(s) - 1) : k + 1 \in 1..Len(s) /\ k \in 1..Len(s) /\ 1 < k + 1
  BY <1>1
<1>4. Ascending(t)
  <2> SUFFICES ASSUME NEW j \in 1..(Len(s) - 1), NEW k \in 1..(Len(s) - 1), j < k
               PROVE  t[j] < t[k]
    BY <1>1 DEF Ascending
  <2>1. j + 1 < k + 1
    OBVIOUS
  <2> QED BY <1>1, <1>2, <1>3, <2>1
<1>5. ASSUME NEW k \in 1..(Len(s) - 1) PROVE t[k] # s[1] /\ t[k] \in Range(s)
  <2>1. 1 \in 1..Len(s) /\ s[1] < s[k + 1] /\ s[1] \in Nat /\ s[k + 1] \in Nat
    BY <1>1, <1>2, <1>3
  <2>2. t[k] = s[k + 1] /\ k + 1 \in DOMAIN s
    BY <1>1, <1>3
  <2> QED BY <2>1, <2>2 DEF Range
<1>6. ASSUME NEW k \in 1..Len(s) PROVE s[k] = s[1] \/ s[k] \in Range(t)
  <2>1. CASE k = 1
    BY <2>1
  <2>2. CASE k # 1
    <3>1. PICK j \in 1..(Len(s) - 1) : k = j + 1
      BY <1>1, <2>2
    <3> QED BY <3>1, <1>1 DEF Range
  <2> QED BY <2>1, <2>2
<1>7. s[1] \in Range(s)
  <2>1. 1 \in DOMAIN s
    BY <1>1
  <2> QED BY <2>1 DEF Range
<1>8. Range(s) = {Head(s)} \cup Range(t) /\ Head(s) \notin Range(t)
  <2>1. Head(s) = s[1] /\ Range(t) = {t[k] : k \in 1..(Len(s) - 1)}
    BY <1>1 DEF Range
  <2>2. Range(s) = {s[k] : k \in 1..Len(s)}
    BY <1>1 DEF Range
  <2>3. \A x \in Range(t) : x \in Range(s) /\ x # s[1]
    BY <1>5, <2>1
  <2>4. \A x \in Range(s) : x = s[1] \/ x \in Range(t)
    BY <1>6, <2>2
  <2> QED BY <1>7, <2>1, <2>3, <2>4
<1> QED BY <1>1, <1>4, <1>8 DEF t

\* A deletion under way: the log consists of what is kept.
LEMMA DeletingFacts ==
  ASSUME ControlOK, PlacementOK, Agreement, pc \in {"remove", "reconcile", "prune"}
  PROVE  /\ LogIndex = job.idx /\ (Opened <=> pc = "remove") /\ (Dropping <=> pc = "remove")
         /\ job.kind \in {"recover", "truncate", "cutBelow", "cutRewrite", "cutAll"}
         /\ pc # "remove" => job.kind = "recover"
         /\ Ascending(job.names) /\ ~Committing
         /\ LET kept == IF pc = "reconcile" THEN job.paths ELSE Range(job.idx)
            IN  DOMAIN dir = Pending \cup kept /\ Range(job.names) \cap kept = {}
<1>1. /\ (Opened <=> pc = "remove") /\ (Dropping <=> pc = "remove")
      /\ job.kind \in {"recover", "truncate", "cutBelow", "cutRewrite", "cutAll"}
      /\ pc # "remove" => job.kind = "recover"
  BY DEF Opened, Dropping, StepsOK, Kinds
<1> QED BY <1>1 DEF LogIndex, Agreement, DeletionOK, Committing

\* A deletion that keeps the files of the log keeps the agreement.
LEMMA DeletionFrame ==
  ASSUME ControlOK, ControlOK', PlacementOK, Agreement,
         pc \in {"remove", "reconcile", "prune"}, pc' = pc,
         UNCHANGED <<mem, batch, fresh, job.kind, job.base, job.idx>>,
         \A b \in DOMAIN dir \cap Range(job.idx) : KeptName(b), DeletionOK'
  PROVE  Agreement'
<1> USE DEF mem
<1>1. /\ LogIndex = job.idx /\ (Opened <=> pc = "remove") /\ (Dropping <=> pc = "remove")
      /\ job.kind \in {"recover", "truncate", "cutBelow", "cutRewrite", "cutAll"}
      /\ ~Committing /\ (pc # "remove" => job.kind = "recover")
  BY DeletingFacts
<1>2. /\ LogIndex' = LogIndex /\ (Opened' <=> Opened) /\ (Dropping' <=> Dropping)
      /\ (HasFresh' <=> HasFresh) /\ ~Committing'
  <2>1. (Opened' <=> Opened) /\ (HasFresh' <=> HasFresh)
    BY OpenedIff, OpenedIffNext
  <2>2. Dropping' <=> Dropping
    BY <1>1 DEF Dropping
  <2> QED BY <1>1, <2>1, <2>2 DEF LogIndex, Committing
<1>3. ChainOK'
  BY <1>1, <1>2, ChainKept DEF Agreement
<1>4. NamedOK'
  <2>1. ASSUME HasFresh PROVE job.base \in Range(job.idx)
    <3>1. job.idx # << >> /\ job.idx \in Seq(Nat) /\ pc = "remove"
          /\ job.kind \in {"cutRewrite", "cutAll"}
      BY <1>1, <2>1, LogIndexType DEF HasFresh
    <3>2. job.idx[1] = job.base
      BY <3>1 DEF PlacementOK, PlanOK
    <3>3. 1 \in DOMAIN job.idx
      BY <3>1
    <3> QED BY <3>2, <3>3 DEF Range
  <2>2. HasFresh => KeptName(job.base) /\ dir[job.base] = fresh
    BY <1>1, <2>1 DEF Agreement, NamedOK
  <2> QED BY <1>1, <1>2, <2>2 DEF NamedOK, KeptName
<1>5. EndOK'
  <2>1. ASSUME Opened
        PROVE  /\ KeptName(LastOf(job.idx)) /\ Segs'[LastOf(job.idx)] = Segs[LastOf(job.idx)]
    <3>1. job.idx # << >> /\ job.idx \in Seq(Nat) /\ Range(job.idx) \subseteq DOMAIN dir
      BY <1>1, <2>1, LogIndexType DEF Agreement, ChainOK
    <3>2. LastOf(job.idx) \in Range(job.idx)
      BY <3>1, LastElement DEF LastOf, Range
    <3>3. LastOf(job.idx) \in DOMAIN dir /\ KeptName(LastOf(job.idx))
      BY <3>1, <3>2
    <3>4. PICK b : b = LastOf(job.idx)
      OBVIOUS
    <3> QED BY <3>3, <3>4, SegKept
  <2>2. ReplacesActive' <=> ReplacesActive
    BY DEF ReplacesActive, CutsActive
  <2> QED BY <1>1, <1>2, <2>1, <2>2 DEF Agreement, EndOK, KeptName, Writing
<1>6. ScannedOK' /\ BatchOK' /\ BoundsOK'
  BY <1>1, <1>2 DEF Agreement, ScannedOK, BatchOK, BoundsOK, Unpublished
<1>7. DropPlanOK'
  BY <1>1, <1>2 DEF Agreement, DropPlanOK
<1> QED BY <1>3, <1>4, <1>5, <1>6, <1>7 DEF Agreement

\* One file after the other goes, from the first name on.
LEMMA RemoveFileKept ==
  ASSUME ControlOK, RemoveFile
  PROVE  /\ DOMAIN dir' = DOMAIN dir \ {Head(job.names)}
         /\ \A b \in DOMAIN dir' : b \in DOMAIN dir /\ KeptName(b)
<1> USE DEF RemoveFile
<1>1. PICK h : h = Head(job.names)
  OBVIOUS
<1>2. DOMAIN dir' = DOMAIN dir \ {h} /\ \A b \in DOMAIN dir' : dir'[b] = dir[b]
  BY <1>1 DEF Unlink, Restrict
<1>3. \A b \in DOMAIN dir' : dir[b] \in Inodes \cap Live(dir', durableDir, active, fresh)
  BY <1>2, SegsType DEF Live, Range
<1> QED BY <1>1, <1>2, <1>3, CollectedKept DEF KeptName

LEMMA RemoveFileAgreement ==
  ASSUME ControlOK, ControlOK', PlacementOK, Agreement, RemoveFile
  PROVE  Agreement'
<1> USE DEF RemoveFile, Deleting
<1>1. /\ LogIndex = job.idx /\ (Dropping <=> pc = "remove") /\ Ascending(job.names)
      /\ pc \in {"remove", "reconcile", "prune"}
      /\ job.kind \in {"recover", "truncate", "cutBelow", "cutRewrite", "cutAll"}
  BY DeletingFacts
<1>2. PICK kept : /\ kept = IF pc = "reconcile" THEN job.paths ELSE Range(job.idx)
                  /\ DOMAIN dir = Pending \cup kept /\ Range(job.names) \cap kept = {}
  BY DeletingFacts
<1>3. /\ job' = [job EXCEPT !.unlinked = TRUE] /\ ~job.unlinked
      /\ job'.kind = job.kind /\ job'.base = job.base /\ job'.idx = job.idx
      /\ job'.names = job.names /\ job'.paths = job.paths /\ job'.unlinked
  BY DEF ControlTypeOK
<1>4. PICK h, t : h = Head(job.names) /\ t = Tail(job.names)
  OBVIOUS
<1>5. /\ Range(job.names) = {h} \cup Range(t) /\ h \notin Range(t)
      /\ DOMAIN dir = Range(job.names) \cup kept
  BY <1>1, <1>2, <1>3, <1>4, TailAscending, LogIndexType DEF Pending
<1>6. /\ DOMAIN dir' = DOMAIN dir \ {h} /\ \A b \in DOMAIN dir' : KeptName(b)
  BY <1>4, RemoveFileKept
<1>7. DOMAIN dir' = Range(t) \cup kept
  BY <1>2, <1>5, <1>6
<1>8. \A b \in DOMAIN dir \cap Range(job.idx) : KeptName(b)
  <2>1. CASE pc = "reconcile"
    <3>1. job.idx = << >> /\ Range(job.idx) = {}
      BY <2>1 DEF RecoveryOK, ReconcileOK, Range
    <3> QED BY <3>1
  <2>2. CASE pc # "reconcile"
    BY <2>2, <1>2, <1>5, <1>6
  <2> QED BY <2>1, <2>2
<1>9. DeletionOK'
  <2>1. Pending' = Range(t)
    BY <1>3, <1>4 DEF Pending
  <2> QED BY <1>1, <1>2, <1>3, <1>7, <2>1 DEF DeletionOK
<1> QED BY <1>1, <1>3, <1>8, <1>9, DeletionFrame

\* The name that is gone is struck off.
LEMMA SyncRemovalAgreement ==
  ASSUME ControlOK, ControlOK', PlacementOK, Agreement, SyncRemoval
  PROVE  Agreement'
<1> USE DEF SyncRemoval, Deleting
<1>1. /\ LogIndex = job.idx /\ Ascending(job.names)
      /\ pc \in {"remove", "reconcile", "prune"}
  BY DeletingFacts
<1>2. PICK kept : /\ kept = IF pc = "reconcile" THEN job.paths ELSE Range(job.idx)
                  /\ DOMAIN dir = Pending \cup kept /\ Range(job.names) \cap kept = {}
  BY DeletingFacts
<1>3. /\ job.unlinked /\ ~job'.unlinked /\ job'.names = Tail(job.names)
      /\ job'.kind = job.kind /\ job'.base = job.base /\ job'.idx = job.idx
      /\ job'.paths = job.paths
  BY DEF ControlTypeOK
<1>4. \A b \in DOMAIN dir : KeptName(b)
  <2>1. \A b \in DOMAIN dir : dir[b] \in Inodes \cap Live(dir, dir, active, fresh)
    BY SegsType DEF Live, Range
  <2> QED BY <2>1, CollectedKept DEF KeptName
<1>5. DeletionOK'
  <2>1. /\ Ascending(Tail(job.names)) /\ Range(Tail(job.names)) \subseteq Range(job.names)
    BY <1>1, TailAscending, LogIndexType
  <2>2. Pending' = Range(Tail(job.names)) /\ Pending = Range(Tail(job.names))
    BY <1>3 DEF Pending
  <2> QED BY <1>2, <1>3, <2>1, <2>2 DEF DeletionOK
<1> QED BY <1>1, <1>3, <1>4, <1>5, DeletionFrame

\* When every file is deleted, the directory is what the new index says.
LEMMA InstalledKept ==
  ASSUME ControlOK, PlacementOK, Agreement,
         pc = "remove", job.names = << >>,
         Installed(IF ReplacesActive THEN fresh ELSE active,
                   IF job.kind = "cutAll" THEN 0 ELSE job.idx[1])
  PROVE  KeptDir /\ DOMAIN dir = Range(job.idx) /\ Opened /\ Opened' /\ ~Dropping'
<1> USE DEF Installed
<1>1. KeptDir
  <2>1. \A b \in DOMAIN dir : dir[b] \in Inodes \cap
          Live(dir, durableDir, IF ReplacesActive THEN fresh ELSE active, Nil)
    BY SegsType DEF Live, Range
  <2> QED BY <2>1, CollectedKept DEF KeptDir, KeptName
<1>2. DOMAIN dir = Range(job.idx)
  <2>1. ~job.unlinked
    BY DEF Agreement, DeletionOK
  <2>2. Pending = {}
    BY <2>1 DEF Pending, Range
  <2> QED BY <2>2, DeletingFacts
<1>3. Opened /\ Opened' /\ ~Dropping'
  BY DeletingFacts DEF Opened, Dropping, NoJob
<1> QED BY <1>1, <1>2, <1>3

LEMMA InstalledAgreement ==
  ASSUME ControlOK, ControlOK', PlacementOK, Agreement,
         pc = "remove", job.names = << >>,
         Installed(IF ReplacesActive THEN fresh ELSE active,
                   IF job.kind = "cutAll" THEN 0 ELSE job.idx[1])
  PROVE  Agreement'
<1> USE DEF Installed
<1>1. /\ LogIndex = job.idx /\ Opened /\ Dropping /\ ~Committing
      /\ job.kind \in {"truncate", "cutBelow", "cutRewrite", "cutAll"}
      /\ job.idx # << >> /\ job.idx \in Seq(Nat) /\ job.idx[1] \in Nat
      /\ ~job.unlinked
  <2>1. /\ LogIndex = job.idx /\ Opened /\ Dropping /\ ~Committing
        /\ job.kind \in {"truncate", "cutBelow", "cutRewrite", "cutAll"}
        /\ ~job.unlinked
    BY DeletingFacts DEF StepsOK, Kinds, Agreement, DeletionOK
  <2> QED BY <2>1, LogIndexType, LastElement
<1>2. DOMAIN dir = Range(job.idx) /\ KeptDir
  BY InstalledKept
<1>3. /\ Opened' /\ ~Dropping' /\ ~Committing' /\ ~HasFresh' /\ LogIndex' = job.idx
      /\ job'.kind = "none" /\ ~job'.unlinked
      /\ index' = job.idx
  BY DEF Opened, Dropping, Committing, HasFresh, LogIndex, NoJob
<1>5. Segs' = Segs /\ DOMAIN dir' = DOMAIN dir
  BY <1>2, SegsKept DEF KeptDir
<1>6. ChainOK' /\ DeletionOK' /\ ScannedOK' /\ NamedOK' /\ BatchOK' /\ DropPlanOK'
  BY <1>1, <1>2, <1>3, <1>5
  DEF Agreement, ChainOK, DeletionOK, ScannedOK, NamedOK, BatchOK, DropPlanOK
<1>7. EndOK'
  <2>1. LastOf(LogIndex) \in DOMAIN dir
    BY <1>1, <1>2, LastElement DEF LastOf, Range
  <2> QED BY <1>1, <1>2, <1>3, <1>5, <2>1 DEF Agreement, EndOK, Writing, KeptDir, KeptName
<1>8. BoundsOK'
  <2>1. /\ lastLSN + 1 = nextLSN /\ lastLSN \in Nat /\ nextLSN \in Nat
    BY <1>1 DEF Agreement, BoundsOK, Unpublished, MemTypeOK
  <2>2. CASE job.kind = "cutAll"
    <3>1. job.idx[1] = nextLSN
      BY <2>2 DEF PlacementOK, PlanOK
    <3> QED BY <1>3, <2>1, <2>2, <3>1 DEF BoundsOK, Unpublished
  <2>3. CASE job.kind # "cutAll"
    <3>1. job.idx[1] < nextLSN /\ job.idx[1] > 0
      BY <1>1, <2>3 DEF Agreement, DropPlanOK, PlacementOK, PlanOK
    <3> QED BY <1>1, <1>3, <2>1, <2>3, <3>1 DEF BoundsOK, Unpublished
  <2> QED BY <2>2, <2>3
<1> QED BY <1>6, <1>7, <1>8 DEF Agreement

\* The four ends of Truncate and CutOffset.
LEMMA FinishInstalls ==
  ASSUME PlacementOK,
         FinishTruncate \/ FinishCutBelow \/ FinishCutRewrite \/ FinishCutEverything
  PROVE  /\ pc = "remove" /\ job.names = << >>
         /\ Installed(IF ReplacesActive THEN fresh ELSE active,
                      IF job.kind = "cutAll" THEN 0 ELSE job.idx[1])
<1> DEFINE a == IF ReplacesActive THEN fresh ELSE active
           f == IF job.kind = "cutAll" THEN 0 ELSE job.idx[1]
<1>1. ASSUME FinishTruncate PROVE Removed("truncate") /\ Installed(a, f)
  <2>1. job.kind = "truncate" /\ a = active /\ f = job.idx[1]
    BY <1>1 DEF FinishTruncate, Removed, ReplacesActive
  <2> HIDE DEF a, f
  <2> QED BY <1>1, <2>1 DEF FinishTruncate
<1>2. ASSUME FinishCutBelow PROVE Removed("cutBelow") /\ Installed(a, f)
  <2>1. job.kind = "cutBelow" /\ a = active /\ f = job.base
    BY <1>2 DEF FinishCutBelow, Removed, ReplacesActive, PlacementOK, PlanOK
  <2> HIDE DEF a, f
  <2> QED BY <1>2, <2>1 DEF FinishCutBelow
<1>3. ASSUME FinishCutRewrite PROVE Removed("cutRewrite") /\ Installed(a, f)
  <2>1. job.kind = "cutRewrite" /\ a = (IF CutsActive THEN fresh ELSE active) /\ f = job.base
    BY <1>3 DEF FinishCutRewrite, Removed, ReplacesActive, PlacementOK, PlanOK
  <2> HIDE DEF a, f
  <2> QED BY <1>3, <2>1 DEF FinishCutRewrite
<1>4. ASSUME FinishCutEverything PROVE Removed("cutAll") /\ Installed(a, f)
  <2>1. job.kind = "cutAll" /\ a = fresh /\ f = 0
    BY <1>4 DEF FinishCutEverything, Removed, ReplacesActive
  <2> HIDE DEF a, f
  <2> QED BY <1>4, <2>1 DEF FinishCutEverything
<1> QED BY <1>1, <1>2, <1>3, <1>4 DEF Removed

LEMMA FinishAgreement ==
  ASSUME ControlOK, ControlOK', PlacementOK, Agreement,
         FinishTruncate \/ FinishCutBelow \/ FinishCutRewrite \/ FinishCutEverything
  PROVE  Agreement'
BY FinishInstalls, InstalledAgreement

-----------------------------------------------------------------------------
(* Recovery.                                                               *)

\* Without a log in memory nothing is said of an index or its bounds.
LEMMA ClosedAgreement ==
  ASSUME pc' = "closed", job' = NoJob, lastLSN' = 0, ~HasFresh'
  PROVE  Agreement'
<1>1. /\ ~Opened' /\ ~Dropping' /\ LogIndex' = << >> /\ job'.kind = "none" /\ ~job'.unlinked
      /\ ~Committing'
  BY DEF Opened, Dropping, LogIndex, NoJob, Committing
<1>2. ChainOK'
  BY <1>1 DEF ChainOK, Range
<1>3. DeletionOK' /\ ScannedOK' /\ NamedOK' /\ EndOK'
  BY <1>1 DEF DeletionOK, ScannedOK, NamedOK, EndOK
<1>4. BatchOK' /\ BoundsOK' /\ DropPlanOK'
  BY <1>1 DEF BatchOK, BoundsOK, DropPlanOK
<1> QED BY <1>2, <1>3, <1>4 DEF Agreement

\* While Open is reading, the memory is that of a closed log.
LEMMA RecoveringFacts ==
  ASSUME ControlOK, PlacementOK, Agreement, pc \in {"closed", "scan", "reconcile", "prune"}
  PROVE  /\ ~Opened /\ ~Dropping /\ ~HasFresh /\ ~Committing /\ LogIndex = job.idx
         /\ lastLSN = 0 /\ firstLSN = 0
         /\ pc # "closed" => job.kind = "recover"
<1>1. ~Opened /\ ~Dropping /\ ~HasFresh /\ ~Committing /\ (pc # "closed" => job.kind = "recover")
  BY DEF Opened, Dropping, HasFresh, Committing, StepsOK, Kinds
<1> QED BY <1>1 DEF LogIndex, Agreement, BoundsOK, PlacementOK, ClosedOK

\* A step from one stage of Open to another.
LEMMA RecoveringFrame ==
  ASSUME ControlOK, PlacementOK, Agreement, pc \in {"closed", "scan", "reconcile", "prune"},
         pc' \in {"scan", "reconcile", "prune"}, job'.kind = "recover",
         UNCHANGED <<mem, batch, fresh>>, ~job'.unlinked,
         Range(job'.idx) \subseteq DOMAIN dir',
         \A k \in 1..(Len(job'.idx) - 1) : job'.idx[k + 1] = Segs'[job'.idx[k]],
         DeletionOK', ScannedOK'
  PROVE  Agreement'
<1> USE DEF mem
<1>1. lastLSN = 0
  BY RecoveringFacts
<1>2. ~Opened' /\ ~Dropping' /\ ~HasFresh' /\ ~Committing' /\ LogIndex' = job'.idx
  BY DEF Opened, Dropping, HasFresh, Committing, LogIndex
<1>3. ChainOK' /\ NamedOK' /\ EndOK'
  BY <1>2 DEF ChainOK, NamedOK, EndOK
<1>4. BatchOK' /\ BoundsOK' /\ DropPlanOK'
  BY <1>1, <1>2 DEF BatchOK, BoundsOK, DropPlanOK
<1> QED BY <1>3, <1>4 DEF Agreement

\* Open begins with the segments it lists, or with a new log.
LEMMA OpenDirAgreement ==
  ASSUME ControlOK, ControlOK', PlacementOK, Agreement, OpenDir
  PROVE  Agreement'
<1> USE DEF OpenDir, Closed, mem
<1>1. ~Opened /\ ~HasFresh /\ lastLSN = 0
  BY RecoveringFacts
<1>2. CASE DOMAIN dir = {}
  <2>1. /\ job'.kind = "init" /\ job'.idx = << >> /\ ~job'.unlinked /\ pc' = "createOpen"
    BY <1>2 DEF NoJob
  <2>2. ~Opened' /\ ~Dropping' /\ ~HasFresh' /\ ~Committing' /\ LogIndex' = << >>
    BY <2>1 DEF Opened, Dropping, HasFresh, Committing, LogIndex
  <2>3. ChainOK'
    BY <2>2 DEF ChainOK, Range
  <2>4. DeletionOK' /\ ScannedOK' /\ NamedOK' /\ EndOK'
    BY <1>2, <2>1, <2>2 DEF DeletionOK, ScannedOK, NamedOK, EndOK
  <2>5. BatchOK' /\ BoundsOK' /\ DropPlanOK'
    BY <1>1, <2>1, <2>2 DEF BatchOK, BoundsOK, DropPlanOK
  <2> QED BY <2>3, <2>4, <2>5 DEF Agreement
<1>3. CASE DOMAIN dir # {}
  <2>1. /\ job'.kind = "recover" /\ job'.idx = << >> /\ ~job'.unlinked /\ pc' = "scan"
        /\ job'.paths = DOMAIN dir /\ Range(job'.idx) = {} /\ Len(job'.idx) = 0
    <3>1. /\ job' = [NoJob EXCEPT !.kind = "recover", !.paths = DOMAIN dir] /\ pc' = "scan"
      BY <1>3 DEF Listed
    <3>2. /\ job'.kind = "recover" /\ job'.idx = << >> /\ ~job'.unlinked /\ pc' = "scan"
          /\ job'.paths = DOMAIN dir
      BY <3>1 DEF NoJob
    <3>3. Range(<< >>) = {} /\ Len(<< >>) = 0
      BY DEF Range
    <3> QED BY <3>2, <3>3
  <2>2. DeletionOK' /\ ScannedOK'
    BY <1>1, <2>1 DEF DeletionOK, ScannedOK, Dropping
  <2> QED BY <2>1, <2>2, RecoveringFrame
<1> QED BY <1>2, <1>3

\* The first segment of a new log.
LEMMA InstallEmptyAgreement ==
  ASSUME ControlOK, ControlOK', PlacementOK, Agreement, InstallEmpty
  PROVE  Agreement'
<1> USE DEF InstallEmpty, disk
<1>1. job.kind = "init" /\ HasFresh /\ ~Opened /\ ~Dropping /\ fresh \in Inodes
  BY OpenedIff DEF StepsOK, Kinds, HasFresh, Opened, Dropping
<1>2. /\ job.base = 1 /\ DOMAIN dir = {1} /\ dir[1] = fresh /\ files[fresh].data = << >>
      /\ lastLSN = 0 /\ firstLSN = 0
  BY <1>1 DEF Agreement, NamedOK, BoundsOK, PlacementOK, PlanOK, FreshOK, ClosedOK
<1>3. Segs[1] = 1
  <2>1. Segs[1] = 1 + Len(files[dir[1]].data) /\ files[dir[1]].data = << >>
    BY <1>2, SegsType
  <2> QED BY <2>1
<1>4. /\ Opened' /\ ~Dropping' /\ ~HasFresh' /\ ~Committing' /\ LogIndex' = <<1>>
      /\ job'.kind = "none" /\ ~job'.unlinked /\ Segs' = Segs
  BY DEF Opened, Dropping, HasFresh, Committing, LogIndex, NoJob, Segs, EndOf
<1>5. Range(<<1>>) = {1} /\ Len(<<1>>) = 1 /\ <<1>>[1] = 1
  BY DEF Range
<1>6. ChainOK' /\ DeletionOK' /\ ScannedOK' /\ NamedOK' /\ BatchOK' /\ DropPlanOK'
  BY <1>2, <1>4, <1>5 DEF ChainOK, DeletionOK, ScannedOK, NamedOK, BatchOK, DropPlanOK
<1>7. EndOK' /\ BoundsOK'
  BY <1>2, <1>3, <1>4, <1>5 DEF EndOK, BoundsOK, LastOf, Unpublished
<1> QED BY <1>6, <1>7 DEF Agreement

\* The next segment scanned starts where the last one ends.
LEMMA ScanSegmentAgreement ==
  ASSUME ControlOK, ControlOK', PlacementOK, Agreement, ScanSegment
  PROVE  Agreement'
<1> USE DEF ScanSegment, Scanning, mem, disk
<1>1. /\ ~Dropping /\ LogIndex = job.idx /\ job.kind = "recover" /\ ~job.unlinked
      /\ job.idx \in Seq(Nat)
  BY RecoveringFacts, LogIndexType DEF Agreement, DeletionOK
<1>2. PICK p : p = Path
  OBVIOUS
<1>3. p \in job.paths /\ p \in DOMAIN dir /\ p \in Nat
  BY <1>2, PathType
<1> DEFINE n == Len(job.idx)
           t == Append(job.idx, p)
<1>4. /\ job'.idx = t /\ job'.paths = job.paths \ {p} /\ job'.expected = Segs[p]
      /\ job'.kind = "recover" /\ ~job'.unlinked
  <2>1. Segs[p] = p + Len(files[dir[p]].data)
    BY <1>3, SegsType
  <2>2. /\ job'.idx = t /\ job'.paths = job.paths \ {p} /\ job'.kind = job.kind
        /\ job'.unlinked = job.unlinked /\ job'.expected = p + ScanRecords(OnDisk(p))
    BY <1>2 DEF ControlTypeOK
  <2> QED BY <1>1, <2>1, <2>2 DEF ScanRecords, OnDisk
<1>5. /\ n \in Nat /\ Len(t) = n + 1 /\ t[n + 1] = p /\ t \in Seq(Nat)
      /\ \A k \in 1..n : t[k] = job.idx[k]
      /\ DOMAIN job.idx = 1..n /\ DOMAIN t = 1..(n + 1)
  BY <1>1, <1>3, AppendType
<1>6. /\ Range(job.idx) \subseteq DOMAIN dir /\ \A k \in 1..(n - 1) : job.idx[k + 1] = Segs[job.idx[k]]
      /\ DOMAIN dir = Range(job.idx) \cup job.paths
      /\ job.idx # << >> => job.expected = Segs[job.idx[n]]
  BY <1>1 DEF Agreement, ChainOK, ScannedOK, LastOf
<1>7. job.idx # << >> => p = Segs[job.idx[n]]
  <2>1. job.idx # << >> => ~(p < job.expected) /\ ~(p > job.expected) /\ job.expected \in Nat
    BY <1>2 DEF Unrecoverable, Overlaps, Gap, IsFirst, ControlTypeOK
  <2> QED BY <1>3, <1>6, <2>1
<1>8. n # 0 => job.idx # << >>
  BY <1>5
<1> HIDE DEF n, t
<1>9. Range(t) = Range(job.idx) \cup {p}
  <2>1. \A k \in 1..(n + 1) : k \in 1..n \/ k = n + 1
    BY <1>5
  <2>2. n + 1 \in 1..(n + 1) /\ \A k \in 1..n : k \in 1..(n + 1)
    BY <1>5
  <2> QED BY <1>5, <2>1, <2>2 DEF Range
<1>10. ASSUME NEW k \in 1..n PROVE t[k + 1] = Segs[t[k]]
  <2>1. CASE k = n
    <3>1. job.idx # << >>
      BY <1>5, <1>8, <2>1
    <3> QED BY <2>1, <3>1, <1>5, <1>7
  <2>2. CASE k # n
    <3>1. k \in 1..(n - 1) /\ k + 1 \in 1..n
      BY <1>5, <2>2
    <3> QED BY <3>1, <1>5, <1>6
  <2> QED BY <2>1, <2>2
<1>11. Segs' = Segs
  BY DEF Segs, EndOf
<1>12. /\ Range(job'.idx) \subseteq DOMAIN dir'
       /\ \A k \in 1..(Len(job'.idx) - 1) : job'.idx[k + 1] = Segs'[job'.idx[k]]
  <2>1. Len(t) - 1 = n
    BY <1>5
  <2> QED BY <1>3, <1>4, <1>6, <1>9, <1>10, <1>11, <2>1, ZenonT(30)
<1>13. DeletionOK'
  BY <1>1, <1>4 DEF DeletionOK, Dropping
<1>14. ScannedOK'
  <2>1. LastOf(t) = p
    BY <1>5 DEF LastOf
  <2> QED BY <1>3, <1>4, <1>6, <1>9, <1>11, <2>1 DEF ScannedOK
<1> QED BY <1>4, <1>12, <1>13, <1>14, RecoveringFrame

\* An overlap makes the segments collected so far those to delete.
LEMMA ReconcileAgreement ==
  ASSUME ControlOK, ControlOK', PlacementOK, Agreement, Reconcile
  PROVE  Agreement'
<1> USE DEF Reconcile, Scanning, mem, disk
<1>1. /\ ~Dropping /\ job.kind = "recover" /\ ~job.unlinked
  BY RecoveringFacts DEF Agreement, DeletionOK
<1>2. /\ job'.idx = << >> /\ job'.names = job.idx /\ job'.kind = "recover" /\ ~job'.unlinked
      /\ job'.paths = job.paths /\ Range(job'.idx) = {} /\ Len(job'.idx) = 0
  <2>1. /\ job'.idx = << >> /\ job'.names = job.idx /\ job'.kind = job.kind
        /\ job'.unlinked = job.unlinked /\ job'.paths = job.paths
    BY DEF ControlTypeOK
  <2> QED BY <1>1, <2>1 DEF Range
<1>3. DOMAIN dir = Range(job.idx) \cup job.paths
  BY DEF Agreement, ScannedOK
<1>4. Ascending(job.idx) /\ Range(job.idx) \cap job.paths = {}
  <2>1. Ascending(job.idx) /\ \A k \in DOMAIN job.idx, p \in job.paths : job.idx[k] < p
    BY DEF RecoveryOK, ScanOK
  <2>2. \A k \in DOMAIN job.idx : job.idx[k] \in Nat
    BY JobType
  <2> QED BY <2>1, <2>2 DEF Range
<1>5. DeletionOK' /\ ScannedOK'
  BY <1>2, <1>3, <1>4 DEF DeletionOK, Pending, ScannedOK, Dropping
<1> QED BY <1>2, <1>5, RecoveringFrame

\* What is left is scanned from the overlapping segment on.
LEMMA ReconciledAgreement ==
  ASSUME ControlOK, ControlOK', PlacementOK, Agreement, Reconciled
  PROVE  Agreement'
<1> USE DEF Reconciled, mem, disk
<1>1. ~Dropping /\ job.kind = "recover" /\ ~job.unlinked /\ job.idx = << >>
  BY RecoveringFacts DEF Agreement, DeletionOK, RecoveryOK, ReconcileOK
<1>2. DOMAIN dir = job.paths /\ Range(job.idx) = {} /\ Len(job.idx) = 0
  <2>1. Pending = {}
    BY <1>1 DEF Pending, Range
  <2> QED BY <1>1, <2>1, DeletingFacts DEF Range
<1>3. DeletionOK' /\ ScannedOK'
  BY <1>1, <1>2 DEF DeletionOK, ScannedOK, Dropping
<1> QED BY <1>1, <1>2, <1>3, RecoveringFrame

\* Of segments that each start where the one before ends only the last can be
\* empty.
LEMMA OnlyLastEmpty ==
  ASSUME ControlOK, PlacementOK, Agreement, pc \in {"scan", "prune"}, job.idx # << >>
  PROVE  /\ \A k \in 1..(Len(job.idx) - 1) : k \in WithRecords
         /\ WithRecords = {} => Len(job.idx) = 1
         /\ ActiveIdx = Len(job.idx) \/ ActiveIdx = Len(job.idx) - 1
<1> DEFINE n == Len(job.idx)
<1>1. /\ n \in Nat /\ n > 0 /\ DOMAIN job.idx = 1..n /\ job.idx \in Seq(Nat)
      /\ WithRecords \in SUBSET (1..n) /\ ActiveIdx \in 1..n
      /\ Ascending(job.idx) /\ LogIndex = job.idx
  <2>1. Ascending(job.idx) /\ LogIndex = job.idx
    BY RecoveringFacts DEF RecoveryOK, ScanOK, PruneOK
  <2> QED BY <2>1, ActiveIdxType, JobType, LastElement
<1>2. ASSUME NEW k \in 1..(n - 1) PROVE k \in WithRecords
  <2>1. k \in DOMAIN job.idx /\ k + 1 \in DOMAIN job.idx /\ k < k + 1
    BY <1>1, SMTT(30)
  <2>2. job.idx[k + 1] = Segs[job.idx[k]] /\ job.idx[k] < job.idx[k + 1]
    BY <1>1, <2>1 DEF Agreement, ChainOK, Ascending
  <2>3. PICK b : b = job.idx[k]
    OBVIOUS
  <2>4. b \in DOMAIN dir
    BY <2>1, <2>3, CollectedSegments
  <2>5. /\ b \in Nat /\ Len(files[dir[b]].data) \in Nat /\ Segs[b] = b + Len(files[dir[b]].data)
    BY <2>4, SegsType
  <2>6. b < Segs[b]
    BY <2>2, <2>3
  <2>7. Len(files[dir[b]].data) > 0
    BY <2>5, <2>6
  <2> QED BY <2>1, <2>3, <2>7 DEF WithRecords, ScanRecords, OnDisk
<1> HIDE DEF n
<1>3. WithRecords = {} => n = 1
  <2>1. n # 1 => 1 \in 1..(n - 1)
    BY <1>1
  <2> QED BY <1>2, <2>1
<1>4. ActiveIdx = n \/ ActiveIdx = n - 1
  <2>1. CASE WithRecords = {}
    BY <2>1 DEF ActiveIdx, n
  <2>2. CASE WithRecords # {}
    <3>1. \A k \in WithRecords : k <= ActiveIdx
      BY <1>1, <2>2, MaxOfInterval DEF ActiveIdx
    <3>2. n # 1 => n - 1 \in 1..(n - 1)
      BY <1>1
    <3>3. n # 1 => n - 1 <= ActiveIdx
      BY <1>2, <3>1, <3>2
    <3> QED BY <1>1, <3>3
  <2> QED BY <2>1, <2>2
<1> QED BY <1>2, <1>3, <1>4 DEF n

\* A sequence of length one is its element.
LEMMA OneElement ==
  ASSUME NEW s \in Seq(Nat), Len(s) = 1
  PROVE  s = <<s[1]>>
OBVIOUS

\* A sequence of one element is its own reverse.
LEMMA ReverseOne ==
  ASSUME NEW x \in Nat
  PROVE  Reverse(<<x>>) = <<x>>
BY DEF Reverse

\* Recovery deletes at most the last segment it has collected.
LEMMA PrunableOne ==
  ASSUME ControlOK, PlacementOK, Agreement, pc = "scan", job.paths = {}
  PROVE  /\ Len(Survivors) = ActiveIdx
         /\ ActiveIdx = Len(job.idx) => Prunable = << >>
         /\ ActiveIdx # Len(job.idx) => Prunable = <<LastCollected>>
<1> DEFINE n == Len(job.idx)
           a == ActiveIdx
           above == SubSeq(job.idx, a + 1, n)
           rest == IF WithRecords = {} THEN SubSeq(job.idx, 2, n) ELSE << >>
<1>1. /\ job.idx # << >> /\ job.idx \in Seq(Nat) /\ n \in Nat /\ n > 0
      /\ a \in 1..n /\ (a = n \/ a = n - 1) /\ (WithRecords = {} => n = 1)
      /\ DOMAIN job.idx = 1..n /\ \A k \in 1..n : job.idx[k] \in Nat
  BY LastCollectedType, OnlyLastEmpty, ActiveIdxType, LastElement, JobType
<1>2. Len(Survivors) = a
  <2>1. WithRecords = {} => a = 1
    BY <1>1 DEF ActiveIdx
  <2>2. Len(Survivors) = IF WithRecords = {} THEN 1 ELSE a
    BY SurvivorsType
  <2> QED BY <2>1, <2>2
<1>3. rest = << >>
  <2>1. WithRecords = {} => SubSeq(job.idx, 2, n) = << >>
    BY <1>1
  <2> QED BY <2>1
<1>4. a \in Nat /\ a <= n
  BY <1>1
<1>5. above \in Seq(Nat) /\ Len(above) = n - a /\ \A k \in 1..(n - a) : above[k] = job.idx[a + k]
  BY <1>1, <1>4, SplitLSNs
<1> HIDE DEF n, a, above, rest
<1>6. a = n => above = << >>
  BY <1>4, <1>5, <1>1
<1>7. a # n => above = <<LastCollected>>
  <2>1. LastCollected = job.idx[n]
    BY DEF LastCollected, n
  <2>2. a # n => n - a = 1 /\ a + 1 = n /\ 1 \in 1..(n - a)
    BY <1>1, <1>4
  <2>3. a # n => Len(above) = 1 /\ above[1] = LastCollected
    BY <1>5, <2>1, <2>2
  <2> QED BY <1>5, <2>3, OneElement
<1>8. Prunable = Reverse(above) \o rest
  BY DEF Prunable, above, rest, a, n
<1>9. a = n => Prunable = << >>
  <2>1. Reverse(<< >>) = << >>
    BY DEF Reverse
  <2>2. << >> \o << >> = << >>
    OBVIOUS
  <2> QED BY <1>3, <1>6, <1>8, <2>1, <2>2
<1>10. a # n => Prunable = <<LastCollected>>
  <2>1. LastCollected \in Nat
    BY LastCollectedType
  <2>2. PICK x \in Nat : x = LastCollected
    BY <2>1
  <2>3. Reverse(<<x>>) = <<x>> /\ <<x>> \o << >> = <<x>>
    BY ReverseOne
  <2> QED BY <1>3, <1>7, <1>8, <2>2, <2>3
<1> QED BY <1>2, <1>9, <1>10 DEF a, n

\* The torn tail goes, and with it the segment that holds no record.
LEMMA TruncateTornTailAgreement ==
  ASSUME ControlOK, ControlOK', PlacementOK, Agreement, TruncateTornTail
  PROVE  Agreement'
<1> USE DEF TruncateTornTail, mem
<1>1. /\ ~Dropping /\ job.kind = "recover" /\ ~job.unlinked /\ LogIndex = job.idx
  BY RecoveringFacts DEF Agreement, DeletionOK
<1> DEFINE n == Len(job.idx)
           a == ActiveIdx
<1>2. /\ job.idx # << >> /\ job.idx \in Seq(Nat) /\ n \in Nat /\ n > 0
      /\ a \in 1..n /\ (a = n \/ a = n - 1)
      /\ DOMAIN job.idx = 1..n /\ Ascending(job.idx)
      /\ LastCollected = job.idx[n] /\ LastCollected \in DOMAIN dir
  BY LastCollectedType, OnlyLastEmpty, ActiveIdxType, LastElement, JobType
  DEF RecoveryOK, ScanOK, LastCollected
<1>3. PICK s, q : s = Survivors /\ q = Prunable
  OBVIOUS
<1>4. /\ job'.idx = s /\ job'.names = q /\ job'.kind = "recover" /\ ~job'.unlinked
  BY <1>1, <1>3 DEF ControlTypeOK
<1>5. /\ s \in Seq(Nat) /\ Len(s) = a /\ DOMAIN s = 1..a /\ \A k \in 1..a : s[k] = job.idx[k]
      /\ a = n => q = << >>
      /\ a # n => q = <<job.idx[n]>>
  <2>1. /\ s \in Seq(Nat) /\ Len(s) = a
        /\ \A i \in 1..Len(s) : s[i] = job.idx[i]
    BY <1>3, SurvivorsType, PrunableOne
  <2> QED BY <1>2, <1>3, <2>1, PrunableOne
<1>6. KeptDir
  <2>1. /\ dir[LastCollected] \in Inodes /\ OnDisk(LastCollected) \in File /\ files \in [Inodes -> File]
    BY <1>2, NamedType DEF OnDisk, DiskTypeOK
  <2>2. \A i \in Inodes : KeptData(i)
    BY <2>1, TruncatedType DEF KeptData, OnDisk
  <2> QED BY <2>2, SegsType DEF KeptDir, KeptName
<1>7. Segs' = Segs /\ DOMAIN dir' = DOMAIN dir
  BY <1>6, SegsKept DEF KeptDir
<1>8. /\ Range(job.idx) = DOMAIN dir /\ \A k \in 1..(n - 1) : job.idx[k + 1] = Segs[job.idx[k]]
  <2>1. DOMAIN dir = Range(job.idx) \cup job.paths
    BY DEF Agreement, ScannedOK
  <2> QED BY <1>1, <2>1 DEF Agreement, ChainOK
<1> HIDE DEF n, a
<1>a. a \in Nat /\ n \in Nat /\ a <= n
  BY <1>2
<1>9. /\ Range(s) \subseteq DOMAIN dir' /\ \A k \in 1..(Len(s) - 1) : s[k + 1] = Segs'[s[k]]
  <2>1. \A k \in 1..a : k \in 1..n
    BY <1>a
  <2>2. \A k \in 1..(a - 1) : k \in 1..(n - 1) /\ k \in 1..a /\ k + 1 \in 1..a
    BY <1>a
  <2>3. Range(s) \subseteq Range(job.idx)
    <3>1. DOMAIN job.idx = 1..n
      BY <1>2
    <3>2. \A k \in DOMAIN s : k \in DOMAIN job.idx /\ s[k] = job.idx[k]
      BY <1>5, <2>1, <3>1
    <3> QED BY <3>2 DEF Range
  <2> QED BY <1>5, <1>7, <1>8, <2>2, <2>3
<1>10. Ascending(q) /\ Range(q) \cap Range(s) = {} /\ Range(job.idx) = Range(q) \cup Range(s)
  <2>1. CASE a = n
    <3>1. q = << >> /\ Range(q) = {} /\ Ascending(q)
      BY <1>5, <2>1 DEF Range, Ascending
    <3>2. Range(s) = Range(job.idx)
      BY <1>2, <1>5, <2>1 DEF Range
    <3> QED BY <3>1, <3>2
  <2>2. CASE a # n
    <3>1. a = n - 1 /\ n \in 1..n /\ \A k \in 1..n : k \in 1..a \/ k = n
      BY <1>2, <1>a, <2>2
    <3>2. PICK x : x = job.idx[n]
      OBVIOUS
    <3>3. q = <<x>> /\ Range(q) = {x} /\ Ascending(q)
      BY <1>5, <2>2, <3>2 DEF Range, Ascending
    <3>4. ASSUME NEW k \in 1..a PROVE s[k] # x /\ s[k] \in Range(job.idx)
      <4>1. k \in DOMAIN job.idx /\ n \in DOMAIN job.idx /\ k < n
        BY <1>2, <1>a, <3>1
      <4>2. job.idx[k] < job.idx[n] /\ job.idx[k] \in Nat /\ job.idx[n] \in Nat
        BY <1>2, <4>1 DEF Ascending
      <4> QED BY <1>5, <3>2, <4>1, <4>2 DEF Range
    <3>5. Range(job.idx) \subseteq Range(q) \cup Range(s)
      <4>1. \A k \in 1..n : job.idx[k] = x \/ \E j \in 1..a : job.idx[k] = s[j]
        BY <1>5, <3>1, <3>2
      <4> QED BY <4>1, <3>3, <1>2, <1>5 DEF Range
    <3>6. x \in Range(job.idx)
      BY <1>2, <3>1, <3>2 DEF Range
    <3>7. x \notin Range(s) /\ Range(s) \subseteq Range(job.idx)
      <4>1. DOMAIN s = 1..a
        BY <1>5
      <4>2. ASSUME NEW y \in Range(s) PROVE y # x /\ y \in Range(job.idx)
        <5>1. PICK k \in 1..a : y = s[k]
          BY <4>1 DEF Range
        <5> QED BY <5>1, <3>4
      <4> QED BY <4>2
    <3> QED BY <3>3, <3>5, <3>6, <3>7
  <2> QED BY <2>1, <2>2
<1>11. DeletionOK' /\ ScannedOK'
  BY <1>4, <1>7, <1>8, <1>10 DEF DeletionOK, Pending, ScannedOK, Dropping
<1> QED BY <1>4, <1>9, <1>11, RecoveringFrame

\* The bounds of a recovered log are those of its segments.
LEMMA InstallStateAgreement ==
  ASSUME ControlOK, ControlOK', PlacementOK, Agreement, InstallState
  PROVE  Agreement'
<1> USE DEF InstallState, disk
<1>1. /\ ~Dropping /\ job.kind = "recover" /\ ~job.unlinked /\ LogIndex = job.idx
      /\ job.idx # << >> /\ job.idx \in Seq(Nat)
  BY RecoveringFacts, LastCollectedType DEF Agreement, DeletionOK
<1>2. DOMAIN dir = Range(job.idx)
  <2>1. Pending = {}
    BY <1>1 DEF Pending, Range
  <2> QED BY <2>1, DeletingFacts
<1>3. /\ Opened' /\ ~Dropping' /\ ~HasFresh' /\ ~Committing' /\ LogIndex' = job.idx
      /\ job'.kind = "none" /\ ~job'.unlinked /\ Segs' = Segs
  BY DEF Opened, Dropping, HasFresh, Committing, LogIndex, NoJob, Segs, EndOf
<1>4. ChainOK' /\ DeletionOK' /\ ScannedOK' /\ NamedOK' /\ BatchOK' /\ DropPlanOK'
  BY <1>1, <1>2, <1>3
  DEF Agreement, ChainOK, DeletionOK, ScannedOK, NamedOK, BatchOK, DropPlanOK
<1> DEFINE n == Len(job.idx)
<1>5. /\ n \in Nat /\ n > 0 /\ DOMAIN job.idx = 1..n /\ LastCollected = job.idx[n]
      /\ LastCollected \in DOMAIN dir /\ LastCollected \in Nat \ {0}
      /\ NextInstalled = LastCollected + Len(files[dir[LastCollected]].data)
      /\ Ascending(job.idx) /\ \A k \in 1..n : job.idx[k] \in Nat
      /\ WithRecords \in SUBSET (1..n)
  <2>1. /\ n \in Nat /\ n > 0 /\ DOMAIN job.idx = 1..n /\ LastCollected = job.idx[n]
        /\ \A k \in 1..n : job.idx[k] \in Nat
    BY <1>1, LastElement, JobType DEF LastCollected
  <2>2. WithRecords \in SUBSET (1..n) /\ Ascending(job.idx)
    BY <1>1, ActiveIdxType DEF RecoveryOK, PruneOK
  <2>3. /\ LastCollected \in DOMAIN dir /\ LastCollected \in Nat \ {0}
        /\ NextInstalled = LastCollected + Len(OnDisk(LastCollected).data)
    BY NextInstalledRight
  <2> QED BY <2>1, <2>2, <2>3 DEF OnDisk
<1>6. NextInstalled = Segs[LastCollected] /\ LastCollected <= NextInstalled /\ NextInstalled \in Nat
  BY <1>5, SegsType
<1>7. LastCollected < NextInstalled \/ n = 1
  <2>1. n = 1 \/ Len(files[dir[LastCollected]].data) > 0
    BY DEF PlacementOK, SurvivorsOK, ScanRecords, OnDisk
  <2>2. Len(files[dir[LastCollected]].data) \in Nat
    BY <1>5, SegsType
  <2> QED BY <1>5, <2>1, <2>2
<1>8. LastInstalled + 1 = NextInstalled
  <2>1. LastRecovered \in Nat
    <3>1. CASE WithRecords = {}
      BY <3>1 DEF LastRecovered
    <3>2. CASE WithRecords # {}
      <4>1. Max(WithRecords) \in 1..n
        BY <1>5, <3>2, MaxOfInterval
      <4>2. PICK f \in File : f = OnDisk(job.idx[Max(WithRecords)])
        BY <1>5, <4>1, CollectedSegments
      <4>3. ScanLastLSN(f) \in Nat
        <5>1. f.data # << >> => f.data[Len(f.data)] \in Rec
          BY LastElement DEF File
        <5> QED BY <5>1 DEF ScanLastLSN, Rec
      <4> QED BY <3>2, <4>2, <4>3 DEF LastRecovered
    <3> QED BY <3>1, <3>2
  <2> HIDE DEF n
  <2>2. PICK r, c \in Nat : r = LastRecovered /\ c = LastCollected /\ c > 0
    BY <1>5, <2>1
  <2>3. LastInstalled = MaxOf(r, c - 1) /\ NextInstalled = MaxOf(r + 1, c)
    BY <2>2 DEF LastInstalled, NextInstalled
  <2> QED BY <2>2, <2>3 DEF MaxOf
<1>9. EndOK'
  BY <1>3, <1>5, <1>6, <1>7 DEF EndOK, LastOf
<1> HIDE DEF n
<1>a. job.idx[1] \in Nat /\ (n = 1 \/ job.idx[1] < job.idx[n])
  <2>1. 1 \in 1..n /\ n \in 1..n /\ (n = 1 \/ 1 < n)
    BY <1>5
  <2> QED BY <1>5, <2>1 DEF Ascending
<1>b. /\ \A k \in 1..(n - 1) : k \in WithRecords
      /\ WithRecords = {} => n = 1
  BY <1>1, OnlyLastEmpty DEF n
<1>10. BoundsOK'
  <2>1. ~Unpublished' /\ lastLSN' < nextLSN' /\ lastLSN' + 1 = nextLSN'
    BY <1>6, <1>8 DEF Unpublished, LastInstalled, MaxOf, LastRecovered
  <2>2. job.idx[1] <= NextInstalled
    <3>1. PICK e, l, c \in Nat : e = job.idx[1] /\ l = LastCollected /\ c = NextInstalled
      BY <1>5, <1>6, <1>a
    <3>2. e <= l /\ l <= c
      BY <1>5, <1>6, <1>a, <3>1
    <3> QED BY <3>1, <3>2
  <2>3. CASE WithRecords = {}
    <3>1. n = 1 /\ FirstRecovered = 0
      BY <1>b, <2>3 DEF FirstRecovered
    <3>2. NextInstalled = job.idx[1]
      <4>1. ~(Len(files[dir[LastCollected]].data) > 0)
        <5>1. 1 \in DOMAIN job.idx /\ job.idx[1] = LastCollected
          BY <1>5, <3>1
        <5> QED BY <2>3, <5>1 DEF WithRecords, ScanRecords, OnDisk
      <4>2. Len(files[dir[LastCollected]].data) \in Nat
        BY <1>5, SegsType
      <4> QED BY <1>5, <3>1, <4>1, <4>2
    <3> QED BY <1>3, <2>1, <2>2, <3>1, <3>2 DEF BoundsOK
  <2>4. CASE WithRecords # {}
    <3>1. 1 \in WithRecords
      <4>1. CASE n = 1
        <5>1. \A k \in 1..n : k = 1
          BY <4>1
        <5> QED BY <1>5, <2>4, <5>1
      <4>2. CASE n # 1
        <5>1. 1 \in 1..(n - 1)
          BY <1>5, <4>2
        <5> QED BY <5>1, <1>b
      <4> QED BY <4>1, <4>2
    <3>2. Min(WithRecords) = 1
      <4>1. Min(WithRecords) \in WithRecords /\ \A k \in WithRecords : Min(WithRecords) <= k
        <5>1. WithRecords \in SUBSET Nat
          BY <1>5
        <5> QED BY <5>1, <2>4, MinOfNaturals
      <4>2. \A k \in WithRecords : k \in Nat /\ 1 <= k
        BY <1>5
      <4> QED BY <3>1, <4>1, <4>2
    <3>3. FirstRecovered = job.idx[1]
      BY <2>4, <3>2 DEF FirstRecovered
    <3>4. job.idx[1] < NextInstalled /\ job.idx[1] \in Nat
      <4>1. CASE n = 1
        <5>1. job.idx[1] = LastCollected
          BY <1>5, <4>1
        <5>2. Len(files[dir[LastCollected]].data) > 0
          BY <3>1, <5>1 DEF WithRecords, ScanRecords, OnDisk
        <5>3. Len(files[dir[LastCollected]].data) \in Nat
          BY <1>5, SegsType
        <5> QED BY <1>5, <5>1, <5>2, <5>3
      <4>2. CASE n # 1
        BY <1>5, <1>6, <1>7, <1>a, <4>2
      <4> QED BY <4>1, <4>2
    <3>5. job.idx[1] > 0
      <4>1. job.idx[1] \in DOMAIN dir
        BY <1>5, CollectedSegments
      <4> QED BY <4>1 DEF PlacementOK, NamesOK
    <3> QED BY <1>3, <2>1, <2>2, <3>3, <3>4, <3>5 DEF BoundsOK
  <2> QED BY <2>3, <2>4
<1> QED BY <1>4, <1>9, <1>10 DEF Agreement

-----------------------------------------------------------------------------
(* The theorem.                                                            *)

\* A directory without a log.
LEMMA InitAgreement == Init => Agreement
<1> SUFFICES ASSUME Init PROVE Agreement
  OBVIOUS
<1> USE DEF Init
<1>1. /\ ~Opened /\ ~Dropping /\ ~HasFresh /\ ~Committing /\ LogIndex = << >>
      /\ job.kind = "none" /\ ~job.unlinked
  BY DEF Opened, Dropping, HasFresh, Committing, LogIndex, NoJob
<1>2. ChainOK
  BY <1>1 DEF ChainOK, Range
<1>3. DeletionOK /\ ScannedOK /\ NamedOK /\ EndOK
  BY <1>1 DEF DeletionOK, ScannedOK, NamedOK, EndOK
<1>4. BatchOK /\ BoundsOK /\ DropPlanOK
  BY <1>1 DEF BatchOK, BoundsOK, DropPlanOK
<1> QED BY <1>2, <1>3, <1>4 DEF Agreement

\* Every step keeps the agreement while no other call fails.
LEMMA NextAgreement ==
  ASSUME ControlOK, ControlOK', PlacementOK, PlacementOK', Agreement, Next,
         HarmlessFailures, NoEmptyRequests
  PROVE  Agreement'
<1>1. ASSUME Commit PROVE Agreement'
  <2>1. ~WriteRecordFails /\ ~FinishBatchFails /\ ~StartRollFails
    BY NoFault DEF HarmlessCalls, WriteRecordFails, FinishBatchFails, StartRollFails
  <2> QED
    BY <1>1, <2>1, BeginCommitAgreement, WriteRecordAgreement, CompleteRequestAgreement,
       FinishBatchAgreement, StartRollAgreement, InstallRollAgreement DEF Commit
<1>2. ASSUME Create PROVE Agreement'
  <2>1. ~CreateHeaderFails /\ ~CreateSyncDirFails
    BY NoFault DEF HarmlessCalls, CreateHeaderFails, CreateSyncDirFails
  <2>2. ~CreateOpenFails
    BY NoFault, BaseIsFree DEF HarmlessCalls, CreateOpenFails
  <2> QED
    BY <1>2, <2>1, <2>2, CreateOpenAgreement, CreateRestAgreement DEF Create
<1>3. ASSUME Drop PROVE Agreement'
  <2>1. ~ClearLeftoverFails
    BY NoFault DEF HarmlessCalls, ClearLeftoverFails
  <2>2. Bounds \subseteq Nat
    BY DEF Bounds
  <2> QED
    BY <1>3, <2>1, <2>2, TruncateAgreement, CutNoopAgreement, CutEverythingAgreement,
       CutInsideAgreement, ClearLeftoverAgreement, RewriteTempAgreement,
       RewriteTempFailsAgreement, PublishFailsAgreement, PublishRewriteAgreement, PublishSyncAgreement,
       FinishAgreement DEF Drop
<1>4. ASSUME Delete PROVE Agreement'
  <2>1. ~RemovalFails
    BY NoFault DEF HarmlessCalls, RemovalFails
  <2> QED BY <1>4, <2>1, RemoveFileAgreement, SyncRemovalAgreement DEF Delete
<1>5. ASSUME Recover PROVE Agreement'
  <2>1. ASSUME OpenCorrupt \/ TruncateTornTailFails PROVE Agreement'
    <3>1. lastLSN = 0 /\ ~HasFresh
      BY <2>1, RecoveringFacts DEF OpenCorrupt, Scanning, TruncateTornTailFails
    <3>2. pc' = "closed" /\ job' = NoJob /\ lastLSN' = lastLSN
      BY <2>1 DEF OpenCorrupt, OpenFails, mem, TruncateTornTailFails
    <3>3. ~HasFresh'
      BY <3>2 DEF HasFresh
    <3> QED BY <3>1, <3>2, <3>3, ClosedAgreement
  <2> QED
    BY <1>5, <2>1, OpenDirAgreement, InstallEmptyAgreement, ScanSegmentAgreement,
       ReconcileAgreement, ReconciledAgreement, TruncateTornTailAgreement,
       InstallStateAgreement DEF Recover
<1>6. ASSUME Close \/ CloseUnflushed \/ Kill \/ PowerLoss PROVE Agreement'
  <2>1. MemoryLost
    BY <1>6 DEF Close, CloseUnflushed, Kill, PowerLoss, Stop
  <2>2. pc' = "closed" /\ job' = NoJob /\ lastLSN' = 0 /\ ~HasFresh'
    BY <2>1 DEF MemoryLost, HasFresh
  <2> QED BY <2>2, ClosedAgreement
<1> QED
  BY <1>1, <1>2, <1>3, <1>4, <1>5, <1>6, SyncActiveAgreement DEF Next

\* Nothing changes in a stuttering step.
LEMMA StutterAgreement ==
  ASSUME Agreement, UNCHANGED vars
  PROVE  Agreement'
<1> USE DEF vars, disk, mem
<1>1. Segs' = Segs /\ LogIndex' = LogIndex /\ (Opened <=> Opened') /\ (Dropping <=> Dropping')
      /\ (HasFresh <=> HasFresh') /\ (Committing <=> Committing') /\ Pending' = Pending
      /\ (Unpublished <=> Unpublished') /\ (Writing <=> Writing')
      /\ (ReplacesActive <=> ReplacesActive') /\ LastBase' = LastBase
  BY DEF Segs, EndOf, LogIndex, Opened, Dropping, HasFresh, Committing, Pending,
         Unpublished, Writing, ReplacesActive, CutsActive, LastBase
<1>2. ChainOK' /\ DeletionOK' /\ ScannedOK' /\ NamedOK' /\ EndOK'
  BY <1>1 DEF Agreement, ChainOK, DeletionOK, ScannedOK, NamedOK, EndOK
<1>3. BatchOK' /\ BoundsOK' /\ DropPlanOK'
  BY <1>1 DEF Agreement, BatchOK, BoundsOK, DropPlanOK
<1> QED BY <1>2, <1>3 DEF Agreement

(***************************************************************************)
(* Files, directory, index and bounds agree in every reachable state of a  *)
(* log in which no other call fails and no request is empty.               *)
(***************************************************************************)
THEOREM AgreementHolds ==
  ASSUME HarmlessFailures, NoEmptyRequests
  PROVE  Spec => [](IInv /\ Agreement)
<1>1. Init => Agreement
  BY InitAgreement
<1>2. IInv /\ IInv' /\ Agreement /\ [Next]_vars => Agreement'
  <2>1. IInv /\ IInv' /\ Agreement /\ Next => Agreement'
    BY NextAgreement DEF IInv
  <2> QED BY <2>1, StutterAgreement
<1> QED BY Placement, <1>1, <1>2, PTL DEF Spec

(***************************************************************************)
(* The segments of an open log follow each other without a gap, and the    *)
(* next LSN follows the last record.                                       *)
(***************************************************************************)
THEOREM GaplessHolds ==
  ASSUME HarmlessFailures, NoEmptyRequests
  PROVE  Spec => []Gapless
<1>1. IInv /\ Agreement => Gapless
  <2> SUFFICES ASSUME IInv, Agreement, Serving PROVE
        /\ Range(index) \subseteq DOMAIN dir
        /\ \A k \in 1..(Len(index) - 1) : index[k + 1] = EndOf(index[k])
        /\ nextLSN = EndOf(index[Len(index)])
    BY DEF Gapless
  <2>1. Opened /\ ~Dropping
    BY DEF IInv, StepsOK, Kinds, Serving, Opened, Dropping
  <2>2. /\ Len(index) \in Nat /\ DOMAIN index = 1..Len(index) /\ Len(index) > 0
        /\ \A k \in 1..Len(index) : index[k] \in DOMAIN dir
        /\ nextLSN = Segs[index[Len(index)]]
    BY <2>1, IndexFacts DEF IInv
  <2>3. \A k \in 1..(Len(index) - 1) : index[k + 1] = Segs[index[k]] /\ k \in 1..Len(index)
    <3>1. \A k \in 1..(Len(index) - 1) : k \in 1..Len(index) /\ k < Len(index)
      BY <2>2
    <3>2. \A k \in 1..Len(index) : k < Len(index) => index[k + 1] = Segs[index[k]]
      BY <2>1, IndexFacts DEF IInv
    <3> QED BY <3>1, <3>2
  <2>4. \A b \in DOMAIN dir : Segs[b] = EndOf(b)
    BY DEF Segs
  <2>5. Range(index) \subseteq DOMAIN dir
    BY <2>2 DEF Range
  <2>6. Len(index) \in 1..Len(index)
    BY <2>2
  <2> QED BY <2>2, <2>3, <2>4, <2>5, <2>6
<1> QED BY AgreementHolds, <1>1, PTL

\* The LSNs of a segment are those from its base to its end.
LEMMA LSNsOfSegment ==
  ASSUME IInv, NEW b \in DOMAIN dir
  PROVE  /\ \A r \in Range(files[dir[b]].data) : r.lsn \in Nat /\ b <= r.lsn /\ r.lsn < Segs[b]
         /\ \A n \in b..(Segs[b] - 1) : \E r \in Range(files[dir[b]].data) : r.lsn = n
<1> DEFINE data == files[dir[b]].data
<1>1. b \in Nat /\ Len(data) \in Nat /\ Segs[b] = b + Len(data) /\ files[dir[b]] \in File
  BY SegsType DEF IInv
<1>2. data \in Seq(Rec) /\ DOMAIN data = 1..Len(data)
  BY <1>1 DEF File
<1>3. \A k \in DOMAIN data : data[k].lsn = b + k - 1
  BY DEF IInv, PlacementOK, NamesOK, Placed
<1> HIDE DEF data
<1>4. ASSUME NEW r \in Range(data) PROVE r.lsn \in Nat /\ b <= r.lsn /\ r.lsn < Segs[b]
  <2>1. PICK k \in 1..Len(data) : r = data[k]
    BY <1>2 DEF Range
  <2>2. r.lsn = b + k - 1
    BY <1>2, <1>3, <2>1
  <2> QED BY <1>1, <2>1, <2>2
<1>5. ASSUME NEW n \in b..(Segs[b] - 1) PROVE \E r \in Range(data) : r.lsn = n
  <2>1. PICK k \in 1..Len(data) : n = b + k - 1
    <3>1. n - b + 1 \in 1..Len(data) /\ n = b + (n - b + 1) - 1
      BY <1>1
    <3> QED BY <3>1
  <2>2. data[k] \in Range(data) /\ data[k].lsn = n
    BY <1>2, <1>3, <2>1 DEF Range
  <2> QED BY <2>2
<1> QED BY <1>4, <1>5 DEF data

(***************************************************************************)
(* FirstLSN and LastLSN are those of the records a reader finds, after     *)
(* every commit, truncate, cut and recovery.                               *)
(***************************************************************************)
THEOREM BoundsMatchRecordsHolds ==
  ASSUME HarmlessFailures, NoEmptyRequests
  PROVE  Spec => []BoundsMatchRecords
<1>1. IInv /\ Agreement => BoundsMatchRecords
  <2> SUFFICES ASSUME IInv, Agreement, pc = "idle" PROVE
        /\ lastLSN = nextLSN - 1
        /\ IF Visible = {} THEN firstLSN = 0
           ELSE /\ {firstLSN, lastLSN} \subseteq {r.lsn : r \in Visible}
                /\ \A r \in Visible : firstLSN <= r.lsn
    BY DEF BoundsMatchRecords
  <2>1. Opened /\ ~Dropping /\ ~Committing /\ ~Writing
    BY DEF IInv, StepsOK, Kinds, Opened, Dropping, Committing, Writing
  <2> DEFINE n == Len(index)
  <2>2. /\ n \in Nat /\ n > 0 /\ DOMAIN index = 1..n /\ LastBase = index[n]
        /\ \A k \in 1..n : index[k] \in Nat /\ index[k] \in DOMAIN dir /\ index[k] <= LastBase
        /\ LastBase \in DOMAIN dir /\ nextLSN = Segs[LastBase] /\ nextLSN \in Nat
        /\ LastBase < nextLSN \/ n = 1
        /\ firstLSN \in Nat /\ lastLSN \in Nat /\ Ascending(index) /\ index[1] > 0
    BY <2>1, IndexFacts DEF IInv
  <2>3. \A k \in 1..n : k < n => index[k + 1] = Segs[index[k]] /\ index[k] < index[k + 1]
    BY <2>1, IndexFacts DEF IInv
  <2> HIDE DEF n
  <2>4. 1 \in 1..n /\ n \in 1..n
    BY <2>2
  <2>5. /\ lastLSN < nextLSN /\ ~Unpublished
        /\ firstLSN # 0 => firstLSN = index[1] /\ firstLSN < nextLSN
        /\ firstLSN = 0 => index[1] = nextLSN
    BY <2>1 DEF Agreement, BoundsOK
  <2>6. lastLSN = nextLSN - 1
    BY <2>2, <2>5 DEF Unpublished
  <2>7. ASSUME NEW r \in Visible
        PROVE  r.lsn \in Nat /\ index[1] <= r.lsn /\ r.lsn <= lastLSN
    <3>1. PICK b \in Range(index) \cap DOMAIN dir : r \in Range(files[dir[b]].data)
      BY DEF Visible, Contents
    <3>2. PICK k \in 1..n : b = index[k]
      BY <2>2, <3>1 DEF Range
    <3>3. r.lsn \in Nat /\ b <= r.lsn
      BY <3>1, LSNsOfSegment
    <3>4. index[1] <= index[k]
      <4>1. k = 1 \/ 1 < k
        OBVIOUS
      <4> QED BY <2>2, <2>4, <4>1 DEF Ascending
    <3>5. r.lsn <= lastLSN
      BY DEF Visible
    <3>6. index[1] \in Nat /\ index[k] \in Nat
      BY <2>2, <2>4
    <3> QED BY <3>2, <3>3, <3>4, <3>5, <3>6
  <2>8. ASSUME NEW k \in 1..n, NEW m \in index[k]..(Segs[index[k]] - 1), m <= lastLSN
        PROVE  \E r \in Visible : r.lsn = m
    <3>1. index[k] \in Range(index) \cap DOMAIN dir
      BY <2>2 DEF Range
    <3>2. PICK r \in Range(files[dir[index[k]]].data) : r.lsn = m
      BY <3>1, LSNsOfSegment
    <3>3. r \in Visible
      BY <2>8, <3>1, <3>2 DEF Visible, Contents
    <3> QED BY <3>2, <3>3
  <2>9. CASE firstLSN = 0
    <3>1. Visible = {}
      <4> SUFFICES ASSUME NEW r \in Visible PROVE FALSE
        OBVIOUS
      <4>1. r.lsn \in Nat /\ nextLSN <= r.lsn /\ r.lsn <= nextLSN - 1
        BY <2>5, <2>6, <2>7, <2>9
      <4> QED BY <2>2, <4>1
    <3> QED BY <2>6, <2>9, <3>1
  <2>10. CASE firstLSN # 0
    <3>1. firstLSN = index[1] /\ firstLSN < nextLSN
      BY <2>5, <2>10
    <3>2. Segs[index[1]] \in Nat /\ index[1] < Segs[index[1]]
      <4>1. Segs[index[1]] \in Nat
        BY <2>2, <2>4, SegsType DEF IInv
      <4>2. CASE n = 1
        BY <2>2, <3>1, <4>1, <4>2
      <4>3. CASE n # 1
        <5>1. 1 < n
          BY <2>2, <4>3
        <5> QED BY <2>3, <2>4, <4>1, <5>1
      <4> QED BY <4>2, <4>3
    <3>3. LastBase < nextLSN
      BY <2>2, <3>1
    <3>4. \E r \in Visible : r.lsn = firstLSN
      <4>1. index[1] \in index[1]..(Segs[index[1]] - 1) /\ index[1] <= lastLSN
        BY <2>2, <2>4, <2>6, <3>1, <3>2
      <4> QED BY <2>4, <2>8, <3>1, <4>1
    <3>5. \E r \in Visible : r.lsn = lastLSN
      <4>1. lastLSN \in index[n]..(Segs[index[n]] - 1) /\ lastLSN <= lastLSN
        BY <2>2, <2>6, <3>3
      <4> QED BY <2>4, <2>8, <4>1
    <3> QED BY <2>6, <2>7, <3>1, <3>4, <3>5
  <2> QED BY <2>9, <2>10
<1> QED BY AgreementHolds, <1>1, PTL
=============================================================================

------------------------- MODULE Refinement_proofs -------------------------
(***************************************************************************)
(* WalStore implements SharedLog: while at most the calls of HarmlessCalls *)
(* fail and no request is empty, each step of the writer and of recovery   *)
(* is a step of the log that the readers see, or one they do not see.  The *)
(* steps are those of WalStore's Next; Agreement says what the mapped      *)
(* state is before them.                                                   *)
(***************************************************************************)
EXTENDS Agreement_proofs

\* A step of the log of the readers, or none.
Shown == [SL!Next]_SL!log

-----------------------------------------------------------------------------
(* The mapped state.                                                       *)

\* No operation of SharedLog is under way.
LEMMA NothingUnderWay ==
  /\ ~Dropping => UnderWay = SL!NoDrop
  /\ ~Dropping' => UnderWay' = SL!NoDrop'
BY DEF UnderWay, SL!NoDrop

\* A step that keeps what the readers see.
LEMMA Unseen ==
  ASSUME KeptDir, UNCHANGED <<index, nextLSN, firstLSN, lastLSN>>,
         Opened' <=> Opened, UnderWay' = UnderWay
  PROVE  Shown
<1>1. Segs' = Segs
  BY SegsKept
<1>2. Opened' = Opened
  BY DEF Opened
<1>3. Range(index)' = Range(index)
  OBVIOUS
<1> QED BY <1>1, <1>2, <1>3 DEF Shown, SL!log, SL!bounds

\* After a step to a closed or recovering log the readers see nothing.
LEMMA Stopped ==
  ASSUME ~Opened'
  PROVE  Shown
BY DEF Shown, SL!Next, SL!Stop

\* A log in which nothing but a commit or the beginning of a drop is under way.
LEMMA IdleShown ==
  ASSUME ControlOK, PlacementOK, Agreement, Opened, ~Dropping,
         ~HasFresh \/ job.kind # "roll"
  PROVE  SL!Idle
<1>1. DOMAIN dir = Range(index)
  BY DEF Agreement, NamedOK
<1>2. ~SL!Rolling
  BY <1>1, SegsType DEF SL!Rolling
<1> QED BY <1>2, NothingUnderWay DEF SL!Idle

\* The first and the last base of the index.
LEMMA IndexShown ==
  ASSUME ControlOK, PlacementOK, Agreement, Opened, ~Dropping
  PROVE  /\ index[1] \in Range(index) /\ SL!IsMin(index[1], Range(index))
         /\ LastBase \in Range(index) /\ SL!IsActive(LastBase)
         /\ \A a \in Range(index) : SL!IsActive(a) => a = LastBase
         /\ Range(index) \subseteq Nat /\ Range(index) \subseteq DOMAIN Segs
<1> DEFINE n == Len(index)
<1>1. /\ n \in Nat /\ n > 0 /\ DOMAIN index = 1..n /\ LastBase = index[n] /\ Ascending(index)
      /\ \A k \in 1..n : index[k] \in Nat /\ index[k] \in DOMAIN dir /\ index[k] <= LastBase
  BY IndexFacts
<1> HIDE DEF n
<1>2. 1 \in 1..n /\ n \in 1..n
  BY <1>1
<1>3. \A k \in 1..n : index[1] <= index[k]
  <2>1. \A k \in 1..n : k = 1 \/ 1 < k
    OBVIOUS
  <2> QED BY <1>1, <1>2, <2>1 DEF Ascending
<1>4. \A b \in Range(index) : \E k \in 1..n : b = index[k]
  BY <1>1 DEF Range
<1>5. index[1] \in Range(index) /\ LastBase \in Range(index)
  BY <1>1, <1>2 DEF Range
<1>6. \A b \in Range(index) : b \in Nat /\ b \in DOMAIN Segs /\ index[1] <= b /\ b <= LastBase
  BY <1>1, <1>3, <1>4, SegsType
<1>7. SL!IsMin(index[1], Range(index)) /\ SL!IsActive(LastBase)
  BY <1>5, <1>6 DEF SL!IsMin, SL!IsActive
<1>8. ASSUME NEW a \in Range(index), SL!IsActive(a) PROVE a = LastBase
  <2>1. LastBase <= a
    BY <1>5, <1>8 DEF SL!IsActive
  <2> QED BY <1>5, <1>6, <2>1
<1> QED BY <1>5, <1>6, <1>7, <1>8

-----------------------------------------------------------------------------
(* Steps that keep the records of every file.                              *)

LEMMA KeptFiles ==
  ASSUME ControlOK, dir' = dir, \A i \in Inodes : KeptData(i)
  PROVE  KeptDir
BY SegsType DEF KeptDir, KeptName

\* An fsync moves no record.
LEMMA KeptByFsync ==
  ASSUME ControlOK, dir' = dir, NEW i \in Inodes,
         files' = files \/ files' = [files EXCEPT ![i] = Fsynced(files[i])]
  PROVE  KeptDir
<1>1. files \in [Inodes -> File]
  BY DEF ControlOK, TypeOK, DiskTypeOK
<1>2. \A j \in Inodes : KeptData(j)
  BY <1>1, FsyncedType DEF KeptData
<1> QED BY <1>2, KeptFiles

\* A file that the directory names is not collected.
LEMMA KeptByCollection ==
  ASSUME ControlOK, dir' = dir, NEW live, Range(dir) \subseteq live,
         files' = Collected(files, live)
  PROVE  KeptDir
<1>1. \A b \in DOMAIN dir : dir[b] \in Inodes \cap live
  BY SegsType DEF Range
<1> QED BY <1>1, CollectedKept DEF KeptDir, KeptName

-----------------------------------------------------------------------------
(* Commits and rolls.                                                      *)

\* Where the writer takes up a command it serves readers.
LEMMA ServingShown ==
  ASSUME ControlOK, PlacementOK, Agreement, pc \in {"idle", "write"}
  PROVE  SL!Idle /\ Opened /\ ~Dropping /\ UnderWay = SL!NoDrop /\ active \in Inodes
<1>1. Opened /\ ~Dropping /\ ~HasFresh
  BY ServingFacts
<1> QED BY <1>1, IdleShown, NothingUnderWay, OpenedIff

\* A record written is one that is not published yet.
LEMMA WriteShown ==
  ASSUME ControlOK, PlacementOK, Agreement, WriteRecord
  PROVE  Shown
<1> USE DEF WriteRecord
<1>1. pc = "write"
  BY DEF Writing
<1>2. SL!Idle /\ Opened /\ ~Dropping /\ UnderWay = SL!NoDrop /\ active \in Inodes
  BY <1>1, ServingShown
<1>3. /\ LastBase \in DOMAIN dir /\ dir[LastBase] = active
      /\ nextLSN = Segs[LastBase] /\ nextLSN \in Nat
  BY <1>2, IndexFacts
<1>4. /\ active \in Inodes /\ files[active].data \in Seq(Rec) /\ NewRec \in Rec
      /\ files'[active].data = Append(files[active].data, NewRec)
      /\ \A i \in Inodes : i # active => KeptData(i)
  <2>1. ActiveFile \in File /\ files \in [Inodes -> File] /\ NewRec \in Rec
    BY <1>2, ActiveType, PayloadType DEF ControlOK, TypeOK, DiskTypeOK
  <2>2. Appended(ActiveFile, NewRec).data = Append(ActiveFile.data, NewRec)
    BY <2>1, AppendedType
  <2> QED BY <1>2, <2>1, <2>2 DEF KeptData, ActiveFile, File
<1>5. Segs' = [Segs EXCEPT ![LastBase] = nextLSN + 1]
  <2>1. DOMAIN Segs' = DOMAIN dir /\ DOMAIN Segs = DOMAIN dir
    BY DEF Segs
  <2>2. Segs'[LastBase] = nextLSN + 1
    <3>1. Segs'[LastBase] = LastBase + Len(files'[active].data)
      BY <1>3 DEF Segs, EndOf
    <3>2. Len(files[active].data) \in Nat /\ nextLSN = LastBase + Len(files[active].data)
          /\ LastBase \in Nat
      BY <1>3, SegsType
    <3>3. Len(files'[active].data) = Len(files[active].data) + 1
      BY <1>4, AppendType
    <3> QED BY <3>1, <3>2, <3>3
  <2>3. ASSUME NEW b \in DOMAIN dir, b # LastBase PROVE Segs'[b] = Segs[b]
    <3>1. dir[b] # active
      BY <1>2, <2>3 DEF PlacementOK, ActiveOK, NamedOnly
    <3>2. dir[b] \in Inodes
      BY SegsType
    <3> QED BY <1>4, <3>1, <3>2, SegKept DEF KeptName
  <2>4. \A b \in DOMAIN dir : Segs'[b] = [Segs EXCEPT ![LastBase] = nextLSN + 1][b]
    BY <1>3, <2>1, <2>2, <2>3
  <2>5. Segs = [b \in DOMAIN dir |-> EndOf(b)] /\ Segs' = [b \in DOMAIN dir' |-> EndOf(b)']
    BY DEF Segs
  <2> QED BY <2>1, <2>4, <2>5
<1>6. LastBase \in Range(index) /\ SL!IsActive(LastBase)
  BY <1>2, IndexShown
<1>7. Opened' = Opened /\ UnderWay' = UnderWay /\ Range(index)' = Range(index)
  BY <1>1 DEF Opened, UnderWay, Dropping
<1>8. SL!Write
  BY <1>2, <1>5, <1>6, <1>7 DEF SL!Write
<1> QED BY <1>8 DEF Shown, SL!Next, SL!WriterStep

\* A batch that has written something publishes it.
LEMMA FinishBatchShown ==
  ASSUME ControlOK, PlacementOK, Agreement, FinishBatch
  PROVE  Shown
<1> USE DEF FinishBatch
<1>1. SL!Idle /\ Opened /\ ~Dropping /\ UnderWay = SL!NoDrop /\ active \in Inodes
  BY ServingShown
<1>2. KeptDir
  BY <1>1, KeptByFsync DEF ActiveFile
<1>3. job.kind = "none"
  BY ServingFacts
<1>4. /\ Segs' = Segs /\ Opened' = Opened /\ UnderWay' = UnderWay
      /\ Range(index)' = Range(index)
  BY <1>2, <1>3, SegsKept DEF Opened, UnderWay, Dropping
<1>5. CASE ~batch.wrote
  BY <1>2, <1>4, <1>5, Unseen
<1>6. CASE batch.wrote
  <2>1. lastLSN + 1 < nextLSN
    BY <1>6 DEF Agreement, BatchOK, Committing, Unpublished
  <2>2. index[1] \in Range(index) /\ SL!IsMin(index[1], Range(index))
    BY <1>1, IndexShown
  <2>3. SL!Publish
    BY <1>1, <1>4, <1>6, <2>1, <2>2 DEF SL!Publish, PublishedFirst
  <2> QED BY <2>3 DEF Shown, SL!Next, SL!WriterStep
<1> QED BY <1>5, <1>6

\* The segment the roll has created gets into the index.
LEMMA InstallRollShown ==
  ASSUME ControlOK, PlacementOK, Agreement, InstallRoll
  PROVE  Shown
<1> USE DEF InstallRoll
<1>1. Opened /\ ~Dropping /\ HasFresh /\ job.kind = "roll"
  BY WriterOpened DEF Dropping, HasFresh, ControlOK, StepsOK, Kinds
<1>2. Opened' = Opened /\ UnderWay' = UnderWay /\ UnderWay = SL!NoDrop
  <2>1. Opened' /\ ~Dropping'
    BY DEF Opened, Dropping, NoJob, RequestFails
  <2> QED BY <1>1, <2>1 DEF UnderWay, SL!NoDrop
<1>3. Segs' = Segs
  <2>1. Range(dir) \subseteq Live(dir, durableDir, active', Nil)
    BY DEF Live
  <2> QED BY <2>1, KeptByCollection, SegsKept
<1>4. job.base = nextLSN /\ LastBase < nextLSN /\ nextLSN \in DOMAIN dir
  BY <1>1 DEF PlacementOK, PlanOK, Agreement, NamedOK
<1>5. nextLSN \notin Range(index)
  <2>1. \A k \in 1..Len(index) : index[k] < nextLSN /\ index[k] \in Nat
    BY <1>1, <1>4, NextIsFree, IndexFacts
  <2>2. DOMAIN index = 1..Len(index) /\ nextLSN \in Nat
    BY <1>1, IndexFacts
  <2> QED BY <2>1, <2>2 DEF Range
<1>6. Range(index)' = Range(index) \cup {nextLSN}
  <2>1. index \in Seq(Nat) /\ nextLSN \in Nat
    BY <1>1, IndexFacts
  <2>2. /\ DOMAIN index = 1..Len(index) /\ DOMAIN index' = 1..(Len(index) + 1)
        /\ Len(index) \in Nat /\ index'[Len(index) + 1] = nextLSN
        /\ \A k \in 1..Len(index) : index'[k] = index[k]
    BY <1>4, <2>1, AppendType
  <2> QED BY <2>2 DEF Range
<1>7. SL!InstallNext
  <2>1. SL!Rolling
    BY <1>4, <1>5, SegsType DEF SL!Rolling
  <2>2. SL!bounds' = SL!bounds
    BY DEF SL!bounds
  <2> QED BY <1>1, <1>2, <1>3, <1>6, <2>1, <2>2 DEF SL!InstallNext
<1> QED BY <1>7 DEF Shown, SL!Next, SL!WriterStep, SL!Onward

\* The steps of commit.
LEMMA CommitShown ==
  ASSUME ControlOK, PlacementOK, Agreement, Commit, HarmlessFailures
  PROVE  Shown
<1>1. ~WriteRecordFails /\ ~FinishBatchFails /\ ~StartRollFails
  BY NoFault DEF HarmlessCalls, WriteRecordFails, FinishBatchFails, StartRollFails
<1>2. ASSUME (\E b \in Batches : BeginCommit(b)) \/ CompleteRequest PROVE Shown
  <2>1. pc \in {"idle", "write"} /\ pc' = "write" /\ UNCHANGED <<disk, mem, job, fresh>>
    BY <1>2 DEF BeginCommit, CompleteRequest
  <2>2. KeptDir
    BY <2>1 DEF KeptDir, KeptName, KeptData, disk
  <2>3. (Opened' <=> Opened) /\ UnderWay' = UnderWay
    BY <2>1 DEF Opened, UnderWay, Dropping
  <2> QED BY <2>1, <2>2, <2>3, Unseen DEF mem
<1>3. ASSUME StartRoll PROVE Shown
  <2> USE <1>3 DEF StartRoll, mem
  <2>1. pc = "write" /\ job.kind = "none" /\ active \in Inodes
    BY ServingFacts, ServingShown DEF Writing
  <2>2. KeptDir
    BY <2>1, KeptByFsync DEF Sealed, ActiveFile
  <2>3. job'.kind = "roll"
    BY DEF NoJob
  <2>4. (Opened' <=> Opened) /\ UnderWay' = UnderWay
    BY <2>1, <2>3 DEF Opened, UnderWay, Dropping
  <2> QED BY <2>2, <2>4, Unseen
<1> QED BY <1>1, <1>2, <1>3, WriteShown, FinishBatchShown, InstallRollShown DEF Commit

-----------------------------------------------------------------------------
(* Segment creation.                                                       *)

\* A new name in the directory is a new segment.
LEMMA WithShown ==
  ASSUME ControlOK, NEW base, NEW end, base \notin DOMAIN dir,
         DOMAIN dir' = DOMAIN dir \cup {base}, Segs'[base] = end,
         \A c \in DOMAIN dir : Segs'[c] = Segs[c]
  PROVE  Segs' = SL!With(base, end)
<1>1. DOMAIN Segs = DOMAIN dir
  BY SegsType
<1>2. Segs' = [c \in DOMAIN dir' |-> EndOf(c)']
  BY DEF Segs
<1>3. Segs' = [c \in DOMAIN dir' |-> Segs'[c]]
  BY <1>2
<1> QED BY <1>1, <1>3 DEF SL!With

\* What a drop that has begun to delete will install.
LEMMA DropUnderWay ==
  /\ Dropping =>
       UnderWay = [doomed |-> Range(job.names) \cap DOMAIN dir, bases |-> Range(job.idx),
                   first |-> IF job.kind = "cutAll" THEN 0 ELSE job.idx[1]]
  /\ Dropping' =>
       UnderWay' = [doomed |-> Range(job.names)' \cap DOMAIN dir', bases |-> Range(job.idx)',
                    first |-> IF job'.kind = "cutAll" THEN 0 ELSE job'.idx[1]]
BY DEF UnderWay

\* The segment the log rolls to, or that a cut of everything leaves.
LEMMA CreateOpenShown ==
  ASSUME ControlOK, PlacementOK, Agreement, CreateOpen
  PROVE  Shown
<1> USE DEF CreateOpen, mem
<1>1. /\ job.base \notin DOMAIN dir /\ ~HasFresh /\ ~Dropping
      /\ job.kind \in {"init", "roll", "cutAll"}
      /\ job.kind \in {"roll", "cutAll"} =>
           /\ Opened /\ LastBase < nextLSN /\ job.base = nextLSN
           /\ DOMAIN dir = Range(index)
  BY BaseIsFree
<1>2. /\ DOMAIN dir' = DOMAIN dir \cup {job.base} /\ Segs'[job.base] = job.base
      /\ \A b \in DOMAIN dir : Segs'[b] = Segs[b]
  BY CreateOpenSegs
<1>3. Segs' = SL!With(job.base, job.base)
  BY <1>1, <1>2, WithShown
<1>4. job' = job /\ Range(index)' = Range(index) /\ SL!bounds' = SL!bounds
      /\ Range(job.names)' = Range(job.names) /\ Range(job.idx)' = Range(job.idx)
  BY DEF SL!bounds
<1>5. CASE job.kind = "init"
  <2>1. ~Opened'
    BY <1>4, <1>5 DEF Opened
  <2> QED BY <2>1, Stopped
<1>6. CASE job.kind = "roll"
  <2>1. SL!Idle /\ Opened' = Opened /\ UnderWay' = UnderWay
    <3>1. SL!Idle /\ ~Dropping'
      BY <1>1, <1>4, <1>6, IdleShown DEF Dropping
    <3>2. Opened' = Opened
      BY <1>1, <1>4, <1>6 DEF Opened
    <3> QED BY <1>1, <3>1, <3>2, NothingUnderWay DEF SL!NoDrop
  <2>2. \A a \in Range(index) : SL!IsActive(a) => ~SL!IsEmpty(a)
    <3>1. Segs[LastBase] # LastBase
      <4>1. Segs[LastBase] = nextLSN /\ LastBase \in Nat /\ nextLSN \in Nat
        BY <1>1, <1>6, IndexFacts, SegsType
      <4> QED BY <1>1, <1>6, <4>1
    <3>2. \A a \in Range(index) : SL!IsActive(a) => a = LastBase
      BY <1>1, <1>6, IndexShown
    <3> QED BY <3>1, <3>2 DEF SL!IsEmpty
  <2>3. SL!CreateNext
    BY <1>1, <1>3, <1>4, <1>6, <2>1, <2>2 DEF SL!CreateNext
  <2> QED BY <2>3 DEF Shown, SL!Next, SL!WriterStep
<1>7. CASE job.kind = "cutAll"
  <2>1. SL!Idle /\ Opened' = Opened /\ Dropping'
    <3>1. SL!Idle /\ Dropping'
      BY <1>1, <1>4, <1>7, IdleShown DEF Dropping
    <3>2. Opened' = Opened
      BY <1>1, <1>4, <1>7 DEF Opened
    <3> QED BY <3>1, <3>2
  <2>2. job.names = index /\ job.idx = <<nextLSN>> /\ firstLSN # 0 /\ firstLSN < nextLSN
    BY <1>1, <1>7 DEF PlacementOK, PlanOK, Agreement, DropPlanOK, BoundsOK
  <2>3. Range(job.idx) = {nextLSN}
    BY <2>2 DEF Range
  <2>4. UnderWay' = [doomed |-> Range(index), bases |-> {nextLSN}, first |-> 0]
    BY <1>1, <1>2, <1>4, <1>7, <2>1, <2>2, <2>3, DropUnderWay
  <2>5. nextLSN \notin Range(index) /\ nextLSN \in Nat /\ nextLSN > 0
    BY <1>1, <1>7, OpenedState
  <2>6. SL!CutEverything(nextLSN)
    BY <1>1, <1>3, <1>4, <1>7, <2>1, <2>2, <2>4, <2>5 DEF SL!CutEverything, SL!Cuts
  <2>7. nextLSN \in 1..nextLSN
    BY <2>5
  <2> QED BY <2>6, <2>7 DEF Shown, SL!Next, SL!WriterStep
<1> QED BY <1>1, <1>5, <1>6, <1>7

\* The steps of Create.
LEMMA CreateShown ==
  ASSUME ControlOK, PlacementOK, Agreement, Create, HarmlessFailures
  PROVE  Shown
<1>1. ~CreateHeaderFails /\ ~CreateSyncDirFails
  BY NoFault DEF HarmlessCalls, CreateHeaderFails, CreateSyncDirFails
<1>2. ~CreateOpenFails
  BY NoFault, BaseIsFree DEF HarmlessCalls, CreateOpenFails
<1>3. ASSUME CreateHeader \/ CreateSync \/ CreateSyncDir PROVE Shown
  <2>1. /\ KeptDir /\ (Dropping' <=> Dropping)
        /\ UNCHANGED <<active, index, nextLSN, firstLSN, lastLSN, batch, job, fresh>>
        /\ pc \in {"createHeader", "createSync", "createSyncDir"}
        /\ pc' \in {"createSync", "createSyncDir", "installRoll", "installEmpty", "remove"}
    BY <1>3, CreateRestKept
  <2>2. Opened' <=> Opened
    BY <2>1 DEF Opened
  <2>3. UnderWay' = UnderWay
    BY <2>1 DEF UnderWay, KeptDir
  <2> QED BY <2>1, <2>2, <2>3, Unseen
<1> QED BY <1>1, <1>2, <1>3, CreateOpenShown DEF Create

-----------------------------------------------------------------------------
(* Truncate and CutOffset.                                                 *)

\* The segments that end at or below the bound are deleted.
LEMMA TruncateShown ==
  ASSUME ControlOK, PlacementOK, Agreement, NEW upTo \in Bounds, Truncate(upTo)
  PROVE  Shown
<1> DEFINE d == Deletable(index, upTo)
           n == Len(index)
           m == Reach(upTo)
<1>1. /\ pc = "idle" /\ d > 0 /\ pc' = "remove" /\ UNCHANGED <<disk, mem, batch, fresh>>
      /\ job' = [NoJob EXCEPT !.kind = "truncate", !.names = SubSeq(index, 1, d),
                              !.idx = SubSeq(index, d + 1, n)]
  BY DEF Truncate, StartDrop, DeletedByTruncate
<1>2. Opened /\ ~Dropping /\ SL!Idle /\ ~Writing
  BY <1>1, ServingFacts, ServingShown
<1>3. /\ n \in Nat /\ n > 0 /\ DOMAIN index = 1..n /\ index \in Seq(Nat) /\ index # << >>
      /\ Ascending(index) /\ LastBase <= nextLSN /\ nextLSN \in Nat \ {0}
      /\ \A k \in 1..n : index[k] \in Nat /\ index[k] \in DOMAIN dir /\ index[k] <= LastBase
  BY <1>2, IndexFacts, OpenedState
<1>4. upTo \in Nat /\ upTo > 0
  BY DEF Bounds, WalStateAssumption
<1>5. d \in Nat /\ d < n /\ \A k \in 2..n : index[k] <= upTo <=> k <= d + 1
  BY <1>3, <1>4, DeletableRight
<1>6. m \in 1..nextLSN /\ \A k \in 1..n : index[k] <= m <=> index[k] <= upTo
  <2>1. LastBase \in Nat
    BY <1>2, IndexFacts, SegsType
  <2> QED BY <1>3, <1>4, <2>1 DEF Reach, MinOf
<1> DEFINE t == SubSeq(index, 1, d)
           u == SubSeq(index, d + 1, n)
<1>7. /\ \A x : x \in Range(t) <=> \E k \in 1..d : x = index[k]
      /\ \A x : x \in Range(u) <=> \E k \in (d + 1)..n : x = index[k]
      /\ u[1] = index[d + 1]
  <2>1. d <= n
    BY <1>3, <1>5
  <2>2. d < n
    BY <1>5
  <2> HIDE DEF d
  <2> QED BY <1>3, <1>5, <2>1, <2>2, RangeOfSplit, SuffixAscending
<1>8. /\ job'.kind = "truncate" /\ job'.names = t /\ job'.idx = u /\ ~job'.unlinked
      /\ Segs' = Segs /\ dir' = dir /\ SL!bounds' = SL!bounds /\ Range(index)' = Range(index)
      /\ Opened' = Opened /\ Dropping'
  <2>1. job'.kind = "truncate" /\ job'.names = t /\ job'.idx = u /\ ~job'.unlinked
    BY <1>1 DEF NoJob
  <2>2. Segs' = Segs /\ dir' = dir /\ SL!bounds' = SL!bounds /\ Range(index)' = Range(index)
    BY <1>1 DEF Segs, EndOf, disk, mem, SL!bounds
  <2>3. Opened' = Opened /\ Dropping'
    BY <1>1, <1>2, <2>1 DEF Opened, Dropping
  <2> QED BY <2>1, <2>2, <2>3
<1> HIDE DEF d, n, m, t, u
<1>9. \A j, k \in 1..n : j < k <=> index[j] < index[k]
  <2> SUFFICES ASSUME NEW j \in 1..n, NEW k \in 1..n PROVE j < k <=> index[j] < index[k]
    OBVIOUS
  <2>1. index[j] \in Nat /\ index[k] \in Nat
    BY <1>3
  <2>2. (j < k => index[j] < index[k]) /\ (k < j => index[k] < index[j])
    BY <1>3 DEF Ascending
  <2>3. j < k \/ k < j \/ j = k
    OBVIOUS
  <2> QED BY <2>1, <2>2, <2>3
<1> DEFINE doomed == {b \in Range(index) : \E c \in Range(index) : b < c /\ c <= m}
<1>10. doomed = Range(t)
  <2>1. ASSUME NEW b \in doomed PROVE b \in Range(t)
    <3>1. PICK j \in 1..n, k \in 1..n : b = index[j] /\ index[j] < index[k] /\ index[k] <= m
      BY <1>3 DEF Range
    <3>2. j < k /\ k \in 2..n /\ index[k] <= upTo
      BY <1>6, <1>9, <3>1
    <3>3. k <= d + 1
      BY <1>5, <3>2
    <3>4. j \in 1..d
      BY <1>5, <3>2, <3>3
    <3> QED BY <1>7, <3>1, <3>4
  <2>2. ASSUME NEW b \in Range(t) PROVE b \in doomed
    <3>1. PICK k \in 1..d : b = index[k]
      BY <1>7
    <3>2. k \in 1..n /\ k + 1 \in 2..n /\ k + 1 \in 1..n /\ k + 1 <= d + 1 /\ k < k + 1
      BY <1>3, <1>5
    <3>3. index[k] < index[k + 1] /\ index[k + 1] <= m
      BY <1>5, <1>6, <1>9, <3>2
    <3>4. index[k] \in Range(index) /\ index[k + 1] \in Range(index)
      BY <1>3, <3>2 DEF Range
    <3> QED BY <3>1, <3>3, <3>4
  <2> QED BY <2>1, <2>2
<1>11. Range(index) \ doomed = Range(u)
  <2>1. ASSUME NEW b \in Range(index), b \notin Range(t) PROVE b \in Range(u)
    <3>1. PICK k \in 1..n : b = index[k]
      BY <1>3 DEF Range
    <3>2. k \notin 1..d
      BY <1>7, <2>1, <3>1
    <3>3. k \in (d + 1)..n
      BY <1>3, <1>5, <3>2
    <3> QED BY <1>7, <3>1, <3>3
  <2>2. ASSUME NEW b \in Range(u) PROVE b \in Range(index) /\ b \notin Range(t)
    <3>1. PICK k \in (d + 1)..n : b = index[k]
      BY <1>7
    <3>2. k \in 1..n /\ \A j \in 1..d : j \in 1..n /\ j < k
      BY <1>3, <1>5
    <3>3. \A j \in 1..d : index[j] # index[k]
      BY <1>3, <1>9, <3>2
    <3> QED BY <1>3, <1>7, <3>1, <3>2, <3>3 DEF Range
  <2> QED BY <1>10, <2>1, <2>2
<1>12. SL!IsMin(u[1], Range(u)) /\ doomed # {}
  <2>1. d + 1 \in (d + 1)..n /\ d + 1 \in 1..n /\ 1 \in 1..d
    BY <1>1, <1>3, <1>5 DEF d
  <2>2. \A k \in (d + 1)..n : k \in 1..n /\ (k = d + 1 \/ d + 1 < k)
    BY <1>3, <1>5
  <2>3. \A k \in (d + 1)..n : index[d + 1] <= index[k]
    BY <1>3, <1>9, <2>1, <2>2
  <2> QED BY <1>7, <1>10, <2>1, <2>3 DEF SL!IsMin
<1>13. UnderWay' = [doomed |-> doomed, bases |-> Range(index) \ doomed, first |-> u[1]]
  <2>1. Range(t) \subseteq DOMAIN dir
    BY <1>2, <1>10, IndexShown, SegsType
  <2>2. Range(job.names)' = Range(t) /\ Range(job.idx)' = Range(u)
    BY <1>8
  <2> QED BY <1>8, <1>10, <1>11, <2>1, <2>2, DropUnderWay
<1>14. SL!Truncate(m)
  <2>1. u[1] \in Range(index) \ doomed
    BY <1>11, <1>12 DEF SL!IsMin
  <2>2. SL!IsMin(u[1], Range(index) \ doomed)
    BY <1>11, <1>12
  <2> QED BY <1>2, <1>8, <1>12, <1>13, <2>1, <2>2 DEF SL!Truncate
<1> QED BY <1>6, <1>14 DEF Shown, SL!Next, SL!WriterStep

\* A base of the index splits it in two.
LEMMA SplitByBase ==
  ASSUME ControlOK, PlacementOK, Agreement, Opened, ~Dropping,
         NEW d \in Nat, d < Len(index)
  PROVE  /\ Range(SubSeq(index, 1, d)) = {c \in Range(index) : c < index[d + 1]}
         /\ Range(SubSeq(index, d + 1, Len(index))) = {c \in Range(index) : index[d + 1] <= c}
         /\ index[d + 1] \in Range(index)
<1> DEFINE n == Len(index)
<1>1. /\ n \in Nat /\ DOMAIN index = 1..n /\ index \in Seq(Nat) /\ Ascending(index)
      /\ \A k \in 1..n : index[k] \in Nat
  BY IndexFacts
<1>2. /\ \A x : x \in Range(SubSeq(index, 1, d)) <=> \E k \in 1..d : x = index[k]
      /\ \A x : x \in Range(SubSeq(index, d + 1, n)) <=> \E k \in (d + 1)..n : x = index[k]
  <2>1. d <= n
    BY <1>1
  <2> QED BY <1>1, <2>1, RangeOfSplit
<1> HIDE DEF n
<1>3. d < n
  BY DEF n
<1>4. d + 1 \in 1..n /\ d \in Nat
  BY <1>1, <1>3
<1>5. \A k \in 1..n : (k <= d => index[k] < index[d + 1]) /\ (k > d => index[d + 1] <= index[k])
  <2> SUFFICES ASSUME NEW k \in 1..n
               PROVE  (k <= d => index[k] < index[d + 1]) /\ (k > d => index[d + 1] <= index[k])
    OBVIOUS
  <2>1. k < d + 1 \/ k = d + 1 \/ d + 1 < k
    BY <1>4
  <2>2. (k < d + 1 <=> k <= d) /\ (k > d <=> k = d + 1 \/ d + 1 < k)
    BY <1>4
  <2>3. index[k] \in Nat /\ index[d + 1] \in Nat
    BY <1>1, <1>4
  <2>4. (k < d + 1 => index[k] < index[d + 1]) /\ (d + 1 < k => index[d + 1] < index[k])
    BY <1>1, <1>4 DEF Ascending
  <2> HIDE DEF n
  <2>5. PICK x, y \in Nat : x = index[k] /\ y = index[d + 1]
    BY <2>3
  <2> QED BY <2>1, <2>2, <2>4, <2>5
<1>6. \A k \in 1..n : (k \in 1..d <=> k <= d) /\ (k \in (d + 1)..n <=> k > d)
  BY <1>1, <1>4
<1>7. \A k : (k \in 1..d => k \in 1..n) /\ (k \in (d + 1)..n => k \in 1..n)
  BY <1>1, <1>3, <1>4
<1>8. \A x : x \in Range(index) <=> \E k \in 1..n : x = index[k]
  BY <1>1 DEF Range
<1>9. \A k \in 1..n : k <= d \/ k > d
  BY <1>1
<1>10. \A k \in 1..n : /\ k \in 1..d <=> index[k] < index[d + 1]
                       /\ k \in (d + 1)..n <=> index[d + 1] <= index[k]
  <2> SUFFICES ASSUME NEW k \in 1..n
               PROVE  /\ k \in 1..d <=> index[k] < index[d + 1]
                      /\ k \in (d + 1)..n <=> index[d + 1] <= index[k]
    OBVIOUS
  <2>1. index[k] \in Nat /\ index[d + 1] \in Nat
    BY <1>1, <1>4
  <2> QED BY <1>5, <1>6, <1>9, <2>1
<1>11. index[d + 1] \in Range(index)
  BY <1>4, <1>8
<1>12. Range(SubSeq(index, 1, d)) = {c \in Range(index) : c < index[d + 1]}
  BY <1>2, <1>7, <1>8, <1>10
<1>13. Range(SubSeq(index, d + 1, n)) = {c \in Range(index) : index[d + 1] <= c}
  BY <1>2, <1>7, <1>8, <1>10
<1> QED BY <1>11, <1>12, <1>13 DEF n

\* A cut at the base of a segment, or the beginning of one inside a segment.
LEMMA CutInsideShown ==
  ASSUME ControlOK, PlacementOK, Agreement, NEW upTo \in Nat, CutInside(upTo)
  PROVE  Shown
<1> DEFINE cut == Reach(upTo)
           b == Boundary(index, cut)
           above == SubSeq(index, b + 1, Len(index))
<1>1. /\ pc = "idle" /\ ~CutNothing(cut) /\ cut < nextLSN
      /\ UNCHANGED <<disk, mem, batch, fresh>>
      /\ \/ /\ index[b] = cut /\ pc' = "remove"
            /\ job' = [NoJob EXCEPT !.kind = "cutBelow", !.base = cut,
                         !.names = SubSeq(index, 1, b - 1), !.idx = <<cut>> \o above]
         \/ /\ index[b] # cut /\ pc' = "rewrite"
            /\ job' = [NoJob EXCEPT !.kind = "cutRewrite", !.base = cut,
                         !.names = SubSeq(index, 1, b), !.idx = <<cut>> \o above]
  BY DEF CutInside, StartDrop
<1>2. cut \in Nat
  BY DEF Reach, MinOf, ControlOK, TypeOK, MemTypeOK
<1> HIDE DEF cut
<1>3. b \in 1..Len(index) /\ firstLSN # 0 /\ firstLSN < cut
  BY <1>1, <1>2, CutFacts
<1>4. Opened /\ ~Dropping /\ SL!Idle /\ UnderWay = SL!NoDrop
  BY <1>1, ServingFacts, ServingShown
<1>5. index \in Seq(Nat) /\ Len(index) \in Nat /\ firstLSN \in Nat /\ nextLSN \in Nat
  BY <1>4, IndexFacts
<1>6. KeptDir
  BY <1>1 DEF KeptDir, KeptName, KeptData, disk
<1>7. CASE index[b] = cut
  <2>1. PICK d : d = b - 1
    OBVIOUS
  <2>2. d \in Nat /\ d < Len(index) /\ d + 1 = b
    BY <1>3, <1>5, <2>1
  <2>3. <<cut>> \o above = SubSeq(index, b, Len(index))
    BY <1>3, <1>5, <1>7, ConsSubSeq
  <2>4. /\ job'.kind = "cutBelow" /\ job'.names = SubSeq(index, 1, d)
        /\ job'.idx = SubSeq(index, d + 1, Len(index)) /\ pc' = "remove"
        /\ job'.idx[1] = cut
    <3>1. job' = [NoJob EXCEPT !.kind = "cutBelow", !.base = cut,
                    !.names = SubSeq(index, 1, d), !.idx = SubSeq(index, d + 1, Len(index))]
          /\ pc' = "remove"
      BY <1>1, <1>7, <2>1, <2>2, <2>3
    <3>2. SubSeq(index, d + 1, Len(index))[1] = index[d + 1]
      BY <1>4, <1>5, <2>2, IndexFacts, SuffixAscending
    <3> QED BY <1>7, <2>2, <3>1, <3>2 DEF NoJob
  <2>5. /\ Range(job.names)' = {c \in Range(index) : c < cut}
        /\ Range(job.idx)' = {c \in Range(index) : cut <= c} /\ cut \in Range(index)
    BY <1>4, <1>7, <2>2, <2>4, SplitByBase
  <2>6. Opened' = Opened /\ Dropping'
    BY <1>4, <2>4 DEF Opened, Dropping
  <2>7. UnderWay' = [doomed |-> {c \in Range(index) : c < cut},
                     bases |-> {c \in Range(index) : cut <= c}, first |-> cut]
    <3>1. Range(index) \subseteq DOMAIN dir'
      BY <1>4, <1>6, IndexShown, SegsType DEF KeptDir
    <3>2. UnderWay' = [doomed |-> Range(job.names)' \cap DOMAIN dir', bases |-> Range(job.idx)',
                       first |-> IF job'.kind = "cutAll" THEN 0 ELSE job'.idx[1]]
      BY <2>6, DropUnderWay
    <3> QED BY <2>4, <2>5, <3>1, <3>2
  <2>8. Segs' = Segs /\ Range(index)' = Range(index) /\ SL!bounds' = SL!bounds
    BY <1>1, <1>6, SegsKept DEF mem, SL!bounds
  <2>9. SL!CutBelow(cut)
    BY <1>3, <1>4, <2>5, <2>6, <2>7, <2>8 DEF SL!CutBelow, SL!Cuts
  <2>10. cut \in 1..nextLSN
    BY <1>1, <1>2, <1>3, <1>5
  <2> QED BY <2>9, <2>10 DEF Shown, SL!Next, SL!WriterStep
<1>8. CASE index[b] # cut
  <2>1. pc' = "rewrite" /\ job'.kind = "cutRewrite"
    BY <1>1, <1>8 DEF NoJob
  <2>2. ~Dropping' /\ Opened'
    BY <2>1 DEF Dropping, Opened
  <2> QED BY <1>1, <1>4, <1>6, <2>2, NothingUnderWay, Unseen DEF mem
<1> QED BY <1>7, <1>8

\* The steps of a drop up to its first deletion that no reader sees.
LEMMA DropBeginsUnseen ==
  ASSUME ControlOK, PlacementOK, Agreement, HarmlessFailures, NEW upTo,
         \/ CutNoop(upTo) \/ CutEverything(upTo) \/ ClearLeftover
         \/ RewriteTemp \/ RewriteTempFails \/ PublishFails
  PROVE  Shown
<1>1. ASSUME CutNoop(upTo) PROVE Shown
  <2> USE <1>1 DEF CutNoop, disk, mem
  <2>1. KeptDir
    BY DEF KeptDir, KeptName, KeptData
  <2> QED BY <2>1, Unseen DEF Opened, UnderWay, Dropping
<1>2. ASSUME CutEverything(upTo) PROVE Shown
  <2> USE <1>2 DEF disk, mem
  <2>1. pc = "idle" /\ pc' = "clearLeftover" /\ job'.kind = "cutAll"
        /\ UNCHANGED <<disk, mem, batch, fresh>>
    BY DEF CutEverything, StartDrop, NoJob
  <2>2. KeptDir
    BY <2>1 DEF KeptDir, KeptName, KeptData
  <2>3. Opened /\ Opened' /\ ~Dropping'  /\ UnderWay = SL!NoDrop
    BY <2>1, ServingShown DEF Opened, Dropping
  <2> QED BY <2>1, <2>2, <2>3, NothingUnderWay, Unseen
<1>3. ASSUME ClearLeftover PROVE Shown
  <2> USE <1>3 DEF ClearLeftover, mem
  <2>1. job.base \notin DOMAIN dir /\ ~Dropping
    BY BaseIsFree
  <2>2. DOMAIN dir' = DOMAIN dir /\ \A b \in DOMAIN dir : dir'[b] = dir[b]
    BY <2>1 DEF Unlink, Restrict
  <2>3. KeptDir
    <3>1. \A b \in DOMAIN dir : dir[b] \in Inodes \cap Live(dir', durableDir, active, fresh)
      BY <2>2, SegsType DEF Live, Range
    <3> QED BY <2>2, <3>1, CollectedKept DEF KeptDir, KeptName
  <2>4. (Opened' <=> Opened) /\ ~Dropping'
    BY <2>1 DEF Opened, Dropping
  <2> QED BY <2>1, <2>3, <2>4, NothingUnderWay, Unseen
<1>4. ASSUME RewriteTemp PROVE Shown
  <2> USE <1>4 DEF RewriteTemp, mem
  <2>1. job.kind = "cutRewrite" /\ job' = job /\ pc = "rewrite" /\ pc' = "publish"
    BY DEF ControlOK, StepsOK, Kinds
  <2>2. KeptDir
    <3>1. PICK i \in FreeInodes : files' = [files EXCEPT ![i] = Rewritten(Source, job.base)]
      OBVIOUS
    <3>2. i \in Inodes /\ files \in [Inodes -> File] /\ i \notin Range(dir)
      BY DEF ControlOK, TypeOK, DiskTypeOK, FreeInodes, Live
    <3>3. \A b \in DOMAIN dir : dir[b] # i
      BY <3>2 DEF Range
    <3> QED BY <3>1, <3>2, <3>3, SegsType DEF KeptDir, KeptName, KeptData
  <2>3. (Opened' <=> Opened) /\ ~Dropping /\ ~Dropping'
    BY <2>1 DEF Opened, Dropping
  <2> QED BY <2>2, <2>3, NothingUnderWay, Unseen
<1>5. ASSUME RewriteTempFails PROVE Shown
  <2> USE <1>5 DEF RewriteTempFails, JobFails, mem
  <2>1. job.kind = "cutRewrite" /\ pc = "rewrite" /\ pc' = "idle" /\ job' = NoJob
    BY DEF ControlOK, StepsOK, Kinds
  <2>2. KeptDir
    BY DEF KeptDir, KeptName, KeptData
  <2>3. Opened /\ Opened' /\ ~Dropping /\ ~Dropping'
    BY <2>1 DEF Opened, Dropping, NoJob
  <2> QED BY <2>2, <2>3, NothingUnderWay, Unseen
<1>6. ASSUME PublishFails PROVE Shown
  <2> USE <1>6 DEF PublishFails, JobFails, mem
  <2>1. pc = "publish" /\ pc' = "idle" /\ job' = NoJob
    BY NoFault DEF HarmlessCalls
  <2>2. KeptDir
    <3>1. \A b \in DOMAIN dir : dir[b] \in Inodes \cap Live(dir, durableDir, active, Nil)
      BY SegsType DEF Live, Range
    <3> QED BY <3>1, CollectedKept DEF KeptDir, KeptName
  <2>3. Opened /\ Opened' /\ ~Dropping /\ ~Dropping'
    BY <2>1 DEF ControlOK, StepsOK, Kinds, Opened, Dropping, NoJob
  <2> QED BY <2>2, <2>3, NothingUnderWay, Unseen
<1> QED BY <1>1, <1>2, <1>3, <1>4, <1>5, <1>6

\* No segment of the index ends above the next LSN.
LEMMA EndsBelowNext ==
  ASSUME ControlOK, PlacementOK, Agreement, Opened, ~Dropping, NEW k \in 1..Len(index)
  PROVE  Segs[index[k]] \in Nat /\ Segs[index[k]] <= nextLSN /\ nextLSN \in Nat
<1> DEFINE n == Len(index)
<1>1. /\ n \in Nat /\ nextLSN = Segs[LastBase] /\ LastBase = index[n] /\ LastBase <= nextLSN
      /\ nextLSN \in Nat /\ LastBase \in DOMAIN dir
      /\ \A j \in 1..n : /\ Segs[index[j]] \in Nat /\ index[j] <= LastBase
                         /\ j < n => index[j + 1] = Segs[index[j]]
  BY IndexFacts
<1>2. LastBase \in Nat
  BY <1>1, SegsType
<1> HIDE DEF n
<1>3. k \in 1..n
  BY DEF n
<1>4. CASE k = n
  BY <1>1, <1>4
<1>5. CASE k # n
  <2>1. k < n /\ k + 1 \in 1..n
    BY <1>1, <1>3, <1>5
  <2>2. Segs[index[k]] <= LastBase /\ Segs[index[k]] \in Nat
    BY <1>1, <1>3, <2>1
  <2> QED BY <1>1, <1>2, <2>2
<1> QED BY <1>4, <1>5

\* With its rename the rewritten segment overlaps the one it replaces.
LEMMA PublishRewriteShown ==
  ASSUME ControlOK, PlacementOK, Agreement, PublishRewrite
  PROVE  Shown
<1> USE DEF PublishRewrite, mem
<1>1. PICK b, base, old : b = Len(job.names) /\ base = job.base /\ old = index[b]
  OBVIOUS
<1>2. /\ b \in 1..Len(index) /\ firstLSN # 0
      /\ base \notin DOMAIN dir /\ DOMAIN dir = Range(index)
      /\ DOMAIN dir' = DOMAIN dir \cup {base}
      /\ Segs'[base] = Segs[old]
      /\ \A c \in DOMAIN dir : Segs'[c] = Segs[c]
      /\ \A k \in 1..Len(index) : /\ k <= b => index[k] < base
                                  /\ k > b => base < index[k]
      /\ Range(index) \subseteq Range(job.names) \cup Range(job.idx)
      /\ Range(job.idx) \subseteq {base} \cup Range(index) /\ base \in Range(job.idx)
      /\ Range(job.names) \subseteq Range(index)
      /\ \A c \in Range(job.names) : c \in Nat /\ c < base
      /\ \A c \in Range(job.idx) : c \in Nat /\ base <= c
  BY <1>1, PublishRewriteSegs
<1>3. job.kind = "cutRewrite" /\ (~HasFresh \/ job.kind # "roll")
  BY WriterOpened DEF ControlOK, StepsOK, Kinds, Dropping, Opened
<1>4. Opened /\ ~Dropping /\ Opened' /\ Dropping' /\ job.kind = "cutRewrite" /\ SL!Idle
  BY WriterOpened, IdleShown DEF ControlOK, StepsOK, Kinds, Dropping, Opened
<1>5. Segs' = SL!With(base, Segs[old])
  BY <1>2, WithShown
<1>6. /\ job.base \in Nat /\ job.idx[1] = base /\ base < Segs[old]
  BY <1>1, <1>4, JobType DEF PlacementOK, PlanOK, Agreement, DropPlanOK
<1>7. /\ Len(index) \in Nat /\ DOMAIN index = 1..Len(index)
      /\ \A k \in 1..Len(index) : index[k] \in Nat /\ index[k] <= LastBase
      /\ \A j, k \in 1..Len(index) : j < k => index[j] < index[k]
      /\ firstLSN = index[1]
  BY <1>2, <1>4, IndexFacts DEF Ascending, Agreement, BoundsOK
<1>8. old \in Range(index) /\ old < base /\ \A c \in Range(index) : c < base => c <= old
  <2>1. old \in Range(index) /\ old < base /\ old \in Nat
    BY <1>1, <1>2, <1>7 DEF Range
  <2>2. ASSUME NEW c \in Range(index), c < base PROVE c <= old
    <3>1. PICK k \in 1..Len(index) : c = index[k]
      BY <1>7 DEF Range
    <3>2. c \in Nat /\ ~(base < c)
      BY <1>1, <1>6, <1>7, <2>2, <3>1
    <3>3. k <= b
      BY <1>2, <1>7, <3>1, <3>2
    <3>4. k < b \/ k = b
      BY <1>2, <1>7, <3>3
    <3> QED BY <1>1, <1>2, <1>7, <2>1, <3>1, <3>2, <3>4
  <2> QED BY <2>1, <2>2
<1>9. firstLSN < base
  BY <1>2, <1>7
<1>10. base < nextLSN /\ nextLSN \in Nat
  <2>1. Segs[old] \in Nat /\ Segs[old] <= nextLSN /\ nextLSN \in Nat
    BY <1>1, <1>2, <1>4, EndsBelowNext
  <2> QED BY <1>1, <1>6, <2>1
<1>11. /\ Range(job.names) = {c \in Range(index) : c < base}
       /\ Range(job.idx) = {base} \cup {c \in Range(index) : base < c}
  <2>1. \A c \in Range(job.idx) : c = base \/ base < c
    BY <1>1, <1>2, <1>6
  <2>2. \A c \in Range(job.names) : ~(base < c)
    BY <1>1, <1>2, <1>6
  <2>3. \A c \in Range(job.idx) : ~(c < base)
    BY <1>1, <1>2, <1>6
  <2> QED BY <1>2, <2>1, <2>2, <2>3
<1>12. UnderWay' = [doomed |-> {c \in Range(index) : c < base},
                    bases |-> {base} \cup {c \in Range(index) : base < c}, first |-> base]
  <2>1. job' = job /\ Range(job.names)' = Range(job.names) /\ Range(job.idx)' = Range(job.idx)
    OBVIOUS
  <2>2. Range(job.names) \cap DOMAIN dir' = Range(job.names)
    BY <1>2
  <2> QED BY <1>4, <1>6, <1>11, <2>1, <2>2, DropUnderWay
<1>13. Range(index)' = Range(index) /\ SL!bounds' = SL!bounds /\ Opened' = Opened
  BY <1>4 DEF SL!bounds
<1>14. SL!CutInside(base)
  BY <1>2, <1>4, <1>5, <1>8, <1>9, <1>10, <1>12, <1>13 DEF SL!CutInside, SL!Cuts
<1>15. base \in 1..nextLSN
  BY <1>1, <1>6, <1>7, <1>9, <1>10, <1>2
<1> QED BY <1>14, <1>15 DEF Shown, SL!Next, SL!WriterStep

\* Its fsync changes nothing that readers see.
LEMMA PublishSyncShown ==
  ASSUME ControlOK, PublishSync
  PROVE  Shown
<1> USE DEF PublishSync, mem
<1>1. KeptDir
  <2>1. Range(dir) \subseteq Live(dir, dir, active, fresh)
    BY DEF Live
  <2> QED BY <2>1, KeptByCollection
<1>2. (Opened' <=> Opened) /\ Dropping /\ Dropping'
  BY DEF Opened, Dropping
<1>3. UnderWay' = UnderWay
  BY <1>2 DEF UnderWay
<1> QED BY <1>1, <1>2, <1>3, Unseen

\* A file that goes is the lowest of those that have still to go.
LEMMA RemoveFileShown ==
  ASSUME ControlOK, PlacementOK, Agreement, RemoveFile
  PROVE  Shown
<1> USE DEF RemoveFile, Deleting, mem
<1>1. CASE pc # "remove"
  <2>1. ~Opened'
    BY <1>1 DEF Opened
  <2> QED BY <2>1, Stopped
<1>2. CASE pc = "remove"
  <2>1. /\ Opened /\ Dropping /\ Ascending(job.names) /\ job.names \in Seq(Nat)
        /\ DOMAIN dir = Pending \cup Range(job.idx)
    BY <1>2, DeletingFacts, LogIndexType
  <2>2. job' = [job EXCEPT !.unlinked = TRUE]
    OBVIOUS
  <2>3. job'.kind = job.kind /\ job'.idx = job.idx /\ job'.names = job.names
    BY <2>2 DEF ControlOK, TypeOK, ControlTypeOK
  <2>4. Opened' = Opened /\ Dropping'
    BY <1>2, <2>1, <2>3 DEF Opened, Dropping
  <2>5. PICK b : b = Head(job.names)
    OBVIOUS
  <2>6. /\ Range(job.names) = {b} \cup Range(Tail(job.names)) /\ b \in Range(job.names)
        /\ Range(job.names) \subseteq DOMAIN dir
    BY <2>1, <2>5, TailAscending DEF Pending
  <2>7. \A c \in Range(job.names) : b <= c
    <3>1. /\ Len(job.names) \in Nat /\ Len(job.names) > 0
          /\ DOMAIN job.names = 1..Len(job.names) /\ b = job.names[1]
          /\ \A k \in DOMAIN job.names : job.names[k] \in Nat
      BY <2>1, <2>5
    <3>2. \A k \in DOMAIN job.names : k = 1 \/ 1 < k
      BY <3>1
    <3>3. 1 \in DOMAIN job.names
      BY <3>1
    <3>4. \A k \in DOMAIN job.names : b <= job.names[k]
      BY <2>1, <3>1, <3>2, <3>3 DEF Ascending
    <3> QED BY <3>4 DEF Range
  <2>8. DOMAIN dir' = DOMAIN dir \ {b} /\ \A c \in DOMAIN dir' : c \in DOMAIN dir /\ KeptName(c)
    BY <2>5, RemoveFileKept
  <2>9. Segs' = SL!Restrict(Segs, DOMAIN Segs \ {b})
    <3>1. DOMAIN Segs = DOMAIN dir
      BY SegsType
    <3>2. Segs' = [c \in DOMAIN dir' |-> EndOf(c)']
      BY DEF Segs
    <3>3. \A c \in DOMAIN dir' : Segs'[c] = Segs[c]
      BY <2>8, SegKept
    <3>4. Segs' = [c \in DOMAIN dir' |-> Segs'[c]]
      BY <3>2
    <3> QED BY <2>8, <3>1, <3>3, <3>4 DEF SL!Restrict
  <2> DEFINE d == [doomed |-> Range(job.names), bases |-> Range(job.idx),
                   first |-> IF job.kind = "cutAll" THEN 0 ELSE job.idx[1]]
  <2>10. UnderWay = d
    <3>1. Range(job.names) \cap DOMAIN dir = Range(job.names)
      BY <2>6
    <3> QED BY <2>1, <3>1, DropUnderWay
  <2>11. UnderWay' = [d EXCEPT !.doomed = @ \ {b}]
    <3>1. Range(job.names)' = Range(job.names) /\ Range(job.idx)' = Range(job.idx)
      BY <2>3
    <3>2. Range(job.names) \cap DOMAIN dir' = Range(job.names) \ {b}
      BY <2>6, <2>8
    <3> QED BY <2>3, <2>4, <3>1, <3>2, DropUnderWay
  <2>12. UnderWay' = [UnderWay EXCEPT !.doomed = @ \ {b}] /\ UnderWay.doomed = Range(job.names)
    BY <2>10, <2>11
  <2>13. SL!bounds' = SL!bounds /\ Range(index)' = Range(index)
    BY DEF SL!bounds
  <2> HIDE DEF d
  <2>14. SL!Delete
    <3>1. b \in UnderWay.doomed /\ SL!IsMin(b, UnderWay.doomed)
      BY <2>6, <2>7, <2>12 DEF SL!IsMin
    <3> QED BY <2>1, <2>4, <2>9, <2>12, <2>13, <3>1 DEF SL!Delete
  <2> QED BY <2>14 DEF Shown, SL!Next, SL!WriterStep, SL!Onward
<1> QED BY <1>1, <1>2

\* The fsync of the directory shows nothing.
LEMMA SyncRemovalShown ==
  ASSUME ControlOK, PlacementOK, Agreement, SyncRemoval
  PROVE  Shown
<1> USE DEF SyncRemoval, Deleting, mem
<1>1. CASE pc # "remove"
  <2>1. ~Opened'
    BY <1>1 DEF Opened
  <2> QED BY <2>1, Stopped
<1>2. CASE pc = "remove"
  <2>1. /\ Opened /\ Dropping /\ Ascending(job.names) /\ job.names \in Seq(Nat)
        /\ DOMAIN dir = Range(Tail(job.names)) \cup Range(job.idx)
        /\ Range(job.names) \cap Range(job.idx) = {}
    BY <1>2, DeletingFacts, LogIndexType DEF Pending
  <2>2. job' = [job EXCEPT !.unlinked = FALSE, !.names = Tail(job.names)]
    OBVIOUS
  <2>3. job'.kind = job.kind /\ job'.idx = job.idx /\ job'.names = Tail(job.names)
    BY <2>2 DEF ControlOK, TypeOK, ControlTypeOK
  <2>4. (Opened' <=> Opened) /\ Dropping'
    BY <1>2, <2>1, <2>3 DEF Opened, Dropping
  <2>5. KeptDir
    <3>1. Range(dir) \subseteq Live(dir, dir, active, fresh)
      BY DEF Live
    <3> QED BY <3>1, KeptByCollection
  <2>6. Range(Tail(job.names)) \cap DOMAIN dir' = Range(job.names) \cap DOMAIN dir
    <3>1. /\ Range(job.names) = {Head(job.names)} \cup Range(Tail(job.names))
          /\ Head(job.names) \notin Range(Tail(job.names))
      BY <2>1, TailAscending
    <3> QED BY <2>1, <3>1
  <2>7. UnderWay' = UnderWay
    <3>1. Range(job.names)' = Range(Tail(job.names)) /\ Range(job.idx)' = Range(job.idx)
      BY <2>3
    <3> QED BY <2>1, <2>3, <2>4, <2>6, <3>1, DropUnderWay
  <2> QED BY <2>4, <2>5, <2>7, Unseen
<1> QED BY <1>1, <1>2

\* The new index and first LSN are those the drop has announced.
LEMMA FinishShown ==
  ASSUME ControlOK, PlacementOK, Agreement,
         FinishTruncate \/ FinishCutBelow \/ FinishCutRewrite \/ FinishCutEverything
  PROVE  Shown
<1>1. /\ pc = "remove" /\ job.names = << >>
      /\ Installed(IF ReplacesActive THEN fresh ELSE active,
                   IF job.kind = "cutAll" THEN 0 ELSE job.idx[1])
  BY FinishInstalls
<1>2. KeptDir /\ DOMAIN dir = Range(job.idx) /\ Opened /\ Opened' /\ ~Dropping'
  BY <1>1, InstalledKept
<1>3. Dropping /\ job.idx # << >> /\ job.idx \in Seq(Nat)
  BY <1>1, <1>2, DeletingFacts, LogIndexType
<1>4. UnderWay = [doomed |-> {}, bases |-> Range(job.idx),
                  first |-> IF job.kind = "cutAll" THEN 0 ELSE job.idx[1]]
  <2>1. Range(job.names) \cap DOMAIN dir = {}
    BY <1>1 DEF Range
  <2> QED BY <1>3, <2>1, DropUnderWay
<1>5. UnderWay # SL!NoDrop
  <2>1. Range(job.idx) # {}
    BY <1>3, LastElement DEF Range
  <2> QED BY <1>4, <2>1 DEF SL!NoDrop
<1>6. UnderWay' = SL!NoDrop
  BY <1>2, NothingUnderWay
<1>7. Segs' = Segs
  BY <1>2, SegsKept
<1>8. /\ Range(index)' = Range(job.idx) /\ nextLSN' = nextLSN /\ lastLSN' = lastLSN
      /\ firstLSN' = (IF job.kind = "cutAll" THEN 0 ELSE job.idx[1])
  BY <1>1 DEF Installed
<1>9. SL!FinishDrop
  BY <1>2, <1>4, <1>5, <1>6, <1>7, <1>8 DEF SL!FinishDrop
<1> QED BY <1>9 DEF Shown, SL!Next, SL!WriterStep, SL!Onward

LEMMA DropShown ==
  ASSUME ControlOK, PlacementOK, Agreement, Drop \/ Delete, HarmlessFailures
  PROVE  Shown
<1>1. ~ClearLeftoverFails /\ ~RemovalFails
  BY NoFault DEF HarmlessCalls, ClearLeftoverFails, RemovalFails
<1>2. \A upTo \in Bounds : upTo \in Nat
  BY WalStateAssumption DEF Bounds
<1> QED BY <1>1, <1>2, TruncateShown, DropBeginsUnseen, CutInsideShown, PublishRewriteShown,
           PublishSyncShown, RemoveFileShown, SyncRemovalShown, FinishShown DEF Drop, Delete

-----------------------------------------------------------------------------
(* Recovery.                                                               *)

\* The files, the index and the bounds of an idle log agree.
LEMMA AgreedShown ==
  ControlOK /\ PlacementOK /\ Agreement /\ pc = "idle" => SL!Opened
<1> SUFFICES ASSUME ControlOK, PlacementOK, Agreement, pc = "idle"
             PROVE  SL!Opened
  OBVIOUS
<1>1. /\ Opened /\ ~Dropping /\ UnderWay = SL!NoDrop /\ DOMAIN dir = Range(index)
      /\ ~Unpublished
  BY ServingFacts, ServingShown
<1>2. PICK n : n = Len(index)
  OBVIOUS
<1>3. /\ n \in Nat /\ n > 0 /\ DOMAIN index = 1..n /\ LastBase = index[n]
      /\ index[1] > 0 /\ LastBase \in DOMAIN dir
      /\ \A j, k \in 1..n : j < k => index[j] < index[k]
      /\ \A k \in 1..n : /\ index[k] \in Nat /\ Segs[index[k]] \in Nat /\ index[k] <= Segs[index[k]]
                         /\ k < n => index[k + 1] = Segs[index[k]]
      /\ nextLSN = Segs[LastBase] /\ nextLSN \in Nat /\ firstLSN \in Nat /\ lastLSN \in Nat
  BY <1>1, <1>2, IndexFacts DEF Ascending
<1>4. DOMAIN Segs = Range(index)
  BY <1>1, SegsType
<1>5. LastBase \in Range(index) /\ SL!IsActive(LastBase)
  BY <1>1, IndexShown
<1>6. lastLSN = nextLSN - 1
  BY <1>1, <1>3 DEF Agreement, BoundsOK, Unpublished
<1>7. firstLSN = IF index[1] = nextLSN THEN 0 ELSE index[1]
  <2>1. (firstLSN # 0 => firstLSN = index[1] /\ firstLSN < nextLSN)
        /\ (firstLSN = 0 => index[1] = nextLSN)
    BY <1>1 DEF Agreement, BoundsOK
  <2> QED BY <1>3, <2>1
<1>8. 1 \in 1..n
  BY <1>3
<1>9. ASSUME NEW b \in Range(index)
      PROVE  /\ 0 < b /\ b <= Segs[b] /\ Segs[b] <= nextLSN
             /\ \A c \in Range(index) : b < c => Segs[b] <= c
             /\ SL!IsMin(b, Range(index)) => firstLSN = IF b = nextLSN THEN 0 ELSE b
  <2>1. PICK j \in 1..n : b = index[j]
    BY <1>3 DEF Range
  <2>2. b <= Segs[b] /\ Segs[b] <= nextLSN /\ Segs[b] \in Nat /\ b \in Nat
    BY <1>1, <1>2, <1>3, <2>1, EndsBelowNext
  <2>3. index[1] <= b
    <3>1. j = 1 \/ 1 < j
      BY <1>3
    <3> QED BY <1>3, <1>8, <2>1, <3>1
  <2>4. ASSUME NEW c \in Range(index), b < c PROVE Segs[b] <= c
    <3>1. PICK k \in 1..n : c = index[k]
      BY <1>3 DEF Range
    <3>2. c \in Nat
      BY <1>3, <3>1
    <3>3. j < k
      <4>1. k < j \/ k = j \/ j < k
        BY <1>3
      <4>2. ~(k < j) /\ k # j
        BY <1>3, <2>1, <2>2, <2>4, <3>1, <3>2
      <4> QED BY <4>1, <4>2
    <3>4. j < n /\ j + 1 \in 1..n /\ (j + 1 = k \/ j + 1 < k)
      BY <1>3, <3>3
    <3>5. index[j + 1] = Segs[b] /\ index[j + 1] <= index[k]
      BY <1>3, <2>1, <3>4
    <3> QED BY <3>1, <3>5
  <2>5. SL!IsMin(b, Range(index)) => b = index[1]
    <3>1. index[1] \in Range(index) /\ index[1] \in Nat
      BY <1>3, <1>8 DEF Range
    <3>2. SL!IsMin(b, Range(index)) => b <= index[1]
      BY <3>1 DEF SL!IsMin
    <3> QED BY <2>2, <2>3, <3>1, <3>2
  <2>6. 0 < b
    BY <1>3, <1>8, <2>2, <2>3
  <2> QED BY <1>7, <2>2, <2>4, <2>5, <2>6
<1> QED BY <1>1, <1>3, <1>4, <1>5, <1>6, <1>9 DEF SL!Opened

\* Recovery shows nothing until it installs the log it has found.
LEMMA RecoverShown ==
  ASSUME ControlOK, Recover
  PROVE  ~Opened /\ (~Opened' \/ pc' = "idle")
<1>1. job.kind = "init" \/ pc \in {"closed", "scan", "reconcile", "prune"}
  BY DEF Recover, OpenDir, InstallEmpty, ScanSegment, OpenCorrupt, Reconcile, Reconciled,
     TruncateTornTail, TruncateTornTailFails, InstallState, Closed, Scanning,
     ControlOK, StepsOK, Kinds
<1>2. InstallEmpty \/ InstallState => pc' = "idle"
  BY DEF InstallEmpty, InstallState
<1>3. TruncateTornTailFails => ~Opened'
  BY DEF TruncateTornTailFails, OpenFails, Opened
<1>4. OpenDir => ~Opened'
  <2>1. OpenDir => job'.kind = "init" \/ pc' = "scan"
    BY DEF OpenDir, NoJob
  <2> QED BY <2>1 DEF Opened
<1>5. ScanSegment \/ OpenCorrupt \/ Reconcile \/ Reconciled \/ TruncateTornTail => ~Opened'
  BY DEF ScanSegment, OpenCorrupt, OpenFails, Reconcile, Reconciled, TruncateTornTail,
     Scanning, Opened
<1> QED BY <1>1, <1>2, <1>3, <1>4, <1>5 DEF Opened, Recover

-----------------------------------------------------------------------------
(* The refinement.                                                         *)

Recovered == ControlOK /\ PlacementOK /\ Agreement /\ pc = "idle"

\* Every step, up to what a recovery ends with.
LEMMA NextShown ==
  ASSUME ControlOK, ControlOK', PlacementOK, PlacementOK', Agreement, Agreement',
         HarmlessFailures, [Next]_vars
  PROVE  Shown \/ (~Opened /\ Recovered')
<1>1. CASE UNCHANGED vars
  BY <1>1 DEF Shown, SL!log, SL!bounds, Opened, Segs, EndOf, UnderWay, Dropping,
              vars, disk, mem, Range
<1>2. CASE Commit
  BY <1>2, CommitShown
<1>3. CASE SyncActive
  <2> USE <1>3 DEF SyncActive, mem
  <2>1. active \in Inodes
    BY ServingShown
  <2>2. KeptDir
    BY <2>1, KeptByFsync DEF Flushed, ActiveFile
  <2> QED BY <2>2, Unseen DEF Opened, UnderWay, Dropping
<1>4. CASE Create
  BY <1>4, CreateShown
<1>5. CASE Drop \/ Delete
  BY <1>5, DropShown
<1>6. CASE Recover
  BY <1>6, RecoverShown, Stopped DEF Recovered
<1>7. CASE Close \/ CloseUnflushed \/ Kill \/ PowerLoss
  <2>1. pc' = "closed"
    BY <1>7 DEF Close, CloseUnflushed, Kill, PowerLoss, Stop, MemoryLost
  <2> QED BY <2>1, Stopped DEF Opened
<1> QED BY <1>1, <1>2, <1>3, <1>4, <1>5, <1>6, <1>7 DEF Next

(***************************************************************************)
(* WalStore implements SharedLog for every value of the constants, through *)
(* every close, kill, power loss and recovery, while no system call fails  *)
(* but those of HarmlessCalls and no request of a batch is empty: what the *)
(* readers of the log are shown by commit, roll, doTruncate, doCut and     *)
(* Open is what SharedLog, on which WalReader and WalFollower are built,   *)
(* says they are shown.                                                    *)
(***************************************************************************)
THEOREM Implementation ==
  ASSUME HarmlessFailures, NoEmptyRequests
  PROVE  Spec => ImplementsSharedLog
<1>1. Init => SL!Init
  BY DEF Init, SL!Init, Opened
<1>2. Recovered => SL!Opened
  BY AgreedShown DEF Recovered
<1>3. IInv /\ IInv' /\ Agreement /\ Agreement' /\ [Next]_vars
        => Shown \/ (~Opened /\ Recovered')
  BY NextShown DEF IInv
<1>4. ~Opened /\ SL!Opened' => Shown
  BY DEF Shown, SL!Next, SL!Reopen
<1>5. Spec => [](IInv /\ Agreement)
  BY AgreementHolds
<1>6. Shown => [SL!Next]_SL!log
  BY DEF Shown
<1> QED BY <1>1, <1>2, <1>3, <1>4, <1>5, <1>6, PTL DEF Spec, ImplementsSharedLog, SL!Spec
=============================================================================

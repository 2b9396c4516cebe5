-------------------------- MODULE Placement_proofs --------------------------
(***************************************************************************)
(* DenseSegments: every record of a segment file is where its LSN says.    *)
(* PlacementOK is inductive relative to ControlOK.  Most steps change      *)
(* neither what a file holds nor under which name it is known; the frame   *)
(* lemmas deal with those, the rest of the module with the others.         *)
(***************************************************************************)
EXTENDS WalStore_proofs

USE WalStateAssumption DEF ControlOK, TypeOK

\* A step only keeps or drops names.
NamesFrom ==
  \A d \in {dir', durableDir'} : \A b \in DOMAIN d :
    \/ b \in DOMAIN dir /\ d[b] = dir[b]
    \/ b \in DOMAIN durableDir /\ d[b] = durableDir[b]

\* A step keeps the records of a file.
KeptData(i) == files'[i].data = files[i].data

-----------------------------------------------------------------------------
(* Frame lemmas.                                                           *)

\* The WAL is open exactly if it has an active segment.
LEMMA OpenedIff ==
  ASSUME ControlOK
  PROVE  /\ Opened <=> active \in Inodes
         /\ HasFresh <=> fresh \in Inodes
BY DEF StepsOK

\* The same after a step.
LEMMA OpenedIffNext ==
  ASSUME ControlOK'
  PROVE  /\ Opened' <=> active' \in Inodes
         /\ HasFresh' <=> fresh' \in Inodes
BY DEF StepsOK

\* A file keeps its only name when no name is added.
LEMMA NamedOnlyKept ==
  ASSUME NamesFrom, NEW i, NEW base, NamedOnly(i, base)
  PROVE  NamedOnly(i, base)'
BY DEF NamesFrom, NamedOnly

\* A file keeps its place when its records stay.
LEMMA PlacedKept ==
  ASSUME NEW i, NEW base, Placed(i, base), KeptData(i)
  PROVE  Placed(i, base)'
BY DEF Placed, KeptData

\* What the directories name stays in place when no name is added.
LEMMA NamesKept ==
  ASSUME NamesOK, NamesFrom,
         \A i \in Range(dir') \cup Range(durableDir') : KeptData(i)
  PROVE  NamesOK'
<1>1. ASSUME NEW d \in {dir', durableDir'}, NEW b \in DOMAIN d
      PROVE  b > 0 /\ Placed(d[b], b)' /\ NamedOnly(d[b], b)'
  <2> DEFINE i == d[b]
  <2>1. b > 0 /\ Placed(i, b) /\ NamedOnly(i, b)
    BY DEF NamesOK, NamesFrom
  <2>2. KeptData(i)
    BY DEF Range
  <2> HIDE DEF i
  <2>3. Placed(i, b)' /\ NamedOnly(i, b)'
    BY <2>1, <2>2, PlacedKept, NamedOnlyKept
  <2> QED BY <2>1, <2>3 DEF i
<1> QED BY <1>1 DEF NamesOK

\* The active segment stays in place when the WAL keeps it.
LEMMA ActiveKept ==
  ASSUME ControlOK, ControlOK', ActiveOK, ClosedOK, NamesFrom,
         active \in Inodes => KeptData(active),
         UNCHANGED <<active, index, nextLSN>>,
         firstLSN' = firstLSN \/ (Opened /\ firstLSN' >= index[1])
  PROVE  ActiveOK' /\ ClosedOK'
<1>1. ClosedOK'
  BY OpenedIff, OpenedIffNext DEF ClosedOK
<1>2. ASSUME Opened PROVE ActiveOK'
  <2>1. active \in Inodes /\ KeptData(active)
    BY <1>2, OpenedIff
  <2>2. LastBase' = LastBase /\ ActiveFile'.data = ActiveFile.data
    BY <2>1 DEF LastBase, ActiveFile, KeptData
  <2>3. Placed(active, LastBase)' /\ NamedOnly(active, LastBase)'
    <3>1. PICK i, b : i = active /\ b = LastBase
      OBVIOUS
    <3>2. Placed(i, b) /\ NamedOnly(i, b) /\ KeptData(i)
      BY <1>2, <2>1, <3>1 DEF ActiveOK
    <3>3. Placed(i, b)' /\ NamedOnly(i, b)'
      BY <3>2, PlacedKept, NamedOnlyKept
    <3> QED BY <2>2, <3>1, <3>3 DEF Placed, NamedOnly
  <2>4. Ascending(index)' /\ index'[1] > 0 /\ (firstLSN' # 0 => index'[1] <= firstLSN')
    BY <1>2 DEF ActiveOK, Ascending
  <2>5. nextLSN' = LastBase' + Len(ActiveFile'.data)
    BY <1>2, <2>2 DEF ActiveOK
  <2> QED BY <2>3, <2>4, <2>5 DEF ActiveOK
<1> QED BY <1>1, <1>2, OpenedIff, OpenedIffNext DEF ActiveOK

\* So does the segment under construction.
LEMMA FreshKept ==
  ASSUME ControlOK, ControlOK', FreshOK, NamesFrom,
         fresh' = Nil \/ (fresh' = fresh /\ KeptData(fresh)),
         HasFresh' => UNCHANGED <<active, nextLSN>> /\ UNCHANGED <<job.kind, job.base, job.idx>>
  PROVE  FreshOK'
<1> SUFFICES ASSUME HasFresh' PROVE FreshOK'
  BY DEF FreshOK
<1>1. fresh' = fresh /\ fresh \in Inodes /\ HasFresh /\ KeptData(fresh)
  BY OpenedIff, OpenedIffNext
<1>2. Placed(fresh, job.base)' /\ NamedOnly(fresh, job.base)'
  <2>1. PICK i, b : i = fresh /\ b = job.base
    OBVIOUS
  <2>2. Placed(i, b) /\ NamedOnly(i, b) /\ KeptData(i)
    BY <1>1, <2>1 DEF FreshOK
  <2>3. Placed(i, b)' /\ NamedOnly(i, b)'
    BY <2>2, PlacedKept, NamedOnlyKept
  <2> QED BY <1>1, <2>1, <2>3 DEF Placed, NamedOnly
<1> QED BY <1>1, <1>2 DEF FreshOK, KeptData, CutsActive

\* Everything stays in place in a step that makes no record and no name.
LEMMA FramePlacement ==
  ASSUME ControlOK, ControlOK', PlacementOK, NamesFrom,
         \A i \in Live(dir', durableDir', active, fresh') : KeptData(i),
         UNCHANGED <<active, index, nextLSN>>,
         firstLSN' = firstLSN \/ (Opened /\ firstLSN' >= index[1]),
         fresh' \in {Nil, fresh},
         HasFresh' => UNCHANGED <<job.kind, job.base, job.idx>>,
         PlanOK', SurvivorsOK'
  PROVE  PlacementOK'
<1>1. NamesOK'
  BY NamesKept DEF PlacementOK, Live
<1>2. ActiveOK' /\ ClosedOK'
  BY ActiveKept DEF PlacementOK, Live
<1>3. FreshOK'
  <2>1. fresh' = Nil \/ (fresh' = fresh /\ KeptData(fresh))
    BY DEF Live, ControlTypeOK
  <2> QED BY <2>1, FreshKept DEF PlacementOK
<1> QED BY <1>1, <1>2, <1>3 DEF PlacementOK

\* Collecting dead files keeps the records of the others.
LEMMA CollectedKept ==
  ASSUME ControlOK, NEW live, files' = Collected(files, live)
  PROVE  \A i \in Inodes \cap live : KeptData(i)
BY CollectedType DEF DiskTypeOK, KeptData

\* No job, no plan.
LEMMA NoPlan ==
  ASSUME job' = NoJob, pc' \in {"closed", "idle", "write"}
  PROVE  PlanOK' /\ SurvivorsOK'
BY DEF PlanOK, SurvivorsOK, NoJob

\* The plan of a job stays the plan while the log it continues stays.
LEMMA PlanKept ==
  ASSUME PlanOK, UNCHANGED <<index, nextLSN, job.kind, job.base, job.idx>>,
         pc' \notin {"rewrite", "prune"}
  PROVE  PlanOK' /\ SurvivorsOK'
BY DEF PlanOK, SurvivorsOK, LastBase, CutsActive

-----------------------------------------------------------------------------
(* Group commits.                                                          *)

\* The steps of commit, finishBatch and roll: only writeRecord adds a record,
\* at nextLSN.
LEMMA CommitPlacement ==
  ASSUME ControlOK, ControlOK', PlacementOK, Commit
  PROVE  PlacementOK'
<1> USE DEF disk, mem, hist
<1>0. /\ files \in [Inodes -> File]
      /\ Live(dir, durableDir, active, fresh) \subseteq Inodes
  BY DEF DiskTypeOK, Live
<1>1. ASSUME NEW b \in Batches, BeginCommit(b) PROVE PlacementOK'
  BY <1>1, FramePlacement, PlanKept
  DEF BeginCommit, NamesFrom, KeptData, HasFresh, PlacementOK
<1>2. ASSUME CompleteRequest PROVE PlacementOK'
  BY <1>2, FramePlacement, PlanKept
  DEF CompleteRequest, NamesFrom, KeptData, HasFresh, PlacementOK
<1>3. ASSUME FinishBatchFails PROVE PlacementOK'
  BY <1>3, FramePlacement, PlanKept
  DEF FinishBatchFails, NamesFrom, KeptData, HasFresh, PlacementOK
<1>4. ASSUME StartRollFails PROVE PlacementOK'
  BY <1>4, FramePlacement, PlanKept
  DEF StartRollFails, RequestFails, NamesFrom, KeptData, HasFresh, PlacementOK
<1>5. ASSUME WriteRecordFails PROVE PlacementOK'
  <2> USE <1>5 DEF WriteRecordFails, Writing
  <2>1. active \in Inodes /\ ActiveFile \in File
    BY ActiveType, WriterOpened
  <2>2. \A i \in Inodes : KeptData(i)
    BY <1>0, <2>1, PartlyWrittenType DEF KeptData, ActiveFile, PartlyWritten, File
  <2> QED
    BY <1>0, <2>2, FramePlacement, PlanKept
    DEF RequestFails, NamesFrom, HasFresh, PlacementOK

<1>6. ASSUME FinishBatch PROVE PlacementOK'
  <2> USE <1>6 DEF FinishBatch
  <2>1. active \in Inodes /\ ActiveFile \in File /\ Opened /\ index[1] \in Nat
    BY ActiveType, WriterOpened DEF StepsOK, MemTypeOK
  <2>2. \A i \in Inodes : KeptData(i)
    BY <1>0, <2>1, FsyncedType DEF KeptData, ActiveFile
  <2>3. firstLSN' = firstLSN \/ (Opened /\ firstLSN' >= index[1])
    BY <2>1 DEF PublishedFirst
  <2> QED
    BY <1>0, <2>2, <2>3, FramePlacement, PlanKept
    DEF NamesFrom, HasFresh, PlacementOK
<1>7. ASSUME StartRoll PROVE PlacementOK'
  <2> USE <1>7 DEF StartRoll, Writing
  <2>1. active \in Inodes /\ ActiveFile \in File /\ Opened
    BY ActiveType, WriterOpened
  <2>2. \A i \in Inodes : KeptData(i)
    BY <1>0, <2>1, FsyncedType DEF KeptData, ActiveFile, Sealed
  <2>3. LastBase < nextLSN
    <3>1. LastBase \in Nat
      BY <2>1, LastElement DEF LastBase, StepsOK, MemTypeOK
    <3>2. Len(ActiveFile.data) > 0 /\ Len(ActiveFile.data) \in Nat
      BY <2>1, LastElement DEF NeedsRoll, File
    <3> QED BY <2>1, <3>1, <3>2 DEF PlacementOK, ActiveOK
  <2>4. PlanOK' /\ SurvivorsOK'
    BY <2>3 DEF PlanOK, SurvivorsOK, NoJob, LastBase
  <2> QED
    BY <1>0, <2>2, <2>4, FramePlacement DEF NamesFrom, HasFresh, PlacementOK
<1>8. ASSUME InstallRoll PROVE PlacementOK'
  <2> USE <1>8 DEF InstallRoll
  <2>1. /\ fresh \in Inodes /\ job.kind = "roll" /\ HasFresh /\ Opened /\ pc' = "write"
        /\ job' = NoJob /\ fresh' = Nil
    BY WriterOpened DEF HasFresh, StepsOK, Kinds, RequestFails
  <2>2. \A i \in Range(dir') \cup Range(durableDir') \cup {fresh} : KeptData(i)
    BY <1>0, <2>1, CollectedKept DEF Live, DiskTypeOK
  <2>3. NamesFrom
    BY DEF NamesFrom
  <2>4. NamesOK'
    BY <2>2, <2>3, NamesKept DEF PlacementOK
  <2>5. PlanOK' /\ SurvivorsOK'
    BY <2>1, NoPlan
  <2>6. FreshOK' /\ ClosedOK'
    BY <2>1, OpenedIffNext DEF FreshOK, ClosedOK
  <2>7. ActiveOK'
    <3>1. /\ index \in Seq(Nat) /\ index # << >> /\ job.base \in Nat /\ job.base = nextLSN
          /\ LastBase < job.base /\ Ascending(index) /\ index[1] > 0
          /\ firstLSN # 0 => index[1] <= firstLSN
      BY <2>1 DEF StepsOK, MemTypeOK, PlacementOK, PlanOK, ActiveOK
    <3>2. \A k \in DOMAIN index : index[k] < job.base
      BY <3>1 DEF LastBase, Ascending
    <3>3. Ascending(Append(index, job.base)) /\ Append(index, job.base)[1] = index[1]
      BY <3>1, <3>2, AppendAscending
    <3>4. LastBase' = job.base
      BY <3>1 DEF LastBase
    <3>5. PICK i, b : i = fresh /\ b = job.base
      OBVIOUS
    <3>6. Placed(i, b)' /\ NamedOnly(i, b)' /\ files'[i].data = << >>
      <4>1. Placed(i, b) /\ NamedOnly(i, b) /\ files[i].data = << >>
        BY <2>1, <3>5 DEF PlacementOK, FreshOK
      <4>2. KeptData(i)
        BY <2>2, <3>5
      <4> QED BY <4>1, <4>2, <2>3, PlacedKept, NamedOnlyKept DEF KeptData
    <3>7. Placed(active, LastBase)' /\ NamedOnly(active, LastBase)'
          /\ ActiveFile'.data = << >>
      BY <3>4, <3>5, <3>6 DEF Placed, NamedOnly, ActiveFile
    <3> QED BY <3>1, <3>3, <3>4, <3>7 DEF ActiveOK
  <2> QED BY <2>4, <2>5, <2>6, <2>7 DEF PlacementOK
<1>9. ASSUME WriteRecord PROVE PlacementOK'
  <2> USE <1>9 DEF WriteRecord, Writing
  <2>1. active \in Inodes /\ ActiveFile \in File /\ Opened
    BY ActiveType, WriterOpened
  <2>2. /\ ActiveFile.data \in Seq(Rec) /\ LastBase \in Nat /\ nextLSN \in Nat
        /\ nextLSN = LastBase + Len(ActiveFile.data)
        /\ Placed(active, LastBase) /\ NamedOnly(active, LastBase)
        /\ Ascending(index) /\ index[1] > 0
        /\ firstLSN # 0 => index[1] <= firstLSN
    BY <2>1, LastElement
    DEF PlacementOK, ActiveOK, File, LastBase, StepsOK, MemTypeOK
  <2>3. PICK a, b : a = active /\ b = LastBase
    OBVIOUS
  <2>4. files'[a].data = Append(files[a].data, NewRec)
        /\ \A i \in Inodes : i # a => KeptData(i)
    BY <1>0, <2>1, <2>3 DEF Appended, ActiveFile, KeptData, File
  <2>x. /\ Len(files[a].data) \in Nat /\ DOMAIN files[a].data = 1..Len(files[a].data)
        /\ Len(files'[a].data) = Len(files[a].data) + 1
        /\ DOMAIN files'[a].data = 1..(Len(files[a].data) + 1)
        /\ files'[a].data[Len(files[a].data) + 1] = NewRec
        /\ \A k \in 1..Len(files[a].data) : files'[a].data[k] = files[a].data[k]
    <3>1. files[a].data \in Seq(Rec) /\ NewRec \in Rec
      BY <2>2, <2>3, PayloadType DEF ActiveFile
    <3> QED BY <2>4, <3>1, AppendType
  <2>5. Placed(a, b)'
    <3>1. files[a].data \in Seq(Rec) /\ nextLSN = b + Len(files[a].data)
          /\ Placed(a, b) /\ b \in Nat /\ NewRec.lsn = nextLSN
      BY <2>2, <2>3 DEF ActiveFile, NewRec
    <3>2. \A k \in 1..Len(files[a].data) : files[a].data[k].lsn = b + k - 1
      BY <3>1, <2>x, <2>3, AppendType DEF Placed, ActiveFile
    <3>3. \A k \in 1..(Len(files[a].data) + 1) :
            files'[a].data[k].lsn = b + k - 1
      <4> SUFFICES ASSUME NEW k \in 1..(Len(files[a].data) + 1)
                   PROVE  files'[a].data[k].lsn = b + k - 1
        OBVIOUS
      <4>1. CASE k = Len(files[a].data) + 1
        BY <2>4, <2>x, <3>1, <4>1
      <4>2. CASE k # Len(files[a].data) + 1
        <5>1. k \in 1..Len(files[a].data)
          BY <2>x, <4>2
        <5> QED BY <2>4, <2>x, <3>2, <5>1
      <4> QED BY <4>1, <4>2
    <3> QED BY <2>4, <2>x, <3>3 DEF Placed
  <2>6. NamesFrom /\ NamedOnly(a, b)'
    BY <2>2, <2>3 DEF NamesFrom, NamedOnly
  <2>7. NamesOK'
    <3> SUFFICES ASSUME NEW d \in {dir', durableDir'}, NEW c \in DOMAIN d
                 PROVE  c > 0 /\ Placed(d[c], c)' /\ NamedOnly(d[c], c)'
      BY DEF NamesOK
    <3>1. d \in {dir, durableDir} /\ d[c] \in Inodes
      BY NamedType
    <3>2. PICK i : i = d[c]
      OBVIOUS
    <3>3. c > 0 /\ Placed(i, c) /\ NamedOnly(i, c)
      BY <3>1, <3>2 DEF PlacementOK, NamesOK
    <3>4. NamedOnly(i, c)'
      BY <2>6, <3>3, NamedOnlyKept
    <3>5. Placed(i, c)'
      <4>1. CASE i = a
        <5>1. c = b
          BY <2>2, <2>3, <3>1, <3>2, <4>1 DEF NamedOnly
        <5> QED BY <2>5, <4>1, <5>1
      <4>2. CASE i # a
        BY <2>4, <3>1, <3>2, <3>3, <4>2, PlacedKept
      <4> QED BY <4>1, <4>2
    <3> QED BY <3>2, <3>3, <3>4, <3>5
  <2>8. ActiveOK' /\ ClosedOK'
    <3>1. LastBase' = LastBase /\ active' = a
      BY <2>3 DEF LastBase
    <3>2. nextLSN' = LastBase' + Len(ActiveFile'.data)
      BY <2>2, <2>3, <2>x, <3>1 DEF ActiveFile
    <3>3. Placed(active, LastBase)' /\ NamedOnly(active, LastBase)'
      BY <2>3, <2>5, <2>6, <3>1 DEF Placed, NamedOnly
    <3>4. Opened' /\ index' = index /\ firstLSN' = firstLSN
      BY <2>1, OpenedIffNext
    <3>5. Ascending(index)' /\ index'[1] > 0 /\ (firstLSN' # 0 => index'[1] <= firstLSN')
      BY <2>2, <3>4 DEF Ascending
    <3> QED BY <3>2, <3>3, <3>4, <3>5 DEF ActiveOK, ClosedOK
  <2>9. FreshOK' /\ PlanOK' /\ SurvivorsOK'
    <3>1. ~HasFresh' /\ job'.kind = "none"
      BY DEF HasFresh, StepsOK, Kinds
    <3> QED BY <3>1 DEF FreshOK, PlanOK, SurvivorsOK
  <2> QED BY <2>7, <2>8, <2>9 DEF PlacementOK
<1> QED
  BY <1>1, <1>2, <1>3, <1>4, <1>5, <1>6, <1>7, <1>8, <1>9 DEF Commit

-----------------------------------------------------------------------------
(* Segment creation, Sync and deletions.                                   *)

\* Giving a file its name leaves every other file its own.
LEMMA NamedOnlyLinked ==
  ASSUME NEW base, NEW i, dir' = Link(dir, base, i), durableDir' = durableDir,
         NEW j, NEW b, NamedOnly(j, b), j # i \/ b = base
  PROVE  NamedOnly(j, b)'
BY DEF NamedOnly, Link

\* A new name is right if its file is in place.
LEMMA NamesLinked ==
  ASSUME NamesOK, NEW base \in Nat \ {0}, NEW i, dir' = Link(dir, base, i),
         durableDir' = durableDir, NamedOnly(i, base), Placed(i, base)',
         \A j \in Range(dir') \cup Range(durableDir') : j # i => KeptData(j)
  PROVE  NamesOK'
<1> SUFFICES ASSUME NEW d \in {dir', durableDir'}, NEW b \in DOMAIN d
             PROVE  b > 0 /\ Placed(d[b], b)' /\ NamedOnly(d[b], b)'
  BY DEF NamesOK
<1>1. PICK j : j = d[b]
  OBVIOUS
<1>2. CASE j = i
  <2>1. b = base
    BY <1>1, <1>2 DEF Link, NamedOnly
  <2>2. NamedOnly(i, base)'
    BY NamedOnlyLinked
  <2> QED BY <1>1, <1>2, <2>1, <2>2
<1>3. CASE j # i
  <2>1. b > 0 /\ Placed(j, b) /\ NamedOnly(j, b)
    BY <1>1, <1>3 DEF Link, NamesOK
  <2>2. KeptData(j)
    BY <1>1, <1>3 DEF Range
  <2>3. Placed(j, b)' /\ NamedOnly(j, b)'
    BY <1>3, <2>1, <2>2, PlacedKept, NamedOnlyLinked
  <2> QED BY <1>1, <2>1, <2>3
<1> QED BY <1>2, <1>3

\* A segment is created empty, under a name of its own.
LEMMA CreatePlacement ==
  ASSUME ControlOK, ControlOK', PlacementOK, Create
  PROVE  PlacementOK'
<1> USE DEF disk, mem, hist
<1>0. /\ files \in [Inodes -> File]
      /\ Live(dir, durableDir, active, fresh) \subseteq Inodes
  BY DEF DiskTypeOK, Live
<1>1. ASSUME CreateOpen PROVE PlacementOK'
  <2> USE <1>1 DEF CreateOpen
  <2>1. /\ job.kind \in {"init", "roll", "cutAll"} /\ job.base \in Nat \ {0}
        /\ HasFresh' /\ active' = active /\ job' = job /\ nextLSN' = nextLSN
    <3>1. job.kind \in {"init", "roll", "cutAll"} /\ HasFresh' /\ job.base \in Nat
      BY JobType DEF StepsOK, Kinds, HasFresh
    <3>2. job.base # 0
      BY <3>1, WriterOpened DEF PlacementOK, PlanOK, StepsOK
    <3> QED BY <3>1, <3>2
  <2>2. PICK i \in FreeInodes : /\ files' = [files EXCEPT ![i] = NewFile]
                                /\ dir' = Link(dir, job.base, i)
                                /\ fresh' = i
    OBVIOUS
  <2>3. /\ i \in Inodes /\ i # active /\ i \notin Range(dir) \cup Range(durableDir)
        /\ files'[i].data = << >> /\ \A j \in Inodes : j # i => KeptData(j)
    BY <1>0, <2>2, NewFileType DEF FreeInodes, Live, KeptData
  <2>4. PICK base : base = job.base
    OBVIOUS
  <2>5. NamedOnly(i, base) /\ Placed(i, base)'
    BY <2>3 DEF NamedOnly, Placed, Range
  <2>6. NamesOK'
    <3>1. \A j \in Range(dir') \cup Range(durableDir') : j # i => KeptData(j)
      BY <2>3 DEF DiskTypeOK
    <3> QED BY <2>1, <2>2, <2>4, <2>5, <3>1, NamesLinked DEF PlacementOK
  <2>7. ActiveOK' /\ ClosedOK'
    <3>1. ASSUME Opened PROVE ActiveOK'
      <4>1. PICK a, b : a = active /\ b = LastBase
        OBVIOUS
      <4>2. active \in Inodes /\ KeptData(a) /\ Placed(a, b) /\ NamedOnly(a, b) /\ a # i
        BY <2>3, <3>1, <4>1, OpenedIff DEF PlacementOK, ActiveOK
      <4>3. Placed(a, b)' /\ NamedOnly(a, b)'
        BY <2>2, <4>2, PlacedKept, NamedOnlyLinked
      <4>4. Placed(active, LastBase)' /\ NamedOnly(active, LastBase)'
            /\ LastBase' = LastBase /\ ActiveFile'.data = ActiveFile.data
        BY <4>1, <4>2, <4>3 DEF Placed, NamedOnly, LastBase, ActiveFile, KeptData
      <4> QED BY <3>1, <4>4 DEF PlacementOK, ActiveOK, Ascending
    <3> QED BY <3>1, OpenedIff, OpenedIffNext DEF PlacementOK, ActiveOK, ClosedOK
  <2>8. FreshOK'
    <3>1. NamedOnly(i, base)'
      BY <2>2, <2>4, <2>5, NamedOnlyLinked
    <3>2. Placed(fresh, job.base)' /\ NamedOnly(fresh, job.base)'
      BY <2>1, <2>2, <2>4, <2>5, <3>1 DEF Placed, NamedOnly
    <3> QED BY <2>1, <2>2, <2>3, <3>2 DEF FreshOK
  <2>9. PlanOK' /\ SurvivorsOK'
    BY PlanKept DEF PlacementOK
  <2> QED BY <2>6, <2>7, <2>8, <2>9 DEF PlacementOK
<1>2. ASSUME CreateFails, UNCHANGED <<disk, mem>> PROVE PlacementOK'
  <2>1. job' = NoJob /\ pc' \in {"closed", "idle", "write"} /\ fresh' = Nil
    BY <1>2 DEF CreateFails, RequestFails
  <2> QED
    BY <1>0, <1>2, <2>1, FramePlacement, NoPlan DEF NamesFrom, KeptData, HasFresh
<1>3. ASSUME CreateOpenFails \/ CreateHeaderFails \/ CreateSyncDirFails PROVE PlacementOK'
  BY <1>2, <1>3 DEF CreateOpenFails, CreateHeaderFails, CreateSyncDirFails
<1>4. ASSUME CreateHeader PROVE PlacementOK'
  <2> USE <1>4 DEF CreateHeader
  <2>1. \A i \in Inodes : KeptData(i)
    BY <1>0, FreshType DEF HasFresh, KeptData, File
  <2> QED
    BY <1>0, <2>1, FramePlacement, PlanKept DEF NamesFrom, PlacementOK
<1>5. ASSUME CreateSync PROVE PlacementOK'
  <2> USE <1>5 DEF CreateSync
  <2>1. \A i \in Inodes : KeptData(i)
    BY <1>0, FreshType, FsyncedType DEF HasFresh, KeptData
  <2> QED
    BY <1>0, <2>1, FramePlacement, PlanKept DEF NamesFrom, PlacementOK
<1>6. ASSUME CreateSyncDir PROVE PlacementOK'
  <2> USE <1>6 DEF CreateSyncDir
  <2>1. pc' \in {"installRoll", "remove", "installEmpty"}
    BY DEF StepsOK, Kinds
  <2>2. \A i \in Live(dir', durableDir', active, fresh) : KeptData(i)
    BY <1>0, CollectedKept DEF Live
  <2> QED
    BY <1>0, <2>1, <2>2, FramePlacement, PlanKept DEF NamesFrom, PlacementOK
<1> QED BY <1>1, <1>3, <1>4, <1>5, <1>6 DEF Create

\* An fsync moves no record.
LEMMA SyncActivePlacement ==
  ASSUME ControlOK, ControlOK', PlacementOK, SyncActive
  PROVE  PlacementOK'
<1> USE DEF SyncActive, mem
<1>1. active \in Inodes /\ ActiveFile \in File
  BY ActiveType, WriterOpened
<1>2. \A i \in Inodes : KeptData(i)
  BY <1>1, FsyncedType DEF KeptData, ActiveFile, Flushed, DiskTypeOK
<1>3. Live(dir', durableDir', active, fresh') \subseteq Inodes
  BY DEF DiskTypeOK, Live
<1> QED
  BY <1>2, <1>3, FramePlacement, PlanKept DEF NamesFrom, HasFresh, PlacementOK

\* What the last survivor of a recovery holds is not deleted.
LEMMA LastSurvivor ==
  ASSUME ControlOK, SurvivorsOK, pc = "prune", pc' = "prune", job'.idx = job.idx,
         LastCollected \in DOMAIN dir', dir'[LastCollected] = dir[LastCollected],
         KeptData(dir[LastCollected])
  PROVE  SurvivorsOK'
BY DEF SurvivorsOK, ScanRecords, OnDisk, LastCollected, KeptData

\* A deletion drops a name, never the last segment that survives a recovery.
LEMMA DeletePlacement ==
  ASSUME ControlOK, ControlOK', PlacementOK, Delete
  PROVE  PlacementOK'
<1> USE DEF mem, hist, Deleting
<1>1. ASSUME RemoveFile PROVE PlacementOK'
  <2> USE <1>1 DEF RemoveFile
  <2>1. /\ DOMAIN dir' = DOMAIN dir \ {Head(job.names)}
        /\ \A b \in DOMAIN dir' : dir'[b] = dir[b]
    BY UnlinkType DEF DiskTypeOK
  <2>2. NamesFrom
    BY <2>1 DEF NamesFrom
  <2>3. \A i \in Live(dir', durableDir', active, fresh) : KeptData(i)
    <3>1. Live(dir', durableDir', active, fresh) \subseteq Inodes
      BY DEF DiskTypeOK, Live
    <3> QED BY <3>1, CollectedKept
  <2>4. job' = [job EXCEPT !.unlinked = TRUE]
        /\ UNCHANGED <<job.kind, job.base, job.idx, job.names>>
    BY DEF ControlTypeOK
  <2>5. PlanOK' /\ SurvivorsOK'
    <3>1. PlanOK'
      BY <2>4 DEF PlacementOK, PlanOK, LastBase, CutsActive
    <3>2. CASE pc = "prune"
      <4>1. LastCollected \in Range(job.idx) /\ LastCollected \in DOMAIN dir
        BY <3>2, LastCollectedType DEF LastCollected, Range
      <4>2. Head(job.names) \in Range(job.names)
        BY JobType DEF Range
      <4>3. LastCollected # Head(job.names)
        BY <3>2, <4>1, <4>2 DEF RecoveryOK, PruneOK
      <4>4. LastCollected \in DOMAIN dir' /\ dir'[LastCollected] = dir[LastCollected]
        BY <2>1, <4>1, <4>3
      <4>5. KeptData(dir[LastCollected])
        BY <2>3, <4>4 DEF Live, Range
      <4> QED BY <2>4, <3>1, <3>2, <4>4, <4>5, LastSurvivor DEF PlacementOK
    <3>3. CASE pc # "prune"
      BY <3>1, <3>3 DEF SurvivorsOK
    <3> QED BY <3>1, <3>2, <3>3
  <2> QED BY <2>2, <2>3, <2>4, <2>5, FramePlacement
<1>2. ASSUME SyncRemoval PROVE PlacementOK'
  <2> USE <1>2 DEF SyncRemoval
  <2>1. NamesFrom
    BY DEF NamesFrom
  <2>2. \A i \in Live(dir', durableDir', active, fresh) : KeptData(i)
    <3>1. Live(dir', durableDir', active, fresh) \subseteq Inodes
      BY DEF DiskTypeOK, Live
    <3> QED BY <3>1, CollectedKept
  <2>3. UNCHANGED <<job.kind, job.base, job.idx>>
    BY DEF ControlTypeOK
  <2>4. PlanOK' /\ SurvivorsOK'
    <3>1. PlanOK'
      BY <2>3 DEF PlacementOK, PlanOK, LastBase, CutsActive
    <3>2. CASE pc = "prune"
      <4>1. LastCollected \in DOMAIN dir
        BY <3>2, LastCollectedType
      <4>2. KeptData(dir[LastCollected])
        BY <2>2, <4>1 DEF Live, Range
      <4> QED BY <2>3, <3>1, <3>2, <4>1, <4>2, LastSurvivor DEF PlacementOK
    <3>3. CASE pc # "prune"
      BY <3>1, <3>3 DEF SurvivorsOK
    <3> QED BY <3>1, <3>2, <3>3
  <2> QED BY <2>1, <2>2, <2>3, <2>4, FramePlacement
<1>3. ASSUME RemovalFails PROVE PlacementOK'
  <2> USE <1>3 DEF RemovalFails
  <2>1. NamesFrom
    BY DEF NamesFrom
  <2>2. \A i \in Live(dir', durableDir', active, fresh') : KeptData(i)
    <3>1. Live(dir', durableDir', active, fresh') \subseteq Inodes
      BY DEF DiskTypeOK, Live
    <3> QED BY <3>1, CollectedKept
  <2>3. PlanOK' /\ SurvivorsOK' /\ ~HasFresh'
    BY NoPlan DEF HasFresh
  <2> QED BY <2>1, <2>2, <2>3, FramePlacement
<1> QED BY <1>1, <1>2, <1>3 DEF Delete

-----------------------------------------------------------------------------
(* Stopping.                                                               *)

\* A prefix of what is in place is in place.
LEMMA PlacedPrefix ==
  ASSUME NEW i \in Inodes, NEW b, files[i] \in File, Placed(i, b),
         NEW keep \in 0..Len(files[i].data),
         files'[i].data = SubSeq(files[i].data, 1, keep)
  PROVE  Placed(i, b)'
<1>1. files[i].data \in Seq(Rec) /\ Len(files[i].data) \in Nat
      /\ DOMAIN files[i].data = 1..Len(files[i].data)
  BY DEF File
<1>2. \A k \in DOMAIN files'[i].data :
        k \in DOMAIN files[i].data /\ files'[i].data[k] = files[i].data[k]
  <2>1. /\ Len(SubSeq(files[i].data, 1, keep)) = keep
        /\ SubSeq(files[i].data, 1, keep) \in Seq(Rec)
        /\ \A k \in 1..keep : SubSeq(files[i].data, 1, keep)[k] = files[i].data[k]
    BY <1>1, SplitAt
  <2>2. DOMAIN SubSeq(files[i].data, 1, keep) = 1..keep
    BY <2>1
  <2> QED BY <1>1, <2>1, <2>2
<1> QED BY <1>2 DEF Placed

\* Without memory only the names matter.
LEMMA MemoryLostPlacement ==
  ASSUME ControlOK', MemoryLost, NamesOK'
  PROVE  PlacementOK'
<1>1. active' \notin Inodes /\ fresh' \notin Inodes
  BY DEF MemoryLost
<1>2. ActiveOK' /\ ClosedOK' /\ FreshOK'
  BY <1>1, OpenedIffNext DEF ActiveOK, ClosedOK, FreshOK, MemoryLost
<1>3. PlanOK' /\ SurvivorsOK'
  BY NoPlan DEF MemoryLost
<1> QED BY <1>2, <1>3 DEF PlacementOK

\* A crash keeps a prefix of every file, under a name the file had.
LEMMA StopPlacement ==
  ASSUME ControlOK, ControlOK', PlacementOK, Close \/ CloseUnflushed \/ Kill \/ PowerLoss
  PROVE  PlacementOK'
<1>1. MemoryLost
  BY DEF Close, CloseUnflushed, Kill, PowerLoss, Stop
<1>2. files \in [Inodes -> File]
  BY DEF DiskTypeOK
<1>3. ASSUME UNCHANGED <<dir, durableDir>>,
             \A i \in Live(dir, durableDir, Nil, Nil) : KeptData(i)
      PROVE  NamesOK'
  <2>1. NamesFrom
    BY <1>3 DEF NamesFrom
  <2> QED BY <1>3, <2>1, NamesKept DEF Live, PlacementOK
<1>4. ASSUME Close PROVE NamesOK'
  <2>1. \A i \in Live(dir, durableDir, Nil, Nil) : i \in Inodes
    BY DEF Live, DiskTypeOK
  <2>2. \A i \in Live(dir, durableDir, Nil, Nil) : KeptData(i)
    BY <1>2, <1>4, <2>1, FsyncedType DEF Close, KeptData
  <2> QED BY <1>3, <1>4, <2>2 DEF Close
<1>5. ASSUME CloseUnflushed \/ Kill PROVE NamesOK'
  <2>1. \A i \in Live(dir, durableDir, Nil, Nil) : i \in Inodes
    BY DEF Live, DiskTypeOK
  <2>2. files' = Collected(files, Live(dir, durableDir, Nil, Nil))
    BY <1>5 DEF CloseUnflushed, Kill
  <2>3. \A i \in Live(dir, durableDir, Nil, Nil) : KeptData(i)
    BY <2>1, <2>2, CollectedKept
  <2> QED BY <1>3, <1>5, <2>3 DEF CloseUnflushed, Kill
<1>6. ASSUME PowerLoss PROVE NamesOK'
  <2>1. durableDir' = dir' /\ NamesFrom
    BY <1>6, PowerLossDir DEF PowerLoss, NamesFrom
  <2>2. PICK keep \in [Unsynced -> 0..MaxLSN], torn \in [Unsynced -> BOOLEAN] :
          /\ \A i \in Unsynced : MaySurvive(files[i], keep[i], torn[i])
          /\ files' = [i \in Inodes |->
               CASE i \notin Range(dir') -> NewFile
                 [] i \in Range(dir') \cap Unsynced ->
                      AfterPowerLoss(files[i], keep[i], torn[i])
                 [] OTHER -> files[i]]
    BY <1>6 DEF PowerLoss
  <2>3. ASSUME NEW i \in Range(dir'), NEW b, Placed(i, b) PROVE Placed(i, b)'
    <3>1. i \in Inodes /\ files[i] \in File
      BY <1>2 DEF DiskTypeOK
    <3>2. CASE i \in Unsynced
      <4>1. files'[i] = AfterPowerLoss(files[i], keep[i], torn[i])
        BY <2>2, <3>1, <3>2
      <4>2. torn[i] \in BOOLEAN /\ MaySurvive(files[i], keep[i], torn[i])
        BY <2>2, <3>2
      <4>3. /\ files'[i].data = SubSeq(files[i].data, 1, keep[i])
            /\ keep[i] \in 0..Len(files[i].data)
        BY <3>1, <4>1, <4>2, AfterPowerLossType
      <4> QED BY <2>3, <3>1, <4>3, PlacedPrefix
    <3>3. CASE i \notin Unsynced
      BY <2>2, <2>3, <3>1, <3>3, PlacedKept DEF KeptData
    <3> QED BY <3>2, <3>3
  <2> SUFFICES ASSUME NEW d \in {dir', durableDir'}, NEW b \in DOMAIN d
               PROVE  b > 0 /\ Placed(d[b], b)' /\ NamedOnly(d[b], b)'
    BY DEF NamesOK
  <2>4. PICK i \in Range(dir') : i = d[b]
    BY <2>1 DEF Range
  <2>5. b > 0 /\ Placed(i, b) /\ NamedOnly(i, b)
    BY <2>1, <2>4 DEF NamesFrom, NamesOK, PlacementOK
  <2> QED BY <2>1, <2>3, <2>4, <2>5, NamedOnlyKept
<1> QED BY <1>1, <1>4, <1>5, <1>6, MemoryLostPlacement

-----------------------------------------------------------------------------
(* Recovery.                                                               *)

\* Until it installs a state, recovery only reads, prunes and truncates.
LEMMA ReadingPlacement ==
  ASSUME ControlOK, ControlOK', PlacementOK, UNCHANGED <<dir, durableDir, mem, fresh>>,
         pc \in {"closed", "scan", "reconcile", "prune"},
         \A i \in Inodes : KeptData(i),
         PlanOK', SurvivorsOK'
  PROVE  PlacementOK'
<1>1. Live(dir', durableDir', active, fresh') \subseteq Inodes
  BY DEF DiskTypeOK, Live
<1>2. ~HasFresh'
  BY OpenedIff, OpenedIffNext DEF HasFresh
<1> QED BY <1>1, <1>2, FramePlacement DEF NamesFrom, mem

\* The segments that survive end with a record, unless one is left.
LEMMA TruncatePlacement ==
  ASSUME ControlOK, ControlOK', PlacementOK, TruncateTornTail
  PROVE  PlacementOK'
<1> USE DEF TruncateTornTail
<1>1. \A i \in Inodes : KeptData(i)
  <2>1. dir[LastCollected] \in Inodes /\ OnDisk(LastCollected) \in File
    BY LastCollectedType, NamedType DEF OnDisk
  <2>2. TruncatedToValidEnd(OnDisk(LastCollected)).data = OnDisk(LastCollected).data
    BY <2>1, TruncatedType
  <2> QED BY <2>1, <2>2 DEF KeptData, OnDisk, DiskTypeOK
<1>2. job' = [job EXCEPT !.names = Prunable, !.idx = Survivors] /\ job'.kind = "recover"
      /\ job'.idx = Survivors
  BY DEF StepsOK, Kinds, ControlTypeOK
<1>3. PlanOK'
  BY <1>2 DEF PlanOK
<1>4. SurvivorsOK'
  <2>1. CASE WithRecords = {}
    BY <1>2, <2>1, SurvivorsType DEF SurvivorsOK
  <2>2. CASE WithRecords # {}
    <3>1. job.idx # << >>
      BY LastCollectedType
    <3>2. /\ ActiveIdx \in WithRecords /\ ActiveIdx \in DOMAIN job.idx
          /\ Survivors[Len(Survivors)] = job.idx[ActiveIdx]
      BY <2>2, <3>1, ActiveIdxType, SurvivorsType
    <3>3. job.idx[ActiveIdx] \in DOMAIN dir
          /\ ScanRecords(OnDisk(job.idx[ActiveIdx])) > 0
      BY <3>2, CollectedSegments DEF WithRecords
    <3>4. KeptData(dir[job.idx[ActiveIdx]])
      BY <1>1, <3>3, NamedType
    <3>5. LastCollected' = job.idx[ActiveIdx]
      BY <1>2, <3>2 DEF LastCollected
    <3> QED BY <3>3, <3>4, <3>5 DEF SurvivorsOK, ScanRecords, OnDisk, KeptData
  <2> QED BY <2>1, <2>2
<1> QED BY <1>1, <1>3, <1>4, ReadingPlacement DEF mem

\* The next LSN recovery derives is the one after the last record.
LEMMA NextInstalledRight ==
  ASSUME ControlOK, PlacementOK, pc = "prune"
  PROVE  /\ LastCollected \in DOMAIN dir /\ LastCollected \in Nat \ {0}
         /\ NextInstalled = LastCollected + Len(OnDisk(LastCollected).data)
         /\ FirstRecovered # 0 => job.idx[1] <= FirstRecovered
<1> DEFINE n == Len(job.idx)
           f == OnDisk(LastCollected)
<1>1. /\ job.idx # << >> /\ n \in Nat /\ DOMAIN job.idx = 1..n /\ n > 0
      /\ WithRecords \in SUBSET (1..n) /\ LastCollected = job.idx[n]
      /\ LastCollected \in DOMAIN dir /\ f \in File
      /\ \A k \in 1..n : job.idx[k] \in Nat
  BY LastCollectedType, ActiveIdxType, CollectedSegments, JobType, LastElement
  DEF LastCollected
<1>2. LastCollected \in Nat \ {0} /\ Placed(dir[LastCollected], LastCollected)
  BY <1>1 DEF PlacementOK, NamesOK
<1>3. Len(f.data) \in Nat /\ DOMAIN f.data = 1..Len(f.data) /\ f.data \in Seq(Rec)
      /\ f.data # << >> <=> Len(f.data) > 0
  BY <1>1, LastElement DEF File
<1>4. CASE WithRecords = {}
  <2>1. Len(f.data) = 0
    BY <1>1, <1>3, <1>4 DEF WithRecords, ScanRecords
  <2> QED
    BY <1>1, <1>2, <1>4, <2>1 DEF NextInstalled, LastRecovered, FirstRecovered, MaxOf
<1>5. CASE WithRecords # {}
  <2>1. n \in WithRecords
    BY <1>1, <1>5 DEF PlacementOK, SurvivorsOK, WithRecords
  <2>2. Max(WithRecords) = n
    <3>1. Max(WithRecords) \in WithRecords /\ n <= Max(WithRecords)
      BY <1>1, <2>1, MaxOfInterval
    <3> QED BY <1>1, <3>1
  <2>3. LastRecovered = LastCollected + Len(f.data) - 1 /\ Len(f.data) > 0
    <3>1. Len(f.data) > 0
      BY <1>1, <2>1 DEF WithRecords, ScanRecords
    <3>2. f.data[Len(f.data)].lsn = LastCollected + Len(f.data) - 1
      BY <1>2, <1>3, <3>1 DEF Placed, OnDisk
    <3> QED BY <1>1, <1>3, <1>5, <2>2, <3>1, <3>2 DEF LastRecovered, ScanLastLSN
  <2>4. NextInstalled = LastCollected + Len(f.data)
    BY <1>2, <1>3, <2>3 DEF NextInstalled, MaxOf
  <2>5. job.idx[1] <= FirstRecovered
    <3>1. Min(WithRecords) \in 1..n
      <4>1. WithRecords \in SUBSET Nat
        BY <1>1
      <4> QED BY <1>1, <1>5, <4>1, MinOfNaturals
    <3>2. Ascending(job.idx)
      BY DEF RecoveryOK, PruneOK
    <3>3. PICK m \in 1..n : m = Min(WithRecords)
      BY <3>1
    <3>4. job.idx[1] <= job.idx[m]
      <4>1. CASE m = 1
        BY <1>1, <4>1
      <4>2. CASE 1 < m
        BY <1>1, <3>2, <4>2 DEF Ascending
      <4> QED BY <1>1, <4>1, <4>2
    <3> QED BY <1>5, <3>3, <3>4 DEF FirstRecovered
  <2> QED BY <1>1, <1>2, <2>4, <2>5
<1> QED BY <1>4, <1>5

\* Recovery derives the next LSN from the last segment.
LEMMA RecoverPlacement ==
  ASSUME ControlOK, ControlOK', PlacementOK, Recover
  PROVE  PlacementOK'
<1> USE DEF disk, mem, hist
<1>1. ASSUME OpenDir PROVE PlacementOK'
  <2> USE <1>1 DEF OpenDir, Closed
  <2>1. PlanOK' /\ SurvivorsOK'
    BY DEF PlanOK, SurvivorsOK, NoJob
  <2>2. \A i \in Live(dir', durableDir', active, fresh') : KeptData(i)
    <3>1. Live(dir', durableDir', active, fresh') \subseteq Inodes
      BY DEF DiskTypeOK, Live
    <3> QED BY <3>1, CollectedKept
  <2>3. ~HasFresh'
    BY OpenedIff, OpenedIffNext DEF HasFresh
  <2> QED BY <2>1, <2>2, <2>3, FramePlacement DEF NamesFrom
<1>2. ASSUME InstallEmpty PROVE PlacementOK'
  <2> USE <1>2 DEF InstallEmpty
  <2>1. HasFresh /\ ~Opened /\ job.kind = "init" /\ job.base = 1
    BY DEF HasFresh, StepsOK, Kinds, Opened, PlacementOK, PlanOK
  <2>2. NamesFrom /\ \A i : KeptData(i)
    BY DEF NamesFrom, KeptData
  <2>3. NamesOK'
    BY <2>2, NamesKept DEF PlacementOK
  <2>4. ActiveOK' /\ ClosedOK' /\ FreshOK'
    <3>1. PICK i, b : i = fresh /\ b = job.base
      OBVIOUS
    <3>2. Placed(i, b) /\ NamedOnly(i, b) /\ files[i].data = << >>
      BY <2>1, <3>1 DEF PlacementOK, FreshOK
    <3>3. Placed(i, b)' /\ NamedOnly(i, b)'
      BY <2>2, <3>2, PlacedKept, NamedOnlyKept
    <3>4. LastBase' = 1
      BY DEF LastBase
    <3>5. Placed(active, LastBase)' /\ NamedOnly(active, LastBase)'
          /\ ActiveFile'.data = << >>
      BY <2>1, <3>1, <3>2, <3>3, <3>4 DEF Placed, NamedOnly, ActiveFile
    <3>6. firstLSN' = 0
      BY <2>1 DEF PlacementOK, ClosedOK
    <3>7. fresh' \notin Inodes
      OBVIOUS
    <3>8. Ascending(index)'
      BY DEF Ascending
    <3> QED
      BY <3>4, <3>5, <3>6, <3>7, <3>8, OpenedIffNext DEF ActiveOK, ClosedOK, FreshOK
  <2>5. PlanOK' /\ SurvivorsOK'
    BY NoPlan
  <2> QED BY <2>3, <2>4, <2>5 DEF PlacementOK
<1>3. ASSUME ScanSegment PROVE PlacementOK'
  <2> USE <1>3 DEF ScanSegment, Scanning
  <2>1. job'.kind = "recover"
    BY DEF StepsOK, Kinds
  <2>2. PlanOK' /\ SurvivorsOK'
    BY <2>1 DEF PlanOK, SurvivorsOK
  <2> QED BY <2>2, ReadingPlacement DEF KeptData
<1>4. ASSUME OpenCorrupt PROVE PlacementOK'
  <2> USE <1>4 DEF OpenCorrupt, Scanning, OpenFails
  <2>1. PlanOK' /\ SurvivorsOK'
    BY NoPlan
  <2> QED BY <2>1, ReadingPlacement DEF KeptData
<1>5. ASSUME Reconcile PROVE PlacementOK'
  <2> USE <1>5 DEF Reconcile, Scanning
  <2>1. job'.kind = "recover"
    BY DEF StepsOK, Kinds
  <2>2. PlanOK' /\ SurvivorsOK'
    BY <2>1 DEF PlanOK, SurvivorsOK
  <2> QED BY <2>2, ReadingPlacement DEF KeptData
<1>6. ASSUME Reconciled PROVE PlacementOK'
  <2> USE <1>6 DEF Reconciled
  <2>1. PlanOK' /\ SurvivorsOK'
    BY PlanKept DEF PlacementOK
  <2> QED BY <2>1, ReadingPlacement DEF KeptData
<1>7. ASSUME TruncateTornTailFails PROVE PlacementOK'
  <2> USE <1>7 DEF TruncateTornTailFails, OpenFails
  <2>1. dir[LastCollected] \in Inodes /\ OnDisk(LastCollected) \in File
    BY LastCollectedType, NamedType DEF OnDisk
  <2>2. \A i \in Inodes : KeptData(i)
    <3>1. PICK j \in Inodes : j = dir[LastCollected]
      BY <2>1
    <3>2. files \in [Inodes -> File] /\ [files[j] EXCEPT !.junk = 0].data = files[j].data
      BY DEF DiskTypeOK, File
    <3>3. files' = files \/ files' = [files EXCEPT ![j] = [files[j] EXCEPT !.junk = 0]]
      BY <3>1
    <3> QED BY <3>2, <3>3 DEF KeptData
  <2>3. PlanOK' /\ SurvivorsOK'
    BY NoPlan
  <2> QED BY <2>2, <2>3, ReadingPlacement
<1>8. ASSUME InstallState PROVE PlacementOK'
  <2> USE <1>8 DEF InstallState
  <2>1. /\ LastCollected \in DOMAIN dir /\ LastCollected \in Nat \ {0}
        /\ NextInstalled = LastCollected + Len(OnDisk(LastCollected).data)
        /\ FirstRecovered # 0 => job.idx[1] <= FirstRecovered
    BY NextInstalledRight
  <2>2. NamesFrom /\ \A i : KeptData(i)
    BY DEF NamesFrom, KeptData
  <2>3. NamesOK'
    BY <2>2, NamesKept DEF PlacementOK
  <2>4. FreshOK'
    BY OpenedIff, OpenedIffNext DEF HasFresh, FreshOK
  <2>5. ActiveOK' /\ ClosedOK'
    <3>1. PICK i, b : i = dir[LastCollected] /\ b = LastCollected
      OBVIOUS
    <3>2. Placed(i, b) /\ NamedOnly(i, b)
      BY <2>1, <3>1 DEF PlacementOK, NamesOK
    <3>3. Placed(i, b)' /\ NamedOnly(i, b)'
      BY <2>2, <3>2, PlacedKept, NamedOnlyKept
    <3>4. LastBase' = b /\ active' = i
      BY <3>1 DEF LastBase, LastCollected
    <3>5. Placed(active, LastBase)' /\ NamedOnly(active, LastBase)'
      BY <3>3, <3>4 DEF Placed, NamedOnly
    <3>6. nextLSN' = LastBase' + Len(ActiveFile'.data)
      BY <2>1, <3>1, <3>4 DEF ActiveFile, OnDisk
    <3>7. Ascending(index)' /\ index'[1] > 0
      <4>1. Ascending(job.idx) /\ job.idx # << >> /\ Range(job.idx) \subseteq DOMAIN dir
        BY DEF RecoveryOK, PruneOK
      <4>2. job.idx[1] \in DOMAIN dir
        BY <4>1, JobType, LastElement DEF Range
      <4> QED BY <4>1, <4>2 DEF Ascending, PlacementOK, NamesOK
    <3>8. Opened'
      BY <3>1, <3>4, <2>1, NamedType, OpenedIffNext
    <3> QED BY <2>1, <3>5, <3>6, <3>7, <3>8 DEF ActiveOK, ClosedOK
  <2>6. PlanOK' /\ SurvivorsOK'
    BY NoPlan
  <2> QED BY <2>3, <2>4, <2>5, <2>6 DEF PlacementOK
<1> QED
  BY <1>1, <1>2, <1>3, <1>4, <1>5, <1>6, <1>7, <1>8, TruncatePlacement DEF Recover

-----------------------------------------------------------------------------
(* Truncate and CutOffset.                                                 *)

\* What an open log has in memory.
LEMMA OpenedState ==
  ASSUME ControlOK, PlacementOK, Opened
  PROVE  /\ index \in Seq(Nat) /\ index # << >> /\ Ascending(index) /\ index[1] > 0
         /\ Len(index) \in Nat /\ DOMAIN index = 1..Len(index) /\ Len(index) > 0
         /\ \A k \in DOMAIN index : index[k] \in Nat
         /\ nextLSN \in Nat \ {0} /\ firstLSN \in Nat
         /\ firstLSN # 0 => index[1] <= firstLSN
BY LastElement DEF StepsOK, MemTypeOK, PlacementOK, ActiveOK

\* An operation that starts only makes a plan.
LEMMA StartDropPlacement ==
  ASSUME ControlOK, ControlOK', PlacementOK, pc = "idle", NEW upTo, NEW newJob, NEW step,
         StartDrop(upTo, newJob, step), PlanOK', step \in {"remove", "rewrite", "clearLeftover"}
  PROVE  PlacementOK'
<1> USE DEF StartDrop, disk, mem
<1>1. Live(dir', durableDir', active, fresh') \subseteq Inodes
  BY DEF DiskTypeOK, Live
<1>2. ~HasFresh'
  BY OpenedIff, OpenedIffNext DEF HasFresh
<1>3. SurvivorsOK'
  BY DEF SurvivorsOK
<1> QED BY <1>1, <1>2, <1>3, FramePlacement DEF NamesFrom, KeptData

\* An operation that fails drops its replacement and keeps the log as it is.
LEMMA JobFailsPlacement ==
  ASSUME ControlOK, ControlOK', PlacementOK, JobFails,
         UNCHANGED <<dir, durableDir, mem>>,
         files' = files \/ files' = Collected(files, Live(dir, durableDir, active, Nil))
  PROVE  PlacementOK'
<1> USE DEF JobFails, mem
<1>1. \A i \in Live(dir', durableDir', active, fresh') : KeptData(i)
  <2>1. Live(dir, durableDir, active, Nil) \subseteq Inodes
    BY DEF DiskTypeOK, Live
  <2>2. CASE files' = files
    BY <2>2 DEF KeptData
  <2>3. CASE files' = Collected(files, Live(dir, durableDir, active, Nil))
    BY <2>1, <2>3, CollectedKept
  <2> QED BY <2>2, <2>3
<1>2. PlanOK' /\ SurvivorsOK' /\ ~HasFresh'
  BY NoPlan DEF HasFresh
<1> QED BY <1>1, <1>2, FramePlacement DEF NamesFrom

\* A truncation plans to keep the end of the index.
LEMMA TruncatePlan ==
  ASSUME ControlOK, PlacementOK, NEW upTo, Truncate(upTo)
  PROVE  PlanOK'
<1> DEFINE d == Deletable(index, upTo)
           idx == SubSeq(index, d + 1, Len(index))
<1>1. /\ job' = [NoJob EXCEPT !.kind = "truncate", !.names = DeletedByTruncate(d),
                              !.idx = idx]
      /\ pc' = "remove" /\ index' = index /\ Opened
  BY WriterOpened DEF Truncate, StartDrop, mem
<1>2. d \in Nat /\ d < Len(index)
  BY <1>1, OpenedState, DeletableType
<1> HIDE DEF d
<1>3. Ascending(idx) /\ idx # << >> /\ idx[1] = index[d + 1] /\ idx[Len(idx)] = LastBase
  BY <1>1, <1>2, OpenedState, SuffixAscending DEF LastBase
<1>4. index[d + 1] > 0
  <2>1. d + 1 = 1 \/ (1 < d + 1 /\ d + 1 \in DOMAIN index)
    BY <1>1, <1>2, OpenedState
  <2> QED BY <1>1, <2>1, OpenedState DEF Ascending
<1> HIDE DEF idx
<1>5. job'.kind = "truncate" /\ job'.idx = idx
  BY <1>1 DEF NoJob
<1> QED BY <1>1, <1>3, <1>4, <1>5 DEF PlanOK, LastBase

\* A cut plans to put its own segment in front of those above it.
LEMMA CutInsidePlan ==
  ASSUME ControlOK, PlacementOK, NEW upTo \in Nat, CutInside(upTo)
  PROVE  PlanOK'
<1> DEFINE cut == Reach(upTo)
           b == Boundary(index, cut)
           above == SubSeq(index, b + 1, Len(index))
           idx == <<cut>> \o above
<1>1. /\ pc' \in {"remove", "rewrite"} /\ index' = index /\ nextLSN' = nextLSN
      /\ \/ /\ index[b] = cut /\ pc' = "remove"
            /\ job' = [NoJob EXCEPT !.kind = "cutBelow", !.base = cut,
                         !.names = SubSeq(index, 1, b - 1), !.idx = idx]
         \/ /\ index[b] # cut
            /\ job' = [NoJob EXCEPT !.kind = "cutRewrite", !.base = cut,
                         !.names = SubSeq(index, 1, b), !.idx = idx]
  BY DEF CutInside, StartDrop, mem
<1>2. Opened /\ cut < nextLSN /\ firstLSN # 0 /\ firstLSN < cut /\ cut \in Nat
      /\ cut > 0
  <2>1. Opened /\ cut < nextLSN /\ ~CutNothing(cut)
    BY WriterOpened DEF CutInside
  <2>2. cut \in Nat
    BY <2>1, OpenedState DEF Reach, MinOf
  <2> QED BY <2>1, <2>2, OpenedState DEF CutNothing
<1> HIDE DEF cut
<1>3. index[1] <= cut
  BY <1>2, OpenedState
<1>4. /\ b \in 1..Len(index) /\ b \in Nat /\ Len(index) \in Nat /\ index[b] <= cut
      /\ \A k \in DOMAIN index : k > b => cut < index[k]
  BY <1>2, <1>3, OpenedState, BoundaryRight
<1> HIDE DEF b
<1>a. b < Len(index) \/ b = Len(index)
  BY <1>4
<1>5. Ascending(idx) /\ idx[1] = cut /\ Len(idx) = Len(above) + 1
      /\ (b < Len(index) => idx[Len(idx)] = LastBase /\ Len(idx) # 1)
      /\ (b = Len(index) => Len(idx) = 1)
  <2>1. CASE b < Len(index)
    <3>1. /\ above \in Seq(Nat) /\ above # << >> /\ Ascending(above)
          /\ above[Len(above)] = LastBase /\ Len(above) = Len(index) - b
          /\ above[1] = index[b + 1] /\ \A k \in DOMAIN above : index[b + 1] <= above[k]
      <4>1. b \in Nat /\ b < Len(index) /\ index \in Seq(Nat) /\ Ascending(index)
        BY <1>2, <1>4, <2>1, OpenedState
      <4>2. Len(above) = Len(index) - b
        BY <4>1, SplitAt
      <4> QED BY <4>1, <4>2, SuffixAscending DEF LastBase
    <3>2. cut < index[b + 1] /\ index[b + 1] \in Nat
      BY <1>2, <1>4, <2>1, OpenedState, SMTT(30)
    <3> HIDE DEF above
    <3>3. \A k \in DOMAIN above : cut < above[k] /\ above[k] \in Nat
      BY <1>2, <3>1, <3>2
    <3>4. /\ Ascending(idx) /\ idx[1] = cut /\ Len(idx) = Len(above) + 1
          /\ idx[Len(idx)] = above[Len(above)]
      BY <1>2, <3>1, <3>3, PrependAscending
    <3>5. Len(above) # 0
      BY <1>4, <2>1, <3>1
    <3> HIDE DEF idx
    <3> QED BY <2>1, <3>1, <3>4, <3>5
  <2>2. CASE b = Len(index)
    <3>1. above \in Seq(Nat) /\ Len(above) = 0
      BY <1>2, <1>4, <2>2, OpenedState, SplitAt
    <3> HIDE DEF above
    <3>2. Ascending(above) /\ \A k \in DOMAIN above : cut < above[k]
      BY <3>1 DEF Ascending
    <3>3. Ascending(idx) /\ idx[1] = cut /\ Len(idx) = Len(above) + 1
      BY <1>2, <3>1, <3>2, PrependAscending
    <3> QED BY <1>4, <2>2, <3>1, <3>3
  <2> QED BY <1>a, <2>1, <2>2
<1> HIDE DEF idx, above
<1>6. CASE index[b] = cut
  <2>1. job'.kind = "cutBelow" /\ job'.base = cut /\ job'.idx = idx /\ pc' = "remove"
    BY <1>1, <1>6 DEF NoJob
  <2>2. idx[Len(idx)] = LastBase
    BY <1>4, <1>5, <1>6 DEF LastBase
  <2> QED BY <1>1, <1>2, <1>5, <2>1, <2>2 DEF PlanOK, LastBase
<1>7. CASE index[b] # cut
  <2>1. /\ job'.kind = "cutRewrite" /\ job'.base = cut /\ job'.idx = idx
        /\ job'.names = SubSeq(index, 1, b)
    BY <1>1, <1>7 DEF NoJob
  <2>2. SubSeq(index, 1, b) # << >> /\ OldBoundary' = index[b] /\ index[b] < cut
    <3>1. SubSeq(index, 1, b)[b] = index[b] /\ Len(SubSeq(index, 1, b)) = b
      BY <1>2, <1>4, OpenedState, SplitAt
    <3>2. SubSeq(index, 1, b) # << >>
      BY <1>4, <3>1
    <3>3. index[b] < cut
      BY <1>2, <1>4, <1>7, OpenedState
    <3> QED BY <2>1, <3>1, <3>2, <3>3 DEF OldBoundary
  <2>3. CutsActive' => b = Len(index)
    BY <1>a, <1>5, <2>1 DEF CutsActive
  <2>4. idx[Len(idx)] = LastBase \/ CutsActive'
    BY <1>a, <1>5, <2>1 DEF CutsActive
  <2> QED BY <1>1, <1>2, <1>5, <2>1, <2>2, <2>3, <2>4 DEF PlanOK, LastBase
<1> QED BY <1>6, <1>7

\* The segment that survives a cut holds what the boundary segment held from
\* the cut on.
LEMMA RewriteTempPlacement ==
  ASSUME ControlOK, ControlOK', PlacementOK, RewriteTemp
  PROVE  PlacementOK'
<1> USE DEF RewriteTemp, mem
<1>1. /\ Opened /\ ~HasFresh /\ HasFresh' /\ job.kind = "cutRewrite" /\ job' = job
      /\ files \in [Inodes -> File] /\ job.base \in Nat
  BY WriterOpened, JobType DEF StepsOK, Kinds, HasFresh, DiskTypeOK
<1>2. PICK i \in FreeInodes : /\ files' = [files EXCEPT ![i] = Rewritten(Source, job.base)]
                              /\ fresh' = i
  OBVIOUS
<1>3. /\ i \in Inodes /\ i # active /\ i \notin Range(dir) \cup Range(durableDir)
      /\ files'[i] = Rewritten(Source, job.base)
      /\ \A j \in Inodes : j # i => KeptData(j)
  BY <1>1, <1>2 DEF FreeInodes, Live, KeptData
<1>4. NamesFrom /\ NamedOnly(i, job.base)
  BY <1>3 DEF NamesFrom, NamedOnly, Range
<1>5. NamesOK'
  <2>1. \A j \in Range(dir') \cup Range(durableDir') : KeptData(j)
    BY <1>3 DEF DiskTypeOK
  <2> QED BY <1>4, <2>1, NamesKept DEF PlacementOK
<1>6. ActiveOK' /\ ClosedOK'
  <2>1. active \in Inodes => KeptData(active)
    BY <1>3
  <2> QED BY <1>4, <2>1, ActiveKept DEF PlacementOK
<1>7. PlanOK' /\ SurvivorsOK'
  BY PlanKept DEF PlacementOK
<1>8. /\ job.names # << >> /\ OldBoundary < job.base /\ OldBoundary \in Nat
      /\ CutsActive => OldBoundary = LastBase /\ job.base < nextLSN
      /\ Source \in File /\ Placed(i, job.base)'
      /\ CutsActive => nextLSN = job.base + Len(files'[i].data)
  <2>1. /\ job.names # << >> /\ OldBoundary < job.base
        /\ CutsActive => OldBoundary = LastBase /\ job.base < nextLSN
    BY DEF PlacementOK, PlanOK
  <2>2. OldBoundary \in Nat
    BY <2>1, JobType, LastElement DEF OldBoundary
  <2>3. Source \in File
    BY <1>1, ActiveType, NamedType DEF Source, SourceReadable
  <2>4. \A k \in DOMAIN Source.data : Source.data[k].lsn = OldBoundary + k - 1
    <3>1. CASE CutsActive
      BY <1>1, <2>1, <3>1 DEF Source, PlacementOK, ActiveOK, Placed, ActiveFile
    <3>2. CASE ~CutsActive
      BY <3>2 DEF Source, SourceReadable, PlacementOK, NamesOK, Placed
    <3> QED BY <3>1, <3>2
  <2>5. PICK g, old : g = Rewritten(Source, job.base) /\ old = OldBoundary
    OBVIOUS
  <2>6. /\ \A k \in DOMAIN g.data : g.data[k].lsn = job.base + k - 1
        /\ job.base < old + Len(Source.data) =>
             Len(g.data) = old + Len(Source.data) - job.base
    BY <1>1, <2>1, <2>2, <2>3, <2>4, <2>5, RewrittenInPlace
  <2>7. Placed(i, job.base)'
    BY <1>3, <2>5, <2>6 DEF Placed
  <2>8. CutsActive => nextLSN = job.base + Len(files'[i].data)
    <3> SUFFICES ASSUME CutsActive PROVE nextLSN = job.base + Len(g.data)
      BY <1>3, <2>5
    <3>1. nextLSN = old + Len(Source.data) /\ job.base < nextLSN
      BY <1>1, <2>1, <2>5 DEF Source, PlacementOK, ActiveOK
    <3>2. Len(Source.data) \in Nat
      BY <2>3 DEF File
    <3> QED BY <1>1, <2>2, <2>5, <2>6, <3>1, <3>2
  <2> QED BY <2>1, <2>2, <2>3, <2>7, <2>8
<1>9. FreshOK'
  <2>1. NamedOnly(fresh, job.base)' /\ Placed(fresh, job.base)'
    BY <1>1, <1>2, <1>4, <1>8 DEF NamedOnly, Placed
  <2>2. job'.kind = "cutRewrite" /\ nextLSN' = nextLSN /\ CutsActive' = CutsActive
    BY <1>1 DEF CutsActive
  <2>3. fresh' # active'
    BY <1>2, <1>3
  <2> QED BY <1>1, <1>2, <1>8, <2>1, <2>2, <2>3 DEF FreshOK
<1> QED BY <1>5, <1>6, <1>7, <1>9 DEF PlacementOK

\* The rename gives it the name of the cut.
LEMMA PublishPlacement ==
  ASSUME ControlOK, ControlOK', PlacementOK, PublishRewrite \/ PublishSync
  PROVE  PlacementOK'
<1> USE DEF mem
<1>1. /\ Opened /\ HasFresh /\ fresh \in Inodes /\ job.base \in Nat /\ job' = job
      /\ job.kind = "cutRewrite" /\ fresh' = fresh
  BY WriterOpened, JobType, OpenedIff
  DEF StepsOK, Kinds, HasFresh, PublishRewrite, PublishSync
<1>2. PlanOK' /\ SurvivorsOK'
  BY PlanKept DEF PlacementOK, PublishRewrite, PublishSync
<1>3. \A i \in Live(dir', durableDir', active, fresh) : KeptData(i)
  <2>1. Live(dir', durableDir', active, fresh) \subseteq Inodes
    BY DEF DiskTypeOK, Live
  <2> QED BY <2>1, CollectedKept DEF PublishRewrite, PublishSync
<1>4. CASE PublishSync
  <2>1. NamesFrom
    BY <1>4 DEF PublishSync, NamesFrom
  <2> QED BY <1>1, <1>2, <1>3, <1>4, <2>1, FramePlacement DEF PublishSync
<1>5. CASE PublishRewrite
  <2>1. PICK i, base : i = fresh /\ base = job.base
    OBVIOUS
  <2>2. dir' = Link(dir, base, i) /\ durableDir' = durableDir
    BY <1>5, <2>1 DEF PublishRewrite
  <2>3. Placed(i, base) /\ NamedOnly(i, base) /\ KeptData(i) /\ i # active /\ base > 0
    BY <1>1, <1>3, <2>1 DEF PlacementOK, FreshOK, PlanOK, Live
  <2>4. Placed(i, base)' /\ NamedOnly(i, base)'
    BY <2>2, <2>3, PlacedKept, NamedOnlyLinked
  <2>5. NamesOK'
    BY <1>1, <1>3, <2>1, <2>2, <2>3, <2>4, NamesLinked DEF PlacementOK, Live
  <2>6. ActiveOK' /\ ClosedOK'
    <3>1. PICK a, b : a = active /\ b = LastBase
      OBVIOUS
    <3>2. a \in Inodes /\ Placed(a, b) /\ NamedOnly(a, b) /\ a # i
      BY <1>1, <2>3, <3>1, OpenedIff DEF PlacementOK, ActiveOK
    <3>3. KeptData(a)
      BY <1>3, <3>1, <3>2 DEF Live
    <3>4. Placed(a, b)' /\ NamedOnly(a, b)'
      BY <2>2, <3>2, <3>3, PlacedKept, NamedOnlyLinked
    <3>5. /\ Placed(active, LastBase)' /\ NamedOnly(active, LastBase)'
          /\ UNCHANGED <<index, nextLSN, firstLSN>>
          /\ LastBase' = LastBase /\ ActiveFile'.data = ActiveFile.data
      BY <1>5, <3>1, <3>3, <3>4
      DEF PublishRewrite, Placed, NamedOnly, LastBase, ActiveFile, KeptData
    <3>6. Opened'
      BY <1>1, <1>5, OpenedIff, OpenedIffNext DEF PublishRewrite
    <3> QED BY <1>1, <3>5, <3>6 DEF PlacementOK, ActiveOK, ClosedOK, Ascending
  <2>7. FreshOK'
    <3>1. Placed(fresh, job.base)' /\ NamedOnly(fresh, job.base)'
      BY <1>1, <2>1, <2>4 DEF Placed, NamedOnly
    <3>2. UNCHANGED <<active, nextLSN>> /\ files'[fresh].data = files[fresh].data
      BY <1>5, <2>1, <2>3 DEF PublishRewrite, KeptData
    <3> QED BY <1>1, <3>1, <3>2 DEF PlacementOK, FreshOK, CutsActive
  <2> QED BY <1>2, <2>5, <2>6, <2>7 DEF PlacementOK
<1> QED BY <1>4, <1>5

\* Installing an index that ends with the segment of the next LSN.
LEMMA InstalledPlacement ==
  ASSUME ControlOK, ControlOK', PlacementOK, NEW a \in Inodes, NEW first \in Nat,
         Installed(a, first), NEW b, b = job.idx[Len(job.idx)],
         a \in {active, fresh}, Placed(a, b), NamedOnly(a, b),
         nextLSN = b + Len(files[a].data),
         Ascending(job.idx), job.idx[1] > 0, first # 0 => job.idx[1] <= first
  PROVE  PlacementOK'
<1> USE DEF Installed
<1>1. NamesFrom
  BY DEF NamesFrom
<1>2. \A i \in Range(dir') \cup Range(durableDir') \cup {a} : KeptData(i)
  <2>1. \A i \in Range(dir') \cup Range(durableDir') \cup {a} :
          i \in Inodes \cap Live(dir, durableDir, a, Nil)
    BY DEF Live, DiskTypeOK
  <2> QED BY <2>1, CollectedKept
<1>3. NamesOK'
  BY <1>1, <1>2, NamesKept DEF PlacementOK
<1>4. Placed(a, b)' /\ NamedOnly(a, b)' /\ KeptData(a)
  BY <1>1, <1>2, PlacedKept, NamedOnlyKept
<1>5. LastBase' = b /\ active' = a /\ index' = job.idx /\ nextLSN' = nextLSN
      /\ firstLSN' = first
  BY DEF LastBase
<1>6. ActiveOK' /\ ClosedOK'
  <2>1. Placed(active, LastBase)' /\ NamedOnly(active, LastBase)'
    BY <1>4, <1>5 DEF Placed, NamedOnly
  <2>2. nextLSN' = LastBase' + Len(ActiveFile'.data)
    BY <1>4, <1>5 DEF KeptData, ActiveFile
  <2>3. Ascending(index)' /\ index'[1] > 0 /\ (firstLSN' # 0 => index'[1] <= firstLSN')
    BY <1>5 DEF Ascending
  <2> QED BY <1>5, <2>1, <2>2, <2>3, OpenedIffNext DEF ActiveOK, ClosedOK
<1>7. FreshOK'
  BY OpenedIffNext DEF FreshOK
<1>8. PlanOK' /\ SurvivorsOK'
  BY NoPlan
<1> QED BY <1>3, <1>6, <1>7, <1>8 DEF PlacementOK

\* The deletions are done and the operation returns.
LEMMA FinishPlacement ==
  ASSUME ControlOK, ControlOK', PlacementOK,
         FinishTruncate \/ FinishCutBelow \/ FinishCutRewrite \/ FinishCutEverything
  PROVE  PlacementOK'
<1> DEFINE b == job.idx[Len(job.idx)]
<1>1. /\ pc = "remove" /\ Opened /\ active \in Inodes /\ job.base \in Nat
      /\ job.idx # << >> /\ job.idx \in Seq(Nat) /\ job.idx[1] \in Nat
      /\ job.kind \in {"cutRewrite", "cutAll"} => HasFresh /\ fresh \in Inodes
  <2>1. pc = "remove" /\ Opened
    BY WriterOpened
    DEF FinishTruncate, FinishCutBelow, FinishCutRewrite, FinishCutEverything, Removed
  <2>2. job.idx # << >> /\ job.idx \in Seq(Nat) /\ job.base \in Nat
    BY <2>1, JobType DEF StepsOK, Kinds, DropKinds
  <2> QED BY <2>1, <2>2, OpenedIff DEF HasFresh
<1>2. /\ nextLSN = LastBase + Len(files[active].data)
      /\ Placed(active, LastBase) /\ NamedOnly(active, LastBase)
  BY <1>1 DEF PlacementOK, ActiveOK, ActiveFile
<1>3. CASE FinishTruncate
  <2>1. job.kind = "truncate" /\ Installed(active, job.idx[1])
    BY <1>3 DEF FinishTruncate, Removed
  <2>2. Ascending(job.idx) /\ job.idx[1] > 0 /\ b = LastBase
    BY <2>1 DEF PlacementOK, PlanOK
  <2>3. PICK a, c, first : a = active /\ c = b /\ first = job.idx[1]
    OBVIOUS
  <2> HIDE DEF b
  <2> QED BY <1>1, <1>2, <2>1, <2>2, <2>3, InstalledPlacement DEF b
<1>4. CASE FinishCutBelow
  <2>1. job.kind = "cutBelow" /\ Installed(active, job.base)
    BY <1>4 DEF FinishCutBelow, Removed
  <2>2. Ascending(job.idx) /\ job.idx[1] > 0 /\ b = LastBase /\ job.idx[1] = job.base
    BY <2>1 DEF PlacementOK, PlanOK
  <2> QED BY <1>1, <1>2, <2>1, <2>2, InstalledPlacement
<1>5. CASE FinishCutRewrite /\ ~CutsActive
  <2>1. job.kind = "cutRewrite" /\ Installed(active, job.base)
    BY <1>5 DEF FinishCutRewrite, Removed
  <2>2. Ascending(job.idx) /\ job.idx[1] > 0 /\ b = LastBase /\ job.idx[1] = job.base
    BY <1>5, <2>1 DEF PlacementOK, PlanOK
  <2> QED BY <1>1, <1>2, <2>1, <2>2, InstalledPlacement
<1>6. CASE FinishCutRewrite /\ CutsActive
  <2>1. job.kind = "cutRewrite" /\ Installed(fresh, job.base)
    BY <1>6 DEF FinishCutRewrite, Removed
  <2>2. Ascending(job.idx) /\ job.idx[1] > 0 /\ b = job.base /\ job.idx[1] = job.base
    BY <1>6, <2>1 DEF PlacementOK, PlanOK, CutsActive
  <2>3. /\ nextLSN = b + Len(files[fresh].data)
        /\ Placed(fresh, b) /\ NamedOnly(fresh, b)
    BY <1>1, <1>6, <2>1, <2>2 DEF PlacementOK, FreshOK
  <2> QED BY <1>1, <2>1, <2>2, <2>3, InstalledPlacement
<1>7. CASE FinishCutEverything
  <2>1. job.kind = "cutAll" /\ Installed(fresh, 0)
    BY <1>7 DEF FinishCutEverything, Removed
  <2>2. job.base = nextLSN /\ job.idx = <<nextLSN>> /\ nextLSN \in Nat /\ nextLSN > 0
    BY <1>1, <2>1, OpenedState DEF PlacementOK, PlanOK
  <2>3. b = nextLSN /\ Ascending(job.idx) /\ job.idx[1] > 0
    BY <2>2 DEF Ascending
  <2>4. /\ Len(files[fresh].data) = 0
        /\ Placed(fresh, b) /\ NamedOnly(fresh, b)
    BY <1>1, <2>1, <2>2, <2>3 DEF PlacementOK, FreshOK
  <2> QED BY <1>1, <2>1, <2>2, <2>3, <2>4, InstalledPlacement
<1> QED BY <1>3, <1>4, <1>5, <1>6, <1>7, Zenon

\* The steps of doTruncate and doCut.
LEMMA DropPlacement ==
  ASSUME ControlOK, ControlOK', PlacementOK, Drop
  PROVE  PlacementOK'
<1> USE DEF disk, mem
<1>1. ASSUME NEW upTo \in Bounds, Truncate(upTo) PROVE PlacementOK'
  BY <1>1, TruncatePlan, StartDropPlacement DEF Truncate
<1>2. ASSUME NEW upTo \in Bounds, CutNoop(upTo) PROVE PlacementOK'
  <2>1. Live(dir', durableDir', active, fresh') \subseteq Inodes
    BY DEF DiskTypeOK, Live
  <2>2. PlanOK' /\ SurvivorsOK'
    BY <1>2, PlanKept DEF CutNoop, PlacementOK
  <2> QED
    BY <1>2, <2>1, <2>2, FramePlacement DEF CutNoop, NamesFrom, KeptData
<1>3. ASSUME NEW upTo \in Bounds, CutEverything(upTo) PROVE PlacementOK'
  <2>1. PlanOK'
    BY <1>3 DEF CutEverything, StartDrop, PlanOK, NoJob
  <2> QED BY <1>3, <2>1, StartDropPlacement DEF CutEverything
<1>4. ASSUME NEW upTo \in Bounds, CutInside(upTo) PROVE PlacementOK'
  <2>1. PlanOK'
    BY <1>4, CutInsidePlan DEF Bounds
  <2> QED BY <1>4, <2>1, StartDropPlacement DEF CutInside
<1>5. ASSUME ClearLeftover PROVE PlacementOK'
  <2> USE <1>5 DEF ClearLeftover
  <2>1. NamesFrom
    <3>1. DOMAIN dir' \subseteq DOMAIN dir /\ \A b \in DOMAIN dir' : dir'[b] = dir[b]
      BY DEF Unlink, Restrict
    <3> QED BY <3>1 DEF NamesFrom
  <2>2. \A i \in Live(dir', durableDir', active, fresh) : KeptData(i)
    <3>1. Live(dir', durableDir', active, fresh) \subseteq Inodes
      BY DEF DiskTypeOK, Live
    <3> QED BY <3>1, CollectedKept
  <2>3. PlanOK' /\ SurvivorsOK'
    BY PlanKept DEF PlacementOK
  <2> QED BY <2>1, <2>2, <2>3, FramePlacement
<1>6. ASSUME ClearLeftoverFails \/ RewriteTempFails \/ PublishFails PROVE PlacementOK'
  BY <1>6, JobFailsPlacement DEF ClearLeftoverFails, RewriteTempFails, PublishFails
<1> QED
  BY <1>1, <1>2, <1>3, <1>4, <1>5, <1>6, RewriteTempPlacement, PublishPlacement,
     FinishPlacement
  DEF Drop

-----------------------------------------------------------------------------
(* The bounds stay in order.                                               *)

DropsRecords == {"truncate", "cutBelow", "cutRewrite"}

\* The index of an open log starts at or below the next LSN.
LEMMA FirstOfIndex ==
  ASSUME ControlOK', PlacementOK', Opened'
  PROVE  /\ index'[1] \in Nat /\ nextLSN' \in Nat /\ index'[1] <= nextLSN'
         /\ Len(index') > 1 => index'[2] \in Nat /\ index'[1] < index'[2]
<1>1. /\ index' \in Seq(Nat) /\ index' # << >> /\ Ascending(index')
      /\ active' \in Inodes /\ files' \in [Inodes -> File] /\ nextLSN' \in Nat
      /\ nextLSN' = index'[Len(index')] + Len(files'[active'].data)
  BY DEF PlacementOK, ActiveOK, LastBase, ActiveFile, StepsOK, DiskTypeOK, MemTypeOK
<1>2. PICK n : n = Len(index')
  OBVIOUS
<1>3. n \in Nat /\ n > 0 /\ DOMAIN index' = 1..n /\ \A k \in 1..n : index'[k] \in Nat
  BY <1>1, <1>2
<1>4. 1 \in 1..n /\ n \in 1..n
  BY <1>3
<1>5. Len(files'[active'].data) \in Nat
  BY <1>1 DEF File
<1>6. index'[1] <= index'[n]
  <2>1. n = 1 \/ 1 < n
    BY <1>3
  <2> QED BY <1>1, <1>3, <1>4, <2>1 DEF Ascending
<1>7. index'[1] <= nextLSN'
  <2>1. PICK a, b, c \in Nat : a = index'[1] /\ b = index'[n] /\ c = Len(files'[active'].data)
    BY <1>3, <1>4, <1>5
  <2> QED BY <1>1, <1>2, <1>6, <2>1
<1>8. n > 1 => index'[2] \in Nat /\ index'[1] < index'[2]
  <2>1. n > 1 => 2 \in 1..n
    BY <1>3
  <2> QED BY <1>1, <1>3, <1>4, <2>1 DEF Ascending
<1> QED BY <1>1, <1>2, <1>3, <1>4, <1>7, <1>8

\* What has to be shown of a step to an open log.
LEMMA OpenedBounds ==
  ASSUME ControlOK', PlacementOK', Opened', lastLSN' < nextLSN',
         \/ firstLSN' \in {0, index'[1]}
         \/ firstLSN' <= nextLSN' /\ (Len(index') > 1 => firstLSN' <= index'[2]),
         job'.kind \in DropsRecords => firstLSN' <= job'.idx[1]
  PROVE  BoundsInOrder'
<1>1. /\ index'[1] \in Nat /\ nextLSN' \in Nat /\ index'[1] <= nextLSN'
      /\ Len(index') > 1 => index'[2] \in Nat /\ index'[1] < index'[2]
  BY FirstOfIndex
<1>2. firstLSN' <= nextLSN' /\ (Len(index') > 1 => firstLSN' <= index'[2])
  BY <1>1
<1>3. pc' \notin {"scan", "prune"}
  BY DEF Opened
<1> QED BY <1>2, <1>3 DEF BoundsInOrder, DropsRecords

\* A step that leaves the WAL struct alone and is not one of recovery's.
LEMMA FrameBounds ==
  ASSUME ControlOK, ControlOK', BoundsInOrder, UNCHANGED mem,
         pc' \notin {"scan", "prune"},
         job'.kind \in DropsRecords =>
           (job'.kind = job.kind /\ job'.idx = job.idx) \/ firstLSN <= job'.idx[1]
  PROVE  BoundsInOrder'
<1> USE DEF mem
<1>1. Opened' <=> Opened
  BY OpenedIff, OpenedIffNext
<1>2. job'.kind \in DropsRecords => firstLSN' <= job'.idx[1]
  BY DEF BoundsInOrder, DropsRecords
<1> QED BY <1>1, <1>2 DEF BoundsInOrder, DropsRecords

\* A closed log has no bounds.
LEMMA ClosedBounds ==
  ASSUME ControlOK', ~Opened', lastLSN' = 0, pc' \notin {"scan", "prune"}
  PROVE  BoundsInOrder'
<1>1. job'.kind \notin DropsRecords
  BY DEF StepsOK, Kinds, Opened, DropsRecords, PCs, ControlTypeOK
<1> QED BY <1>1 DEF BoundsInOrder, DropsRecords

\* A recovery under way.
LEMMA RecoveringBounds ==
  ASSUME ControlOK', BoundsInOrder, ~Opened, UNCHANGED mem, pc' \in {"scan", "prune"},
         pc' = "scan" /\ Len(job'.idx) = 1 => job'.expected = EndOf(job.idx[1])',
         Len(job'.idx) > 1 => ScanRecords(OnDisk(job.idx[1]))' > 0
  PROVE  BoundsInOrder'
<1>1. ~Opened' /\ lastLSN' = 0
  BY DEF Opened, BoundsInOrder, mem
<1>2. job'.kind \notin DropsRecords
  BY DEF StepsOK, Kinds, DropsRecords
<1> QED BY <1>1, <1>2 DEF BoundsInOrder, DropsRecords

\* The steps of commit and roll.
LEMMA CommitBounds ==
  ASSUME ControlOK, ControlOK', PlacementOK, PlacementOK', BoundsInOrder, Commit
  PROVE  BoundsInOrder'
<1>1. ASSUME \/ \E b \in Batches : BeginCommit(b)
             \/ WriteRecordFails \/ CompleteRequest \/ FinishBatchFails
             \/ StartRoll \/ StartRollFails
      PROVE  BoundsInOrder'
  <2>1. UNCHANGED mem /\ pc' \notin {"scan", "prune"}
        /\ (job' = job \/ job'.kind = "roll")
    BY <1>1 DEF BeginCommit, WriteRecordFails, CompleteRequest, FinishBatchFails, StartRoll,
                StartRollFails, RequestFails, NoJob
  <2> QED BY <2>1, FrameBounds DEF DropsRecords
<1>2. ASSUME WriteRecord PROVE BoundsInOrder'
  <2> USE <1>2 DEF WriteRecord
  <2>1. Opened /\ Opened' /\ pc = "write" /\ job' = job /\ job.kind = "none"
    BY WriterOpened DEF Writing, Opened, StepsOK, Kinds
  <2>2. lastLSN < nextLSN /\ firstLSN <= nextLSN /\ (Len(index) > 1 => firstLSN <= index[2])
        /\ lastLSN \in Nat /\ firstLSN \in Nat /\ nextLSN \in Nat
    BY <2>1 DEF BoundsInOrder, MemTypeOK
  <2>3. lastLSN' < nextLSN' /\ firstLSN' <= nextLSN'
    BY <2>2
  <2> QED BY <2>1, <2>2, <2>3, OpenedBounds DEF DropsRecords
<1>3. ASSUME FinishBatch PROVE BoundsInOrder'
  <2> USE <1>3 DEF FinishBatch
  <2>1. Opened /\ Opened' /\ job' = job /\ job.kind = "none"
    BY WriterOpened DEF Opened, StepsOK, Kinds
  <2>2. lastLSN < nextLSN /\ firstLSN <= nextLSN /\ (Len(index) > 1 => firstLSN <= index[2])
        /\ lastLSN \in Nat /\ firstLSN \in Nat /\ nextLSN \in Nat
    BY <2>1 DEF BoundsInOrder, MemTypeOK
  <2>3. lastLSN' < nextLSN'
    BY <2>2
  <2>4. firstLSN' = firstLSN \/ firstLSN' = index'[1]
    BY DEF PublishedFirst
  <2> QED BY <2>1, <2>2, <2>3, <2>4, OpenedBounds DEF DropsRecords
<1>4. ASSUME InstallRoll PROVE BoundsInOrder'
  <2> USE <1>4 DEF InstallRoll
  <2>1. Opened /\ Opened' /\ job'.kind = "none" /\ job.kind = "roll"
    BY WriterOpened DEF Opened, StepsOK, Kinds, NoJob, RequestFails
  <2>2. lastLSN < nextLSN /\ firstLSN <= nextLSN /\ (Len(index) > 1 => firstLSN <= index[2])
        /\ lastLSN \in Nat /\ firstLSN \in Nat /\ nextLSN \in Nat
    BY <2>1 DEF BoundsInOrder, MemTypeOK
  <2>3. index' = Append(index, nextLSN) /\ index \in Seq(Nat) /\ index # << >>
    BY <2>1, OpenedState DEF PlacementOK, PlanOK
  <2>4. firstLSN <= index'[2]
    <3>1. /\ Len(index) \in Nat /\ index'[Len(index) + 1] = nextLSN
          /\ \A k \in 1..Len(index) : index'[k] = index[k]
      BY <2>2, <2>3, AppendType
    <3>2. Len(index) = 1 \/ (Len(index) > 1 /\ 2 \in 1..Len(index))
      <4>1. PICK n \in Nat : n = Len(index) /\ n > 0
        BY <2>3, LastElement
      <4> QED BY <4>1
    <3> QED BY <2>2, <3>1, <3>2
  <2> QED BY <2>1, <2>2, <2>4, OpenedBounds DEF DropsRecords
<1> QED BY <1>1, <1>2, <1>3, <1>4 DEF Commit

\* The steps of Create change no bound.
LEMMA CreateBounds ==
  ASSUME ControlOK, ControlOK', BoundsInOrder, Create
  PROVE  BoundsInOrder'
<1>1. UNCHANGED mem /\ (job' = job \/ job' = NoJob)
  BY DEF Create, CreateOpen, CreateOpenFails, CreateHeader, CreateSync, CreateHeaderFails,
         CreateSyncDir, CreateSyncDirFails, CreateFails
<1>2. job'.kind # "recover"
  BY <1>1 DEF Create, CreateOpen, CreateOpenFails, CreateHeader, CreateSync,
     CreateHeaderFails, CreateSyncDir, CreateSyncDirFails, StepsOK, Kinds, NoJob
<1>3. pc' \notin {"scan", "prune"}
  BY <1>2 DEF StepsOK, Kinds
<1>4. job'.kind \in DropsRecords => job' = job
  BY <1>1 DEF NoJob, DropsRecords
<1> QED BY <1>1, <1>3, <1>4, FrameBounds

\* The steps of Truncate and CutOffset: the first LSN they are to install is
\* not below the one there is.
LEMMA DropBounds ==
  ASSUME ControlOK, ControlOK', PlacementOK, PlacementOK', BoundsInOrder, Drop
  PROVE  BoundsInOrder'
<1>1. ASSUME NEW upTo \in Bounds, Truncate(upTo) PROVE BoundsInOrder'
  <2>1. PICK d : d = Deletable(index, upTo)
    OBVIOUS
  <2>2. /\ pc = "idle" /\ d > 0 /\ pc' = "remove" /\ UNCHANGED mem
        /\ job' = [NoJob EXCEPT !.kind = "truncate", !.names = DeletedByTruncate(d),
                                !.idx = SubSeq(index, d + 1, Len(index))]
    BY <1>1, <2>1 DEF Truncate, StartDrop
  <2>3. Opened /\ index \in Seq(Nat) /\ index # << >> /\ Ascending(index) /\ Len(index) \in Nat
        /\ DOMAIN index = 1..Len(index) /\ \A k \in DOMAIN index : index[k] \in Nat
    BY <2>2, WriterOpened, OpenedState
  <2>4. d \in Nat /\ d < Len(index)
    BY <2>1, <2>3, DeletableType
  <2>5. job'.idx[1] = index[d + 1]
    BY <2>2, <2>3, <2>4, SuffixAscending DEF NoJob
  <2>6. firstLSN <= index[2] /\ firstLSN \in Nat
    BY <2>2, <2>3, <2>4 DEF BoundsInOrder, MemTypeOK
  <2>7. 2 \in 1..Len(index) /\ d + 1 \in 1..Len(index) /\ (d + 1 = 2 \/ 2 < d + 1)
    BY <2>2, <2>3, <2>4
  <2>8. index[2] <= index[d + 1] /\ index[2] \in Nat /\ index[d + 1] \in Nat
    BY <2>3, <2>7 DEF Ascending
  <2>9. firstLSN <= job'.idx[1]
    BY <2>5, <2>6, <2>8
  <2> QED BY <2>2, <2>9, FrameBounds
<1>2. ASSUME NEW upTo \in Bounds, CutInside(upTo) PROVE BoundsInOrder'
  <2>1. PICK cut, above : /\ cut = Reach(upTo)
                          /\ above = SubSeq(index, Boundary(index, cut) + 1, Len(index))
    OBVIOUS
  <2>2. /\ pc' \in {"remove", "rewrite"} /\ UNCHANGED mem /\ job'.idx = <<cut>> \o above
        /\ firstLSN < cut /\ firstLSN \in Nat /\ cut \in Nat
    <3>1. /\ pc' \in {"remove", "rewrite"} /\ UNCHANGED mem /\ job'.idx = <<cut>> \o above
          /\ ~CutNothing(cut)
      BY <1>2, <2>1 DEF CutInside, StartDrop, NoJob
    <3>2. cut \in Nat
      BY <2>1 DEF Reach, MinOf, MemTypeOK, Bounds
    <3> QED BY <3>1, <3>2 DEF CutNothing, MemTypeOK
  <2>3. (<<cut>> \o above)[1] = cut
    OBVIOUS
  <2>4. firstLSN <= job'.idx[1]
    BY <2>2, <2>3
  <2> QED BY <2>2, <2>4, FrameBounds
<1>3. ASSUME NEW upTo \in Bounds, CutNoop(upTo) \/ CutEverything(upTo) PROVE BoundsInOrder'
  <2>1. UNCHANGED mem /\ pc' \in {"idle", "clearLeftover"}
    BY <1>3 DEF CutNoop, CutEverything, StartDrop
  <2>2. job'.kind \in DropsRecords => job' = job
    BY <1>3 DEF CutNoop, CutEverything, StartDrop, NoJob, DropsRecords
  <2> QED BY <2>1, <2>2, FrameBounds
<1>4. ASSUME \/ ClearLeftover \/ ClearLeftoverFails \/ RewriteTemp \/ RewriteTempFails
             \/ PublishRewrite \/ PublishSync \/ PublishFails
      PROVE  BoundsInOrder'
  <2>1. /\ UNCHANGED mem /\ pc' \in {"createOpen", "idle", "publish", "publishSync", "remove"}
        /\ (job' = job \/ job' = NoJob)
    BY <1>4 DEF ClearLeftover, ClearLeftoverFails, RewriteTemp, RewriteTempFails,
                PublishRewrite, PublishSync, PublishFails, JobFails
  <2>2. job'.kind \in DropsRecords => job' = job
    BY <2>1 DEF NoJob, DropsRecords
  <2> QED BY <2>1, <2>2, FrameBounds
<1>5. ASSUME FinishTruncate \/ FinishCutBelow \/ FinishCutRewrite \/ FinishCutEverything
      PROVE  BoundsInOrder'
  <2>1. /\ Opened /\ pc' = "idle" /\ job' = NoJob /\ UNCHANGED <<lastLSN, nextLSN>>
        /\ firstLSN' \in {0, index'[1]}
    BY <1>5, WriterOpened
    DEF FinishTruncate, FinishCutBelow, FinishCutRewrite, FinishCutEverything, Removed,
        Installed, PlacementOK, PlanOK
  <2>2. Opened' /\ job'.kind \notin DropsRecords /\ lastLSN' < nextLSN'
    BY <2>1 DEF Opened, NoJob, DropsRecords, BoundsInOrder
  <2> QED BY <2>1, <2>2, OpenedBounds
<1> QED BY <1>1, <1>2, <1>3, <1>4, <1>5 DEF Drop

\* A deletion never takes a segment that recovery has collected.
LEMMA DeleteBounds ==
  ASSUME ControlOK, ControlOK', BoundsInOrder, Delete
  PROVE  BoundsInOrder'
<1>1. CASE RemovalFails
  <2>1. UNCHANGED mem /\ pc' \in {"idle", "closed"} /\ job' = NoJob
    BY <1>1 DEF RemovalFails
  <2>2. job'.kind \notin DropsRecords
    BY <2>1 DEF NoJob, DropsRecords
  <2> QED BY <2>1, <2>2, FrameBounds
<1>2. CASE (RemoveFile \/ SyncRemoval) /\ pc # "prune"
  <2>1. /\ UNCHANGED mem /\ pc' = pc /\ pc \in {"remove", "reconcile"}
        /\ job'.kind = job.kind /\ job'.idx = job.idx
    BY <1>2 DEF RemoveFile, SyncRemoval, Deleting, ControlTypeOK
  <2> QED BY <2>1, FrameBounds
<1>3. CASE (RemoveFile \/ SyncRemoval) /\ pc = "prune"
  <2>1. /\ UNCHANGED mem /\ pc' = "prune" /\ job'.idx = job.idx /\ ~Opened
        /\ job.names # << >> /\ job.names \in Seq(Nat)
    BY <1>3, JobType DEF RemoveFile, SyncRemoval, Deleting, ControlTypeOK, Opened
  <2>2. PICK b : b = job.idx[1]
    OBVIOUS
  <2>3. b \in Range(job.idx) /\ b \in DOMAIN dir /\ dir[b] \in Inodes /\ b # Head(job.names)
    <3>1. /\ job.idx # << >> /\ Range(job.idx) \subseteq DOMAIN dir
          /\ Range(job.names) \cap Range(job.idx) = {}
      BY <1>3 DEF RecoveryOK, PruneOK
    <3>2. b \in Range(job.idx)
      <4>1. 1 \in DOMAIN job.idx
        BY <3>1, JobType
      <4> QED BY <2>2, <4>1 DEF Range
    <3>3. Head(job.names) \in Range(job.names)
      BY <2>1 DEF Range
    <3> QED BY <3>1, <3>2, <3>3, NamedType
  <2>4. b \in DOMAIN dir' /\ dir'[b] = dir[b]
    BY <1>3, <2>3 DEF RemoveFile, SyncRemoval, Unlink, Restrict
  <2>5. KeptData(dir[b])
    <3>1. PICK live : files' = Collected(files, live) /\ Range(dir') \subseteq live
      <4>1. CASE RemoveFile
        <5>1. Range(dir') \subseteq Live(dir', durableDir, active, fresh)
          BY DEF Live
        <5> QED BY <4>1, <5>1 DEF RemoveFile
      <4>2. CASE SyncRemoval
        <5>1. Range(dir) \subseteq Live(dir, dir, active, fresh)
          BY DEF Live
        <5> QED BY <4>2, <5>1 DEF SyncRemoval
      <4> QED BY <1>3, <4>1, <4>2
    <3>2. dir[b] \in Inodes \cap live
      BY <2>3, <2>4, <3>1 DEF Range
    <3> QED BY <3>1, <3>2, CollectedKept
  <2>6. Len(job'.idx) > 1 => ScanRecords(OnDisk(job.idx[1]))' > 0
    <3>1. OnDisk(job.idx[1])'.data = OnDisk(b).data
      BY <2>1, <2>2, <2>4, <2>5 DEF OnDisk, KeptData
    <3>2. Len(job.idx) > 1 => ScanRecords(OnDisk(b)) > 0
      BY <1>3, <2>2 DEF BoundsInOrder
    <3> QED BY <2>1, <3>1, <3>2 DEF ScanRecords
  <2> QED BY <2>1, <2>6, RecoveringBounds
<1> QED BY <1>1, <1>2, <1>3 DEF Delete

\* Behind an empty segment every other base is a gap or an overlap.
LEMMA ScanBounds ==
  ASSUME ControlOK, ControlOK', BoundsInOrder, ScanSegment
  PROVE  BoundsInOrder'
<1> USE DEF ScanSegment
<1>1. PICK s, p, n : s = job.idx /\ p = Path /\ n = Len(s)
  OBVIOUS
<1>2. /\ Scanning /\ pc = "scan" /\ pc' = "scan" /\ ~Opened /\ UNCHANGED <<mem, files, dir>>
      /\ p \in Nat /\ p \in DOMAIN dir /\ p \in job.paths
      /\ s \in Seq(Nat) /\ n \in Nat /\ DOMAIN s = 1..n
      /\ \A k \in 1..n : s[k] \in Nat /\ s[k] < p
  BY <1>1, PathType, JobType DEF Scanning, Opened, disk, RecoveryOK, ScanOK
<1>3. job'.idx = Append(s, p) /\ job'.expected = p + ScanRecords(OnDisk(p))
  BY <1>1 DEF ControlTypeOK
<1>4. /\ Len(Append(s, p)) = n + 1 /\ Append(s, p)[n + 1] = p
      /\ \A k \in 1..n : Append(s, p)[k] = s[k]
  BY <1>1, <1>2, AppendType
<1>5. Len(job'.idx) = 1 => job'.expected = EndOf(job.idx[1])'
  <2>1. Len(job'.idx) = 1 => n = 0 /\ job'.idx[1] = p
    BY <1>2, <1>3, <1>4
  <2> QED BY <1>2, <1>3, <2>1 DEF EndOf, ScanRecords, OnDisk
<1>6. Len(job'.idx) > 1 => ScanRecords(OnDisk(job.idx[1]))' > 0
  <2> SUFFICES ASSUME n > 0 PROVE ScanRecords(OnDisk(job'.idx[1])) > 0
    BY <1>2, <1>3, <1>4, SMTT(30) DEF ScanRecords, OnDisk
  <2>1. 1 \in 1..n /\ job'.idx[1] = s[1]
    BY <1>2, <1>3, <1>4
  <2>2. CASE n > 1
    BY <1>1, <1>2, <2>1, <2>2 DEF BoundsInOrder
  <2>3. CASE n = 1
    <3>1. job.expected = EndOf(s[1]) /\ s # << >>
      BY <1>1, <1>2, <2>3 DEF BoundsInOrder
    <3>2. /\ s[1] \in Nat /\ s[1] < p /\ s[1] \in DOMAIN dir
          /\ Len(files[dir[s[1]]].data) \in Nat
      <4>1. s[1] \in DOMAIN dir /\ OnDisk(s[1]) \in File
        BY <1>1, <1>2, <2>1, CollectedSegments
      <4> QED BY <1>2, <2>1, <4>1, SMTT(30) DEF OnDisk, File
    <3>3. ~(p < job.expected) /\ ~(p > job.expected)
      BY <1>1, <3>1 DEF Overlaps, Gap, Unrecoverable, IsFirst
    <3>4. Len(files[dir[s[1]]].data) > 0
      BY <1>2, <3>1, <3>2, <3>3 DEF EndOf
    <3> QED BY <2>1, <3>4 DEF ScanRecords, OnDisk
  <2> QED BY <1>2, <2>2, <2>3
<1> QED BY <1>2, <1>5, <1>6, RecoveringBounds

\* What is cut off behind the last record is no record.
LEMMA TruncateBounds ==
  ASSUME ControlOK, ControlOK', BoundsInOrder, TruncateTornTail
  PROVE  BoundsInOrder'
<1> USE DEF TruncateTornTail
<1>1. /\ pc' = "prune" /\ ~Opened /\ UNCHANGED <<mem, dir>> /\ job'.idx = Survivors
  BY DEF Opened, ControlTypeOK
<1>2. /\ job.idx # << >> /\ Len(job.idx) \in Nat /\ DOMAIN job.idx = 1..Len(job.idx)
      /\ Len(Survivors) \in 1..Len(job.idx)
      /\ \A i \in 1..Len(Survivors) : Survivors[i] = job.idx[i]
  BY SurvivorsType, LastCollectedType, ActiveIdxType
<1>3. \A i \in Inodes : KeptData(i)
  <2>1. files \in [Inodes -> File]
    BY DEF DiskTypeOK
  <2>2. LastCollected \in DOMAIN dir /\ OnDisk(LastCollected) \in File
    BY LastCollectedType, NamedType DEF OnDisk
  <2> QED BY <2>1, <2>2, TruncatedType DEF KeptData, OnDisk
<1>4. Len(job'.idx) > 1 => ScanRecords(OnDisk(job.idx[1]))' > 0
  <2> SUFFICES ASSUME Len(Survivors) > 1 PROVE ScanRecords(OnDisk(job.idx[1]))' > 0
    BY <1>1
  <2>1. 1 \in 1..Len(Survivors) /\ 1 \in DOMAIN job.idx /\ Len(job.idx) > 1
    BY <1>2
  <2>2. PICK b : b = job.idx[1]
    OBVIOUS
  <2>3. job'.idx[1] = b
    BY <1>1, <1>2, <2>1, <2>2
  <2>4. dir[b] \in Inodes
    BY <2>1, <2>2, CollectedSegments, NamedType
  <2>5. ScanRecords(OnDisk(b)) > 0
    BY <2>1, <2>2 DEF BoundsInOrder
  <2> QED BY <1>1, <1>3, <2>3, <2>4, <2>5 DEF ScanRecords, OnDisk, KeptData
<1> QED BY <1>1, <1>4, RecoveringBounds

\* The first record that recovery finds is in the first segment it keeps.
LEMMA InstallBounds ==
  ASSUME ControlOK, ControlOK', PlacementOK, PlacementOK', BoundsInOrder, InstallState
  PROVE  BoundsInOrder'
<1> USE DEF InstallState
<1>1. PICK n : n = Len(job.idx)
  OBVIOUS
<1>2. /\ job.idx # << >> /\ n \in Nat /\ n > 0 /\ DOMAIN job.idx = 1..n
      /\ WithRecords \in SUBSET (1..n)
      /\ LastCollected \in Nat \ {0}
  BY <1>1, LastCollectedType, ActiveIdxType, NextInstalledRight
<1>3. Opened' /\ job'.kind \notin DropsRecords
  BY DEF Opened, NoJob, DropsRecords
<1>4. FirstRecovered \in {0, job.idx[1]}
  <2> SUFFICES ASSUME WithRecords # {} PROVE FirstRecovered = job.idx[1]
    BY DEF FirstRecovered
  <2>1. 1 \in WithRecords
    <3>1. CASE n = 1
      <4>1. PICK k \in WithRecords : k \in 1..n
        BY <1>2
      <4>2. k = 1
        BY <3>1, <4>1
      <4> QED BY <4>1, <4>2
    <3>2. CASE n # 1
      <4>1. n > 1 /\ 1 \in 1..n
        BY <1>2, <3>2
      <4>2. ScanRecords(OnDisk(job.idx[1])) > 0
        BY <1>1, <4>1 DEF BoundsInOrder
      <4>3. 1 \in DOMAIN job.idx
        BY <1>2, <4>1
      <4> QED BY <4>2, <4>3 DEF WithRecords
    <3> QED BY <3>1, <3>2
  <2>2. Min(WithRecords) = 1
    <3>1. WithRecords \in SUBSET Nat
      BY <1>2
    <3>2. PICK m : m = Min(WithRecords) /\ m \in WithRecords /\ m <= 1
      BY <2>1, <3>1, MinOfNaturals
    <3>3. m \in 1..n
      BY <1>2, <3>2
    <3>4. m = 1
      BY <1>2, <3>2, <3>3
    <3> QED BY <3>2, <3>4
  <2> QED BY <2>2 DEF FirstRecovered
<1>5. lastLSN' < nextLSN'
  <2>1. LastRecovered \in Nat
    <3>1. CASE WithRecords = {}
      BY <3>1 DEF LastRecovered
    <3>2. CASE WithRecords # {}
      <4>1. Max(WithRecords) \in 1..n
        BY <1>2, <3>2, MaxOfInterval
      <4>2. PICK f \in File : f = OnDisk(job.idx[Max(WithRecords)])
        BY <1>2, <4>1, CollectedSegments
      <4>3. ScanLastLSN(f) \in Nat
        <5>1. f.data # << >> => f.data[Len(f.data)] \in Rec
          BY LastElement DEF File
        <5> QED BY <5>1 DEF ScanLastLSN, Rec
      <4> QED BY <3>2, <4>2, <4>3 DEF LastRecovered
    <3> QED BY <3>1, <3>2
  <2>2. PICK r, c \in Nat : r = LastRecovered /\ c = LastCollected /\ c > 0
    BY <1>2, <2>1
  <2>3. LastInstalled = MaxOf(r, c - 1) /\ NextInstalled = MaxOf(r + 1, c)
    BY <2>2 DEF LastInstalled, NextInstalled
  <2>4. LastInstalled < NextInstalled
    BY <2>2, <2>3 DEF MaxOf
  <2> QED BY <2>4
<1> QED BY <1>3, <1>4, <1>5, OpenedBounds

\* The steps of recovery.
LEMMA RecoverBounds ==
  ASSUME ControlOK, ControlOK', PlacementOK, PlacementOK', BoundsInOrder, Recover
  PROVE  BoundsInOrder'
<1>1. ASSUME OpenDir PROVE BoundsInOrder'
  <2> USE <1>1 DEF OpenDir
  <2>1. UNCHANGED mem /\ ~Opened /\ ~Opened' /\ lastLSN' = 0 /\ pc' \in {"createOpen", "scan"}
    BY DEF Closed, Opened, NoJob, BoundsInOrder, mem
  <2>2. CASE pc' = "createOpen"
    BY <2>1, <2>2, ClosedBounds
  <2>3. CASE pc' = "scan"
    <3>1. Len(job'.idx) = 0
      BY <2>3 DEF NoJob
    <3> QED BY <2>1, <2>3, <3>1, RecoveringBounds
  <2> QED BY <2>1, <2>2, <2>3
<1>2. ASSUME InstallEmpty PROVE BoundsInOrder'
  <2> USE <1>2 DEF InstallEmpty
  <2>1. ~Opened /\ Opened' /\ job'.kind \notin DropsRecords
    BY DEF Opened, NoJob, DropsRecords, StepsOK, Kinds
  <2>2. firstLSN' = 0 /\ lastLSN' = 0 /\ nextLSN' = 1
    BY <2>1 DEF BoundsInOrder, PlacementOK, ClosedOK
  <2> QED BY <2>1, <2>2, OpenedBounds
<1>3. ASSUME OpenCorrupt \/ Reconcile \/ TruncateTornTailFails PROVE BoundsInOrder'
  <2>1. UNCHANGED mem /\ pc' \in {"closed", "reconcile"}
    BY <1>3 DEF OpenCorrupt, OpenFails, Reconcile, TruncateTornTailFails
  <2>2. job'.kind \notin DropsRecords
    BY <1>3 DEF OpenCorrupt, OpenFails, Reconcile, TruncateTornTailFails, Scanning,
                StepsOK, Kinds, NoJob, DropsRecords, ControlTypeOK
  <2> QED BY <2>1, <2>2, FrameBounds
<1>4. ASSUME Reconciled PROVE BoundsInOrder'
  <2> USE <1>4 DEF Reconciled
  <2>1. UNCHANGED mem /\ ~Opened /\ pc' = "scan" /\ Len(job'.idx) = 0
    BY DEF Opened, RecoveryOK, ReconcileOK
  <2> QED BY <2>1, RecoveringBounds
<1> QED BY <1>1, <1>2, <1>3, <1>4, ScanBounds, TruncateBounds, InstallBounds DEF Recover

\* Every step keeps the bounds in order.
LEMMA NextBounds ==
  ControlOK /\ ControlOK' /\ PlacementOK /\ PlacementOK' /\ BoundsInOrder /\ [Next]_vars
    => BoundsInOrder'
<1> SUFFICES ASSUME ControlOK, ControlOK', PlacementOK, PlacementOK', BoundsInOrder,
                    [Next]_vars
             PROVE  BoundsInOrder'
  OBVIOUS
<1>1. CASE UNCHANGED vars
  BY <1>1 DEF vars, disk, mem, BoundsInOrder, Opened, EndOf, OnDisk
<1>2. CASE Close \/ CloseUnflushed \/ Kill \/ PowerLoss
  <2>1. pc' = "closed" /\ lastLSN' = 0
    BY <1>2 DEF Close, CloseUnflushed, Kill, PowerLoss, Stop, MemoryLost
  <2> QED BY <2>1, ClosedBounds DEF Opened
<1>3. CASE SyncActive
  <2>1. UNCHANGED mem /\ job' = job /\ pc' = "idle"
    BY <1>3 DEF SyncActive
  <2> QED BY <2>1, FrameBounds
<1> QED BY <1>1, <1>2, <1>3, CommitBounds, CreateBounds, DropBounds, DeleteBounds,
           RecoverBounds DEF Next

-----------------------------------------------------------------------------
(* The theorems.                                                           *)

\* In an empty directory everything is in place.
LEMMA InitPlacement == Init => PlacementOK
<1> SUFFICES ASSUME Init PROVE PlacementOK
  OBVIOUS
<1> USE DEF Init
<1>1. DOMAIN << >> = {}
  OBVIOUS
<1>2. NamesOK /\ ActiveOK /\ ClosedOK /\ FreshOK
  BY <1>1 DEF NamesOK, ActiveOK, ClosedOK, FreshOK, Opened, HasFresh
<1>3. PlanOK /\ SurvivorsOK
  BY DEF PlanOK, SurvivorsOK, NoJob
<1> QED BY <1>2, <1>3 DEF PlacementOK

\* Every step keeps everything in place.
LEMMA NextPlacement == ControlOK /\ ControlOK' /\ PlacementOK /\ [Next]_vars => PlacementOK'
<1> SUFFICES ASSUME ControlOK, ControlOK', PlacementOK, [Next]_vars PROVE PlacementOK'
  OBVIOUS
<1>1. CASE UNCHANGED vars
  <2> USE <1>1 DEF vars, disk, mem
  <2>1. NamesOK' /\ ActiveOK' /\ ClosedOK'
    BY DEF PlacementOK, NamesOK, ActiveOK, ClosedOK, Opened, Placed, NamedOnly,
           LastBase, ActiveFile
  <2>2. FreshOK' /\ PlanOK'
    BY DEF PlacementOK, FreshOK, PlanOK, HasFresh, Placed, NamedOnly, LastBase,
           CutsActive, OldBoundary
  <2>3. SurvivorsOK'
    BY DEF PlacementOK, SurvivorsOK, OnDisk, LastCollected
  <2> QED BY <2>1, <2>2, <2>3 DEF PlacementOK
<1>2. CASE Next
  BY <1>2, CommitPlacement, SyncActivePlacement, CreatePlacement, DropPlacement,
     DeletePlacement, RecoverPlacement, StopPlacement DEF Next
<1> QED BY <1>1, <1>2

(***************************************************************************)
(* The whole invariant holds in every reachable state.                     *)
(***************************************************************************)
THEOREM Placement == Spec => []IInv
<1>1. Init => PlacementOK
  BY InitPlacement
<1>2. ControlOK /\ ControlOK' /\ PlacementOK /\ [Next]_vars => PlacementOK'
  BY NextPlacement
<1>3. Init => BoundsInOrder
  BY DEF Init, BoundsInOrder, Opened, NoJob
<1>4. IInv /\ ControlOK' /\ PlacementOK' /\ [Next]_vars => BoundsInOrder'
  BY NextBounds DEF IInv
<1>5. ControlOK /\ PlacementOK /\ BoundsInOrder <=> IInv
  BY DEF IInv
<1> QED BY Control, <1>1, <1>2, <1>3, <1>4, <1>5, PTL DEF Spec

(***************************************************************************)
(* The i-th record of every segment file has the LSN base + i - 1, with    *)
(* any number of segments, crashes and failed system calls, whatever they  *)
(* interrupt.                                                              *)
(***************************************************************************)
THEOREM Density == Spec => []DenseSegments
<1>1. IInv => DenseSegments
  BY DEF IInv, PlacementOK, NamesOK, DenseSegments
<1> QED BY Placement, <1>1, PTL

(***************************************************************************)
(* While a log is open its last LSN never falls, and its first only rises  *)
(* or becomes the zero of an empty log: with any number of segments, and   *)
(* with failed calls and crashes before the Open or behind it.  For        *)
(* doTruncate this needs that the first LSN lies in the first segment or   *)
(* starts the second, which recovery has to establish.                     *)
(***************************************************************************)
THEOREM Monotonicity == Spec => BoundsMonotone
<1> DEFINE Monotone ==
      pc # "closed" /\ gen' = gen /\ active # Nil =>
        lastLSN' >= lastLSN /\ (firstLSN' = 0 \/ firstLSN' >= firstLSN)
<1>1. IInv /\ [Next]_vars => Monotone
  <2> SUFFICES ASSUME IInv, [Next]_vars, gen' = gen, active # Nil
               PROVE  lastLSN' >= lastLSN /\ (firstLSN' = 0 \/ firstLSN' >= firstLSN)
    OBVIOUS
  <2> USE DEF IInv, mem
  <2>1. /\ Opened /\ lastLSN < nextLSN
        /\ lastLSN \in Nat /\ firstLSN \in Nat /\ nextLSN \in Nat
    BY DEF StepsOK, BoundsInOrder, MemTypeOK
  <2>2. CASE UNCHANGED <<firstLSN, lastLSN>>
    BY <2>1, <2>2
  <2>3. CASE FinishBatch
    <3>1. index[1] \in Nat
      BY <2>1, OpenedState
    <3>2. lastLSN' = lastLSN \/ lastLSN' = nextLSN - 1
      BY <2>3 DEF FinishBatch
    <3>3. firstLSN' = firstLSN \/ (firstLSN = 0 /\ firstLSN' = index[1])
      BY <2>3 DEF FinishBatch, PublishedFirst
    <3> QED BY <2>1, <3>1, <3>2, <3>3
  <2>4. CASE FinishTruncate \/ FinishCutBelow \/ FinishCutRewrite \/ FinishCutEverything
    <3>1. lastLSN' = lastLSN /\ (firstLSN' = 0 \/ (job.kind \in DropsRecords /\ firstLSN' = job.idx[1]))
      BY <2>4
      DEF FinishTruncate, FinishCutBelow, FinishCutRewrite, FinishCutEverything, Removed,
          Installed, PlacementOK, PlanOK, DropsRecords
    <3>2. job.kind \in DropsRecords => firstLSN <= job.idx[1]
      BY DEF BoundsInOrder, DropsRecords
    <3> QED BY <2>1, <3>1, <3>2
  <2>5. CASE Close \/ CloseUnflushed \/ Kill \/ PowerLoss
    <3>1. gen \in Nat /\ gen' = gen + 1
      BY <2>5 DEF Close, CloseUnflushed, Kill, PowerLoss, Stop, HistTypeOK
    <3> QED BY <3>1
  <2>6. CASE Recover
    <3>1. ~(InstallState \/ InstallEmpty)
      BY <2>1 DEF InstallState, InstallEmpty, Opened, StepsOK, Kinds
    <3>2. UNCHANGED <<firstLSN, lastLSN>>
      BY <2>6, <3>1 DEF Recover, OpenDir, ScanSegment, OpenCorrupt, Reconcile, Reconciled,
         TruncateTornTail, TruncateTornTailFails
    <3> QED BY <2>2, <3>2
  <2>7. CASE UNCHANGED vars \/ SyncActive \/ Delete \/ Create
    BY <2>2, <2>7 DEF vars, SyncActive, Delete, RemoveFile, SyncRemoval, RemovalFails,
       Create, CreateOpen, CreateOpenFails, CreateHeader, CreateSync, CreateHeaderFails,
       CreateSyncDir, CreateSyncDirFails
  <2>8. CASE Commit
    <3>1. FinishBatch \/ UNCHANGED <<firstLSN, lastLSN>>
      BY <2>8 DEF Commit, BeginCommit, WriteRecord, WriteRecordFails, CompleteRequest,
         FinishBatchFails, StartRoll, StartRollFails, InstallRoll
    <3> QED BY <2>2, <2>3, <3>1
  <2>9. CASE Drop
    <3>1. \/ FinishTruncate \/ FinishCutBelow \/ FinishCutRewrite \/ FinishCutEverything
          \/ UNCHANGED <<firstLSN, lastLSN>>
      BY <2>9 DEF Drop, Truncate, CutNoop, CutEverything, CutInside, StartDrop,
         ClearLeftover, ClearLeftoverFails, RewriteTemp, RewriteTempFails,
         PublishRewrite, PublishSync, PublishFails
    <3> QED BY <2>2, <2>4, <3>1
  <2> QED BY <2>5, <2>6, <2>7, <2>8, <2>9 DEF Next
<1> QED BY Placement, <1>1, PTL DEF Spec, BoundsMonotone
=============================================================================

------------------------------ MODULE WalStore ------------------------------
(***************************************************************************)
(* One WAL directory over its life: a process opens it, commits, rolls,    *)
(* truncates and cuts, and stops in an orderly way, by being killed, or    *)
(* with the machine losing power, at any step of any of these, recovery    *)
(* included; then another process opens it.                                *)
(*                                                                         *)
(* A kill keeps the page cache, so the files and the directory stay as     *)
(* they are.  A power loss keeps what was fsynced and an arbitrary part of *)
(* the rest.                                                               *)
(***************************************************************************)
EXTENDS WalWriter, WalRecovery

Init ==
  /\ files = [i \in Inodes |-> NewFile]
  /\ dir = << >> /\ durableDir = << >>
  /\ temps = {}
  /\ active = Nil /\ index = << >>
  /\ nextLSN = 0 /\ firstLSN = 0 /\ lastLSN = 0
  /\ pc = "closed" /\ batch = NoBatch /\ job = NoJob /\ fresh = Nil
  /\ gen = 0 /\ faults = << >>
  /\ acked = {} /\ promised = {} /\ floor = 0 /\ cutDone = 0
  /\ crashed = {} /\ corrupt = FALSE

-----------------------------------------------------------------------------
(* The ways to stop.                                                       *)

\* The memory of the process is gone; what is left is its directory.
MemoryLost ==
  /\ active' = Nil /\ index' = << >>
  /\ nextLSN' = 0 /\ firstLSN' = 0 /\ lastLSN' = 0
  /\ pc' = "closed" /\ batch' = NoBatch /\ job' = NoJob /\ fresh' = Nil

Stop(kind) ==
  /\ kind \in RestartKinds
  /\ gen < MaxRestarts
  /\ gen' = gen + 1
  /\ MemoryLost
  /\ UNCHANGED <<temps, faults, floor, cutDone, corrupt>>

\* What is known of a crash: the step and the job it interrupted.
Interrupted ==
  IF pc = "closed" THEN crashed
  ELSE crashed \cup {[at |-> pc, kind |-> job.kind]}

\* Close: the writer has drained its queue and fsyncs a last time.
Close ==
  /\ pc = "idle"
  /\ Stop("close")
  /\ files' = [i \in Inodes |->
                 IF i \in Live(dir, durableDir, Nil, Nil)
                 THEN IF i = active THEN Fsynced(files[i]) ELSE files[i]
                 ELSE NewFile]
  /\ promised' = acked
  /\ UNCHANGED <<dir, durableDir, acked, crashed>>

\* finalFlush only logs a failed fsync; Close goes on.
CloseUnflushed ==
  /\ pc = "idle"
  /\ Fault("sync")
  /\ "close" \in RestartKinds /\ gen < MaxRestarts /\ gen' = gen + 1
  /\ MemoryLost
  /\ files' = Collected(files, Live(dir, durableDir, Nil, Nil))
  /\ UNCHANGED <<dir, durableDir, temps, acked, promised, floor, cutDone, crashed,
                 corrupt>>

Kill ==
  /\ pc # "closed"
  /\ Stop("kill")
  /\ files' = Collected(files, Live(dir, durableDir, Nil, Nil))
  /\ crashed' = Interrupted
  /\ UNCHANGED <<dir, durableDir, acked, promised>>

(***************************************************************************)
(* Of the directory changes since its last fsync any part may survive, and *)
(* of each file a prefix of what was written since its last fsync.         *)
(***************************************************************************)
Unlinked == {b \in DOMAIN durableDir : b \notin DOMAIN dir \/ dir[b] # durableDir[b]}
Linked == {b \in DOMAIN dir : b \notin DOMAIN durableDir}

DirAfterPowerLoss(lost, kept) ==
  [b \in (DOMAIN dir \ lost) \cup kept |->
     IF b \in kept THEN durableDir[b] ELSE dir[b]]

Unsynced == {i \in Inodes : HasUnsynced(files[i])}

PowerLoss ==
  /\ Stop("power")
  /\ \E lost \in SUBSET Linked, kept \in SUBSET Unlinked :
       dir' = DirAfterPowerLoss(lost, kept)
  /\ durableDir' = dir'
  /\ \E keep \in [Unsynced -> 0..MaxLSN], torn \in [Unsynced -> BOOLEAN] :
       /\ \A i \in Unsynced : MaySurvive(files[i], keep[i], torn[i])
       /\ files' = [i \in Inodes |->
            CASE i \notin Range(dir') -> NewFile
              [] i \in Range(dir') \cap Unsynced ->
                   AfterPowerLoss(files[i], keep[i], torn[i])
              [] OTHER -> files[i]]
  /\ acked' = promised
  /\ crashed' = Interrupted
  /\ UNCHANGED promised

-----------------------------------------------------------------------------

Bounds == 1..(MaxLSN + 1)

Commit ==
  \/ \E b \in Batches : BeginCommit(b)
  \/ WriteRecord \/ WriteRecordFails \/ CompleteRequest
  \/ FinishBatch \/ FinishBatchFails
  \/ StartRoll \/ StartRollFails \/ InstallRoll

Create ==
  \/ CreateOpen \/ CreateOpenFails
  \/ CreateHeader \/ CreateSync \/ CreateHeaderFails
  \/ CreateSyncDir \/ CreateSyncDirFails

Drop ==
  \/ "truncate" \in Drops /\ \E upTo \in Bounds : Truncate(upTo)
  \/ "cut" \in Drops /\ \E upTo \in Bounds :
       CutNoop(upTo) \/ CutEverything(upTo) \/ CutInside(upTo)
  \/ ClearLeftover \/ ClearLeftoverFails
  \/ RewriteTemp \/ RewriteTempFails \/ PublishRewrite \/ PublishSync \/ PublishFails
  \/ FinishTruncate \/ FinishCutBelow \/ FinishCutRewrite \/ FinishCutEverything

Recover ==
  \/ OpenDir \/ InstallEmpty
  \/ ScanSegment \/ OpenCorrupt \/ Reconcile \/ Reconciled
  \/ TruncateTornTail \/ TruncateTornTailFails \/ InstallState

Delete == RemoveFile \/ SyncRemoval \/ RemovalFails

Next == Commit \/ SyncActive \/ Create \/ Drop \/ Delete \/ Recover
        \/ Close \/ CloseUnflushed \/ Kill \/ PowerLoss

Spec == Init /\ [][Next]_vars
-----------------------------------------------------------------------------
(* Types.                                                                  *)

PCs == {"closed", "scan", "reconcile", "prune", "idle", "write", "createOpen",
        "createHeader", "createSync", "createSyncDir", "installRoll", "installEmpty",
        "clearLeftover", "rewrite", "publish", "publishSync", "remove"}

JobKinds == {"none", "init", "recover", "roll", "truncate", "cutBelow",
             "cutRewrite", "cutAll"}

DiskTypeOK ==
  /\ files \in [Inodes -> File]
  /\ \A d \in {dir, durableDir} : DOMAIN d \subseteq Nat /\ Range(d) \subseteq Inodes
  /\ temps \subseteq Nat

MemTypeOK ==
  /\ active \in Inodes \cup {Nil}
  /\ index \in Seq(Nat)
  /\ nextLSN \in Nat /\ firstLSN \in Nat /\ lastLSN \in Nat

ControlTypeOK ==
  /\ pc \in PCs
  /\ batch \in [reqs : Seq(Seq(Nat)), cur : SUBSET Rec, done : SUBSET Rec,
                wrote : BOOLEAN]
  /\ job \in [kind : JobKinds, base : Nat, names : Seq(Nat), unlinked : BOOLEAN,
              idx : Seq(Nat), paths : SUBSET Nat, expected : Nat]
  /\ fresh \in Inodes \cup {Nil}

HistTypeOK ==
  /\ gen \in Nat
  /\ faults \in Seq([call : FaultKinds, at : PCs, kind : JobKinds])
  /\ acked \in SUBSET Rec /\ promised \in SUBSET Rec
  /\ floor \in Nat /\ cutDone \in Nat
  /\ crashed \subseteq [at : PCs, kind : JobKinds]
  /\ corrupt \in BOOLEAN

(***************************************************************************)
(* Every field keeps its type: no step reads beyond an index, looks up a   *)
(* name the directory does not have or computes a negative LSN.            *)
(***************************************************************************)
TypeOK == DiskTypeOK /\ MemTypeOK /\ ControlTypeOK /\ HistTypeOK

-----------------------------------------------------------------------------
(* What is on disk and what a reader is shown.                             *)

Contents(names) ==
  UNION {Range(files[dir[b]].data) : b \in names \cap DOMAIN dir}

DiskRecords == Contents(DOMAIN dir)
Visible == {r \in Contents(Range(index)) : r.lsn <= lastLSN}

\* The log is open and no roll, truncate or cut is half done.
Serving == pc \in {"idle", "write"}

-----------------------------------------------------------------------------
(* Safety.                                                                 *)

(***************************************************************************)
(* An append that returned without an error stays readable, with its       *)
(* payload, until a Truncate or CutOffset reaches it: through rolls, cuts  *)
(* and the recovery from a crash in the middle of any of them.  A power    *)
(* loss only takes from acked what the sync policy did not promise.        *)
(***************************************************************************)
AckedReadable ==
  Serving => \A r \in acked : r.lsn >= floor => r \in Visible

(***************************************************************************)
(* The i-th record of a segment file has the LSN base + i - 1, whatever    *)
(* was interrupted or failed: recovery and the readers count on it.        *)
(***************************************************************************)
Placed(i, base) ==
  \A k \in DOMAIN files[i].data : files[i].data[k].lsn = base + k - 1

DenseSegments ==
  \A b \in DOMAIN dir : Placed(dir[b], b)

(***************************************************************************)
(* LSNs are gapless: each segment of the index starts where the one before *)
(* it ends, and the next LSN follows the last record.                      *)
(***************************************************************************)
EndOf(b) == b + Len(files[dir[b]].data)

Gapless ==
  Serving =>
    /\ Range(index) \subseteq DOMAIN dir
    /\ \A k \in 1..(Len(index) - 1) : index[k + 1] = EndOf(index[k])
    /\ nextLSN = EndOf(index[Len(index)])

(***************************************************************************)
(* Between operations only the records of the active segment are at risk:  *)
(* sealed segments and all names are on stable storage, so that fsyncing   *)
(* the active segment, as a commit and Sync do, is enough.                 *)
(***************************************************************************)
SealedDurable ==
  pc = "idle" =>
    /\ durableDir = dir
    /\ \A b \in DOMAIN dir : dir[b] # active => ~HasUnsynced(files[dir[b]])

(***************************************************************************)
(* FirstLSN and LastLSN are those of the records a reader finds, after     *)
(* every operation and every recovery.  An empty log has a FirstLSN of 0;  *)
(* its LastLSN is still the last one assigned, as README.md:159-161 and    *)
(* cut_test.go:142 have it (the comment of LastLSN has another rule, which *)
(* EmptyLogHasNoLastLSN states).                                           *)
(***************************************************************************)
BoundsMatchRecords ==
  pc = "idle" =>
    /\ lastLSN = nextLSN - 1
    /\ IF Visible = {} THEN firstLSN = 0
       ELSE /\ {firstLSN, lastLSN} \subseteq {r.lsn : r \in Visible}
            /\ \A r \in Visible : firstLSN <= r.lsn

(***************************************************************************)
(* What a CutOffset that returned nil has deleted stays deleted: no crash  *)
(* or recovery brings a record below the cut back.                         *)
(***************************************************************************)
CutIsFinal ==
  Serving => \A r \in Visible : r.lsn >= cutDone

(***************************************************************************)
(* With a policy that fsyncs every commit, no record that LastLSN covers,  *)
(* and so none that a reader was shown, can be lost.  (It takes a kill     *)
(* before the fsync and a power loss after the next Open to break this:    *)
(* recovery does not fsync the records it finds.)                          *)
(***************************************************************************)
PublishedDurable ==
  pc = "idle" /\ SyncPolicy # "SyncInterval" =>
    \A b \in DOMAIN dir :
      LET f == files[dir[b]]
      IN  \A i \in DOMAIN f.data : f.data[i].lsn <= lastLSN => i <= f.synced

(***************************************************************************)
(* Open refuses a directory as corrupt only after a crash between the      *)
(* creation of a segment file and the fsync of its header or, where power  *)
(* may take the records of commits that were not fsynced, in the middle of *)
(* a cut.  Every other crash, also one of recovery, is recovered from.     *)
(***************************************************************************)
HeaderWindow == {"createHeader", "createSync"}
CutWindow == {"createSyncDir", "publishSync", "remove"}

\* The segment that a cut replaces may lose records to a power loss.
TailMayBeLost == ~FsyncOnCommit /\ "power" \in RestartKinds

InWindow(at, kind) ==
  \/ at \in HeaderWindow
  \/ TailMayBeLost /\ at \in CutWindow /\ kind \in {"cutRewrite", "cutAll"}

CorruptOnlyInWindows ==
  corrupt => \E c \in crashed : InWindow(c.at, c.kind)

(***************************************************************************)
(* A failed system call leaves nothing behind that costs an acknowledged   *)
(* record, now or in a later recovery, except the failures Debris names.   *)
(***************************************************************************)
Debris(f) ==
  \/ f.call \in {"header", "append", "close"}
  \/ f.call = "dirsync" /\ f.at \in {"createSyncDir", "publishSync"}
  \/ f.at = "remove" /\ f.kind \in {"cutRewrite", "cutAll"}

FaultsContained ==
  (\A i \in DOMAIN faults : ~Debris(faults[i])) => AckedReadable

-----------------------------------------------------------------------------
(* What the documentation says, and the code does not keep.                *)

(***************************************************************************)
(* README: "an interrupted segment roll (empty trailing segment) is        *)
(* reclaimed".                                                             *)
(***************************************************************************)
InterruptedRollReclaimed ==
  corrupt => \A c \in crashed : c.kind # "roll"

(***************************************************************************)
(* doCut: "an interrupted cut leaves an overlap that recovery reconciles   *)
(* rather than losing data"; here once the new segment is durable.         *)
(***************************************************************************)
InterruptedCutReconciled ==
  corrupt => \A c \in crashed :
    ~(c.at = "remove" /\ c.kind \in {"cutRewrite", "cutAll"})

(***************************************************************************)
(* removeSegmentFile: a cut that failed partway leaves a log that works    *)
(* "until recovery reconciles the index".                                  *)
(***************************************************************************)
FailedCutHarmless ==
  (\A i \in DOMAIN faults : faults[i].at = "remove") => AckedReadable

(***************************************************************************)
(* cutEverything: "the new segment is created durably before any delete",  *)
(* so that a file of the directory is the active segment afterwards.       *)
(***************************************************************************)
ActiveIsLinked ==
  pc = "idle" => active \in Range(dir)

(***************************************************************************)
(* LastLSN (wal.go:396): "the highest committed LSN, or 0 if the log is    *)
(* empty".  A cut of everything leaves lastLSN as it was.                  *)
(***************************************************************************)
EmptyLogHasNoLastLSN ==
  pc = "idle" /\ Visible = {} => lastLSN = 0

(***************************************************************************)
(* openAndScanSegments: "the final segment alone may end in a torn or      *)
(* corrupt record".                                                        *)
(***************************************************************************)
SealedDecodes ==
  Serving => \A k \in 1..(Len(index) - 1) : ~ScanFails(files[dir[index[k]]])

-----------------------------------------------------------------------------
(* Action properties.                                                      *)

(***************************************************************************)
(* An LSN is never given out twice: what is acknowledged lies above all    *)
(* that was acknowledged before, also when a cut has emptied the log and   *)
(* recovery has no record to derive the next LSN from.                     *)
(***************************************************************************)
LSNsNeverReused ==
  [][\A r \in acked' \ acked : \A a \in acked : a.lsn < r.lsn]_vars

(***************************************************************************)
(* Only a power loss, a Truncate or a CutOffset takes a record off the     *)
(* disk: no roll, recovery or cut deletes a file that holds the only copy  *)
(* of a record at or above the bound it was given.                         *)
(***************************************************************************)
NoRecordDestroyed ==
  [][gen' = gen =>
       \A r \in DiskRecords : r.lsn >= floor' => r \in DiskRecords']_vars

(***************************************************************************)
(* While a log is open its last LSN never falls, and its first only rises  *)
(* or becomes the zero of an empty log.                                    *)
(***************************************************************************)
BoundsMonotone ==
  [][pc # "closed" /\ gen' = gen /\ active # Nil =>
       /\ lastLSN' >= lastLSN
       /\ firstLSN' = 0 \/ firstLSN' >= firstLSN]_vars
=============================================================================

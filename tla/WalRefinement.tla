--------------------------- MODULE WalRefinement ---------------------------
(***************************************************************************)
(* WalStore implements SharedLog, the log that WalReader and WalFollower   *)
(* read: what they rely on is what the writer's file operations and        *)
(* recovery do, crashes included.  Failed calls are left out but for the   *)
(* few of HarmlessCalls: after others the directory and the index may      *)
(* disagree, or records lie above the last LSN.                            *)
(***************************************************************************)
EXTENDS WalInvariant

\* The directory holds more or less than the index says, until the new index
\* is installed.
Dropping ==
  \/ pc = "remove"
  \/ pc = "publishSync"
  \/ job.kind = "cutAll" /\ pc \in {"createHeader", "createSync", "createSyncDir"}

\* Base LSN -> LSN after the last record.
Segs == [b \in DOMAIN dir |-> EndOf(b)]

UnderWay ==
  IF Dropping
  THEN [doomed |-> Range(job.names) \cap DOMAIN dir,
        bases  |-> Range(job.idx),
        first  |-> IF job.kind = "cutAll" THEN 0 ELSE job.idx[1]]
  ELSE [doomed |-> {}, bases |-> {}, first |-> 0]

SL == INSTANCE SharedLog WITH
  open <- Opened, segs <- Segs, bases <- Range(index), drop <- UnderWay

(***************************************************************************)
(* Every step of the writer is a step of SharedLog or shows the readers    *)
(* nothing; recovery ends in a log whose files, index and bounds agree.    *)
(***************************************************************************)
ImplementsSharedLog == SL!Spec

-----------------------------------------------------------------------------
(* Why it does: what is true of the directory, the index and the bounds    *)
(* while no call fails but those of HarmlessCalls and no request is empty. *)

\* At most those calls fail after which the log is as it was: the ones that write
\* and rename the temporary file of a cut, and, in Open, the one that truncates a
\* torn tail.
HarmlessCalls == {"temp", "rename", "truncate"}
HarmlessFailures == FaultKinds \subseteq HarmlessCalls
NoEmptyRequests == \A b \in Batches : \A k \in DOMAIN b : b[k] # << >>

LastOf(s) == s[Len(s)]

\* The segments the log consists of, once the deletions under way are done.
LogIndex == IF Opened /\ ~Dropping THEN index ELSE job.idx

\* Each segment starts where the one before it ends.
ChainOK ==
  /\ Range(LogIndex) \subseteq DOMAIN dir
  /\ \A k \in 1..(Len(LogIndex) - 1) : LogIndex[k + 1] = Segs[LogIndex[k]]

Pending == IF job.unlinked THEN Range(Tail(job.names)) ELSE Range(job.names)

\* The directory is what is kept and what is still to be deleted.
DeletionOK ==
  LET kept == IF pc = "reconcile" THEN job.paths ELSE Range(job.idx)
  IN  /\ job.unlinked => pc \in {"remove", "reconcile", "prune"} /\ job.names # << >>
      /\ Dropping \/ pc \in {"reconcile", "prune"} =>
           /\ Ascending(job.names) /\ Range(job.names) \cap kept = {}
           /\ DOMAIN dir = Pending \cup kept

ScannedOK ==
  pc = "scan" =>
    /\ DOMAIN dir = Range(job.idx) \cup job.paths
    /\ job.idx # << >> => job.expected = Segs[LastOf(job.idx)]

\* A new segment has its name; only a rewritten one is named later.
NamedOK ==
  /\ HasFresh /\ pc # "publish" => job.base \in DOMAIN dir /\ dir[job.base] = fresh
  /\ job.kind = "init" => DOMAIN dir = (IF HasFresh THEN {1} ELSE {})
  /\ Opened /\ ~Dropping =>
       DOMAIN dir = Range(index) \cup (IF HasFresh /\ job.kind = "roll" THEN {job.base} ELSE {})

ReplacesActive ==
  \/ job.kind = "cutAll"
  \/ job.kind = "cutRewrite" /\ CutsActive

\* The active segment is the last one, and it is empty only in an empty log
\* or before the record that made the log roll.
EndOK ==
  Opened =>
    /\ dir[LastOf(LogIndex)] =
         IF Dropping /\ ReplacesActive THEN fresh ELSE active
    /\ nextLSN = Segs[LastOf(LogIndex)]
    /\ LastOf(LogIndex) < nextLSN \/ Len(LogIndex) = 1 \/ Writing

Committing == pc = "write" \/ job.kind = "roll"
Unpublished == lastLSN + 1 < nextLSN

BatchOK ==
  Committing =>
    /\ batch.wrote => Unpublished
    /\ batch.reqs = << >> /\ ~batch.wrote => ~Unpublished
    /\ batch.reqs # << >> /\ Head(batch.reqs) = << >> => Unpublished
    /\ \A k \in 2..Len(batch.reqs) : batch.reqs[k] # << >>
    /\ job.kind = "roll" => Head(batch.reqs) # << >>

BoundsOK ==
  IF Opened
  THEN /\ index[1] <= lastLSN + 1 /\ lastLSN < nextLSN
       /\ Unpublished => Committing
       /\ firstLSN # 0 => firstLSN = index[1] /\ firstLSN < nextLSN
       /\ firstLSN = 0 /\ ~Unpublished => index[1] = nextLSN
  ELSE lastLSN = 0

\* What the cut or truncate under way will install.
DropPlanOK ==
  LET b == Len(job.names)
  IN  /\ job.kind = "cutAll" /\ ~Dropping =>
           job.names = index /\ LastBase < nextLSN /\ firstLSN # 0
      /\ pc \in {"rewrite", "publish"} =>
           /\ b \in DOMAIN index /\ job.names = SubSeq(index, 1, b)
           /\ job.idx = <<job.base>> \o SubSeq(index, b + 1, Len(index))
           /\ index[b] < job.base /\ job.base < Segs[index[b]]
           /\ firstLSN # 0
      /\ pc = "publish" => job.base + Len(files[fresh].data) = Segs[index[b]]
      /\ Dropping /\ job.kind # "cutAll" =>
           firstLSN <= job.idx[1] /\ job.idx[1] < nextLSN

Agreement ==
  /\ ChainOK /\ DeletionOK /\ ScannedOK /\ NamedOK /\ EndOK
  /\ BatchOK /\ BoundsOK /\ DropPlanOK

-----------------------------------------------------------------------------
(* What is on stable storage while, besides, no process is killed: a kill  *)
(* leaves what it has interrupted in the page cache, and recovery fsyncs   *)
(* neither the directory nor the records it finds.                         *)

NoKills == "kill" \notin RestartKinds

Synced(i) == ~HasUnsynced(files[i])

\* A name has come or gone whose fsync of the directory is still to come.
DirAhead ==
  \/ pc \in {"createHeader", "createSync", "createSyncDir", "publishSync"}
  \/ pc = "createOpen" /\ job.kind = "cutAll"
  \/ job.unlinked

Durable ==
  /\ ~DirAhead => durableDir = dir
  /\ \A b \in DOMAIN dir : dir[b] \notin {active, fresh} => Synced(dir[b])
  /\ HasFresh /\ pc \notin {"createHeader", "createSync"} => Synced(fresh)
  /\ job.kind = "roll" => Synced(active)
  /\ FsyncOnCommit /\ Opened /\ ~Unpublished => Synced(active)
=============================================================================

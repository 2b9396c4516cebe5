---------------------------- MODULE WalInvariant ----------------------------
(***************************************************************************)
(* What is true at every step of WalStore, with any crash and any failed   *)
(* system call: the inductive invariant that the proofs of TypeOK,         *)
(* DenseSegments and BoundsMonotone rest on.                               *)
(***************************************************************************)
EXTENDS WalStore

Ascending(s) == \A j, k \in DOMAIN s : j < k => s[j] < s[k]

-----------------------------------------------------------------------------
(* Control: which job each step belongs to and what it may rely on.        *)

Kinds(p) ==
  CASE p \in {"closed", "idle", "write"} -> {"none"}
    [] p \in {"scan", "reconcile", "prune"} -> {"recover"}
    [] p \in {"createOpen", "createHeader", "createSync", "createSyncDir"} ->
         {"init", "roll", "cutAll"}
    [] p = "installRoll" -> {"roll"}
    [] p = "installEmpty" -> {"init"}
    [] p = "clearLeftover" -> {"cutAll"}
    [] p \in {"rewrite", "publish", "publishSync"} -> {"cutRewrite"}
    [] p = "remove" -> {"truncate", "cutBelow", "cutRewrite", "cutAll"}

DropKinds == {"truncate", "cutBelow", "cutRewrite", "cutAll"}

\* The WAL is open.
Opened == pc \notin {"closed", "scan", "reconcile", "prune"} /\ job.kind # "init"

\* A segment is created or rewritten and not yet installed.
HasFresh ==
  \/ pc \in {"createHeader", "createSync", "createSyncDir", "installRoll",
             "installEmpty", "publish", "publishSync"}
  \/ pc = "remove" /\ job.kind \in {"cutRewrite", "cutAll"}

StepsOK ==
  /\ job.kind \in Kinds(pc)
  /\ IF Opened THEN active \in Inodes /\ index # << >> /\ nextLSN > 0 ELSE active = Nil
  /\ fresh \in Inodes <=> HasFresh
  /\ job.kind = "roll" => batch.reqs # << >>
  /\ job.kind \in DropKinds => job.idx # << >>

(***************************************************************************)
(* Recovery looks up only names that exist: those it has yet to scan lie   *)
(* above those it has collected, and it never deletes one it still needs.  *)
(***************************************************************************)
ScanOK ==
  pc = "scan" =>
    /\ Range(job.idx) \cup job.paths \subseteq DOMAIN dir
    /\ Ascending(job.idx)
    /\ \A k \in DOMAIN job.idx, p \in job.paths : job.idx[k] < p
    /\ job.idx # << >> \/ job.paths # {}

ReconcileOK ==
  pc = "reconcile" =>
    /\ job.idx = << >>
    /\ job.paths # {} /\ job.paths \subseteq DOMAIN dir
    /\ \A k \in DOMAIN job.names, p \in job.paths : job.names[k] < p

PruneOK ==
  pc = "prune" =>
    /\ job.idx # << >> /\ Range(job.idx) \subseteq DOMAIN dir
    /\ Ascending(job.idx)
    /\ Range(job.names) \cap Range(job.idx) = {}

RecoveryOK == ScanOK /\ ReconcileOK /\ PruneOK

ControlOK == TypeOK /\ StepsOK /\ RecoveryOK

-----------------------------------------------------------------------------
(* Placement: where every file's records belong.                           *)

LastBase == index[Len(index)]

\* The directories name the file i under no name but base.
NamedOnly(i, base) ==
  \A d \in {dir, durableDir} : \A c \in DOMAIN d : d[c] = i => c = base

NamesOK ==
  \A d \in {dir, durableDir} : \A b \in DOMAIN d :
    b > 0 /\ Placed(d[b], b) /\ NamedOnly(d[b], b)

\* The active file may have lost its name to a failed cut, never its place.
ActiveOK ==
  Opened =>
    /\ Ascending(index) /\ index[1] > 0
    /\ firstLSN # 0 => index[1] <= firstLSN
    /\ Placed(active, LastBase) /\ NamedOnly(active, LastBase)
    /\ nextLSN = LastBase + Len(ActiveFile.data)

ClosedOK == ~Opened => firstLSN = 0

FreshOK ==
  HasFresh =>
    /\ fresh # active
    /\ Placed(fresh, job.base) /\ NamedOnly(fresh, job.base)
    /\ job.kind # "cutRewrite" => files[fresh].data = << >>
    /\ job.kind = "cutRewrite" /\ CutsActive =>
         nextLSN = job.base + Len(files[fresh].data)

\* What a create, truncate or cut will install continues the log.
PlanOK ==
  /\ job.kind = "init" => job.base = 1
  /\ job.kind = "roll" => job.base = nextLSN /\ LastBase < nextLSN
  /\ job.kind = "cutAll" => job.base = nextLSN /\ job.idx = <<nextLSN>>
  /\ job.kind \in {"truncate", "cutBelow", "cutRewrite"} =>
       /\ Ascending(job.idx) /\ job.idx[1] > 0
       /\ job.kind # "truncate" => job.idx[1] = job.base
       /\ \/ job.idx[Len(job.idx)] = LastBase
          \/ job.kind = "cutRewrite" /\ CutsActive
  /\ pc = "rewrite" =>
       /\ job.names # << >> /\ OldBoundary < job.base
       /\ CutsActive => OldBoundary = LastBase /\ job.base < nextLSN

\* The survivors of a recovery end with a record, unless none has one.
SurvivorsOK ==
  pc = "prune" => Len(job.idx) = 1 \/ ScanRecords(OnDisk(LastCollected)) > 0

PlacementOK ==
  NamesOK /\ ActiveOK /\ ClosedOK /\ FreshOK /\ PlanOK /\ SurvivorsOK

-----------------------------------------------------------------------------
(* The bounds: the first LSN lies in the first segment or starts the       *)
(* second, so that a truncate, which deletes the first, can only raise it. *)

BoundsInOrder ==
  /\ ~Opened => lastLSN = 0
  /\ Opened =>
       /\ lastLSN < nextLSN /\ firstLSN <= nextLSN
       /\ Len(index) > 1 => firstLSN <= index[2]
  /\ job.kind \in {"truncate", "cutBelow", "cutRewrite"} => firstLSN <= job.idx[1]
  \* Recovery collects no segment behind an empty one.
  /\ pc = "scan" /\ Len(job.idx) = 1 => job.expected = EndOf(job.idx[1])
  /\ pc \in {"scan", "prune"} /\ Len(job.idx) > 1 =>
       ScanRecords(OnDisk(job.idx[1])) > 0

IInv == ControlOK /\ PlacementOK /\ BoundsInOrder
=============================================================================

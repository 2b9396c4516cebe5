------------------------------ MODULE WalState ------------------------------
(***************************************************************************)
(* The state one WAL works on: its directory and the files in it, the      *)
(* fields of the WAL struct, and the control state of the one goroutine    *)
(* that is changing them (Open until it returns, then the writer).         *)
(* WalWriter and WalRecovery hold the steps, WalStore puts them together.  *)
(***************************************************************************)
EXTENDS SegmentFile

CONSTANTS
  SyncPolicy,       \* "SyncImmediate", "SyncBatched" or "SyncInterval"
  MaxSegmentSize,   \* soft roll threshold, in units of record size
  Batches,          \* group commits tried: sequences of requests, each a
                    \* sequence of payload sizes
  Drops,            \* what callers use to shorten the log: subset of
                    \* {"truncate", "cut"}
  FaultKinds,       \* system calls that may fail: subset of {"append", "sync",
                    \* "create", "header", "temp", "rename", "remove",
                    \* "dirsync", "close", "truncate"}
  RestartKinds,     \* ways to stop: subset of {"close", "kill", "power"}
  Inodes,           \* identities of files; bounds the files alive at once
  Nil,              \* no file
  MaxLSN,           \* bound: no record is assigned an LSN above it
  MaxFaults,        \* bound: failed system calls in a behaviour
  MaxRestarts       \* bound: times the process stops in a behaviour

ASSUME WalStateAssumption ==
  /\ SyncPolicy \in {"SyncImmediate", "SyncBatched", "SyncInterval"}
  /\ MaxSegmentSize \in Nat
  /\ Nil \notin Inodes
  /\ Batches \subseteq Seq(Seq(Nat))
  /\ MaxLSN \in Nat
  /\ MaxFaults \in Nat
  /\ MaxRestarts \in Nat

VARIABLES
  \* The file system.
  files,      \* [Inodes -> File]
  dir,        \* the directory as the running system sees it: base LSN -> inode
  durableDir, \* the directory as of its last fsync
  temps,      \* base LSNs with a leftover <base>.wal.tmp
  \* The WAL struct.
  active,     \* the inode of w.active, or Nil
  index,      \* w.segmentBaseLSNs
  nextLSN, firstLSN, lastLSN,
  \* Control state.
  pc,         \* what the goroutine does next
  batch,      \* the group commit under way
  job,        \* the create, delete, cut or recovery under way
  fresh,      \* the inode of a segment created but not yet installed, or Nil
  \* History and bounds.
  gen,        \* incarnations that have stopped so far
  faults,     \* the system calls that have failed so far
  acked,      \* records whose append returned without an error
  promised,   \* those the sync policy promises to survive a crash
  floor,      \* Truncate or CutOffset may have dropped the LSNs below this
  cutDone,    \* the highest CutOffset that returned without an error
  crashed,    \* where the process was when it crashed, since the last Open
  corrupt     \* Open has returned ErrCorrupt since the log was last open

disk == <<files, dir, durableDir, temps>>
mem == <<active, index, nextLSN, firstLSN, lastLSN>>
hist == <<acked, promised, floor, cutDone, crashed, corrupt>>
vars == <<disk, mem, pc, batch, job, fresh, gen, faults, hist>>

NoBatch == [reqs |-> << >>, cur |-> {}, done |-> {}, wrote |-> FALSE]

(***************************************************************************)
(* A job: kind; base, the base LSN of the segment to create or publish;    *)
(* names, the segments still to delete, and whether the first is unlinked; *)
(* idx, the segment index to install at the end (the segments collected so *)
(* far during recovery); paths, the segments recovery still has to scan;   *)
(* expected, the base LSN it expects next.                                 *)
(***************************************************************************)
NoJob == [kind |-> "none", base |-> 0, names |-> << >>, unlinked |-> FALSE,
          idx |-> << >>, paths |-> {}, expected |-> 0]

MaxOf(a, b) == IF a >= b THEN a ELSE b
MinOf(a, b) == IF a <= b THEN a ELSE b

\* A system call fails; faults remembers at which step of which job.
Fault(call) ==
  /\ call \in FaultKinds
  /\ Len(faults) < MaxFaults
  /\ faults' = Append(faults, [call |-> call, at |-> pc, kind |-> job.kind])

(***************************************************************************)
(* An inode lives while a directory names it or the WAL has it open; the   *)
(* contents of the others are gone.                                        *)
(***************************************************************************)
Live(d, dd, a, fr) ==
  Range(d) \cup Range(dd) \cup ({a, fr} \cap Inodes)

Collected(fs, live) == [i \in Inodes |-> IF i \in live THEN fs[i] ELSE NewFile]

FreeInodes == Inodes \ Live(dir, durableDir, active, fresh)

Link(d, base, i) == [b \in DOMAIN d \cup {base} |-> IF b = base THEN i ELSE d[b]]
Unlink(d, base) == Restrict(d, DOMAIN d \ {base})

-----------------------------------------------------------------------------
(* removeSegmentFile of the writer and removeOpened of recovery delete the *)
(* segments job.names, one by one: each is unlinked, then the directory is *)
(* fsynced.  A name that is already gone counts as removed.                *)

Deleting == pc \in {"remove", "reconcile", "prune"} /\ job.names # << >>

RemoveFile ==
  /\ Deleting /\ ~job.unlinked
  /\ dir' = Unlink(dir, Head(job.names))
  /\ files' = Collected(files, Live(dir', durableDir, active, fresh))
  /\ job' = [job EXCEPT !.unlinked = TRUE]
  /\ UNCHANGED <<durableDir, temps, mem, pc, batch, fresh, gen, faults, hist>>

SyncRemoval ==
  /\ Deleting /\ job.unlinked
  /\ durableDir' = dir
  /\ files' = Collected(files, Live(dir, dir, active, fresh))
  /\ job' = [job EXCEPT !.unlinked = FALSE, !.names = Tail(job.names)]
  /\ UNCHANGED <<dir, temps, mem, pc, batch, fresh, gen, faults, hist>>

\* Truncate or CutOffset returns an error and closes the replacement it has
\* made; Open returns an error.
RemovalFails ==
  /\ Deleting
  /\ Fault(IF job.unlinked THEN "dirsync" ELSE "remove")
  /\ pc' = IF pc = "remove" THEN "idle" ELSE "closed"
  /\ job' = NoJob
  /\ fresh' = Nil
  /\ files' = Collected(files, Live(dir, durableDir, active, Nil))
  /\ UNCHANGED <<dir, durableDir, temps, mem, batch, gen, hist>>
=============================================================================

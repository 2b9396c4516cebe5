---------------------------- MODULE WalFollower ----------------------------
(***************************************************************************)
(* The Records loop of a follower: rounds of a snapshot and a scan up to   *)
(* it (WalReader), and in follow mode a wait for the next commit between   *)
(* them.  What WalQueue's followers leave out: which records are there.    *)
(***************************************************************************)
EXTENDS WalReader

VARIABLE follower

(***************************************************************************)
(* step: not a follower but a Reader, before a round, in scanBatch, in     *)
(* waitForCommit, or ended; from and end are fromLSN and endLSN; err is    *)
(* how it ended: "stopped" by its caller, a Close or a context.            *)
(***************************************************************************)
NoFollower == [step |-> "none", follow |-> FALSE, from |-> 0, end |-> 0, err |-> "nil"]

Errors == {"nil", "stopped", "truncated", "read"}

followerVars == <<readerVars, follower>>

Follower(from, follow) ==
  /\ cursor.step = "new" /\ follower.step = "none"
  /\ follower' = [NoFollower EXCEPT !.step = "round", !.follow = follow,
                                    !.from = from, !.end = lastLSN]
  /\ UNCHANGED <<log, reader>>

\* highWater and delivered.
HighWater ==
  IF seen # << >> THEN seen[Len(seen)]
  ELSE IF follower.from > 0 THEN follower.from - 1 ELSE 0
Needed == HighWater + 1
Positioned == seen # << >> \/ follower.from > 0

Ends(err) == follower' = [follower EXCEPT !.step = "ended", !.err = err]

\* Mutants: the first record of the log counts as gone; a gap is not noticed.
OvertakenEarly == Positioned /\ Needed <= firstLSN
NoGap(n) == FALSE

\* The records between the position and the log are gone.
Overtaken == Positioned /\ Needed < firstLSN
Gap(n) == Positioned /\ n > Needed

Round ==
  /\ follower.step = "round"
  /\ IF Overtaken
     THEN Ends("truncated") /\ UNCHANGED reader
     ELSE /\ NewCursor(Needed, IF follower.follow THEN lastLSN ELSE follower.end)
          /\ follower' = [follower EXCEPT !.step = "scan"]
          /\ UNCHANGED seen
  /\ UNCHANGED log

\* yield returns false when the caller leaves the loop.
Deliver(n) ==
  /\ follower.step = "scan"
  /\ IF Gap(n)
     THEN /\ Accepts(n)
          /\ cursor' = Stopped("closed")
          /\ Ends("truncated")
          /\ UNCHANGED <<log, seen>>
     ELSE /\ Yield(n)
          /\ UNCHANGED follower \/ Ends("stopped")

BatchDone ==
  /\ follower.step = "scan"
  /\ \/ cursor.step = "failed" /\ Ends("read")
     \/ cursor.step = "ended" /\ ~follower.follow /\ Ends("nil")
     \/ /\ cursor.step = "ended" /\ follower.follow
        /\ follower' = [follower EXCEPT !.step = "waiting"]
  /\ cursor' = NoCursor
  /\ UNCHANGED <<log, seen>>

\* Mutant: the comparison is with the next record, not with the last one.
BehindByTwo == lastLSN > Needed

Behind == lastLSN > HighWater

\* awaitCommit: woken by the next commit, at once if it is there already.
Woken ==
  /\ follower.step = "waiting"
  /\ Behind
  /\ follower' = [follower EXCEPT !.step = "round"]
  /\ UNCHANGED <<log, reader>>

Canceled ==
  /\ follower.step = "waiting"
  /\ Ends("stopped")
  /\ UNCHANGED <<log, reader>>

FollowerStep ==
  \/ Round \/ BatchDone \/ Woken
  \/ \E n \in 1..MaxLSN : Deliver(n)
  \/ follower.step = "scan" /\ Scan /\ UNCHANGED follower

\* The reader or the follower has finished: the writer no longer matters.
Over ==
  \/ follower.step = "ended"
  \/ follower.step = "none" /\ cursor.step \in Finished

FollowerNext ==
  \/ \E from \in 0..(MaxLSN + 1), follow \in BOOLEAN : Follower(from, follow)
  \/ FollowerStep \/ Canceled
  \/ follower.step = "scan" /\ ReadFails /\ UNCHANGED follower
  \/ follower.step = "none" /\ Read /\ UNCHANGED follower
  \/ ~Over /\ Beside(WriterStep) /\ UNCHANGED follower

FollowerInit == ReaderInit /\ follower = NoFollower

FollowerSpec == FollowerInit /\ [][FollowerNext]_followerVars

\* The loop goes on, and the writer finishes what it has begun.
FairFollower ==
  /\ FollowerSpec
  /\ WF_followerVars(FollowerStep)
  /\ WF_followerVars(~Over /\ Beside(Onward) /\ UNCHANGED follower)

-----------------------------------------------------------------------------
(* Properties.                                                             *)

FollowerTypeOK ==
  /\ CursorTypeOK
  /\ follower \in [step : {"none", "round", "scan", "waiting", "ended"},
                   follow : BOOLEAN, from : Nat, end : Nat, err : Errors]

(***************************************************************************)
(* A follower delivers without a gap, from its fromLSN on if it has one,   *)
(* over any number of rounds, while segments are deleted and replaced.     *)
(***************************************************************************)
FollowerContiguous ==
  follower.step # "none" =>
    /\ \A i \in 2..Len(seen) : seen[i] = seen[i - 1] + 1
    /\ follower.from > 0 /\ seen # << >> => seen[1] = follower.from

(***************************************************************************)
(* ErrTruncated is never raised for a record that is still there.          *)
(***************************************************************************)
TruncatedMeansRemoved == follower.err = "truncated" => ~OnDisk(Needed)

(***************************************************************************)
(* A snapshot follower that ends by itself without an error has delivered  *)
(* every record of its snapshot that is still on disk.                     *)
(***************************************************************************)
SnapshotComplete ==
  follower.step = "ended" /\ follower.err = "nil" =>
    \A n \in follower.from..follower.end : OnDisk(n) => n \in Range(seen)

(***************************************************************************)
(* In follow mode every committed record is delivered, or removed, or the  *)
(* loop ends.                                                              *)
(***************************************************************************)
FollowerDelivers ==
  \A n \in 1..MaxLSN :
    follower.follow /\ follower.from <= n /\ n <= lastLSN
      ~> n \in Range(seen) \/ ~OnDisk(n) \/ follower.step = "ended"

(***************************************************************************)
(* README.md:143: when Truncate or CutOffset removes records that a        *)
(* follower has not yet consumed, its iterator ends.  It may still read    *)
(* them in a file it has open.                                             *)
(***************************************************************************)
RemovalEndsLoop ==
  \A n \in 1..MaxLSN :
    follower.follow /\ Positioned /\ Needed = n /\ n <= lastLSN /\ ~OnDisk(n)
      ~> n \in Range(seen) \/ follower.step = "ended"
=============================================================================

----------------------------- MODULE SharedLog -----------------------------
(***************************************************************************)
(* What the writer shows to the readers of an open log: the segment files  *)
(* in the directory and, under w.mu, the segment index and the LSN bounds. *)
(* Each handler of the writer is reduced to the steps a reader can see.    *)
(* WalStore implements this module (WalRefinement).                        *)
(*                                                                         *)
(* The records of a file have consecutive LSNs from its base (WalStore's   *)
(* DenseSegments), so a file is the LSN after its last record.             *)
(***************************************************************************)
EXTENDS Naturals, FiniteSets, Functions

VARIABLES
  open,      \* the log is open
  segs,      \* the segment files: base LSN -> LSN after the last record
  bases,     \* w.segmentBaseLSNs
  nextLSN, firstLSN, lastLSN,
  drop       \* the Truncate or CutOffset under way: the files it has still
             \* to delete, the index and the first LSN it will install

bounds == <<nextLSN, firstLSN, lastLSN>>
log == <<open, segs, bases, bounds, drop>>

NoDrop == [doomed |-> {}, bases |-> {}, first |-> 0]

Holds(b, n) == b \in DOMAIN segs /\ b <= n /\ n < segs[b]
OnDisk(n) == \E b \in DOMAIN segs : Holds(b, n)

IsMin(b, S) == b \in S /\ \A c \in S : b <= c
IsActive(a) == a \in bases /\ \A b \in bases : b <= a
IsEmpty(a) == segs[a] = a

With(b, end) == [c \in DOMAIN segs \cup {b} |-> IF c = b THEN end ELSE segs[c]]

-----------------------------------------------------------------------------
(* commit and roll.                                                        *)

\* roll has created the next segment and not yet installed it.
Rolling == nextLSN \in DOMAIN segs \ bases

Idle == open /\ drop = NoDrop /\ ~Rolling

Write == \E a \in bases :
  /\ Idle /\ IsActive(a)
  /\ segs' = [segs EXCEPT ![a] = nextLSN + 1]
  /\ nextLSN' = nextLSN + 1
  /\ UNCHANGED <<open, bases, firstLSN, lastLSN, drop>>

CreateNext ==
  /\ Idle
  /\ \A a \in bases : IsActive(a) => ~IsEmpty(a)
  /\ segs' = With(nextLSN, nextLSN)
  /\ UNCHANGED <<open, bases, bounds, drop>>

InstallNext ==
  /\ open /\ drop = NoDrop /\ Rolling
  /\ bases' = bases \cup {nextLSN}
  /\ UNCHANGED <<open, segs, bounds, drop>>

\* A commit whose fsync fails publishes nothing; a later one catches up.
Publish == \E f \in bases :
  /\ Idle
  /\ lastLSN + 1 < nextLSN
  /\ IsMin(f, bases)
  /\ lastLSN' = nextLSN - 1
  /\ firstLSN' = IF firstLSN = 0 THEN f ELSE firstLSN
  /\ UNCHANGED <<open, segs, bases, nextLSN, drop>>

-----------------------------------------------------------------------------
(* Truncate and CutOffset: the files they delete go one by one, then the   *)
(* new index and first LSN are installed.                                  *)

Truncate(upTo) ==
  LET doomed == {b \in bases : \E c \in bases : b < c /\ c <= upTo}
  IN  \E f \in bases \ doomed :
        /\ Idle
        /\ doomed # {}
        /\ IsMin(f, bases \ doomed)
        /\ drop' = [doomed |-> doomed, bases |-> bases \ doomed, first |-> f]
        /\ UNCHANGED <<open, segs, bases, bounds>>

Cuts(cut) == Idle /\ firstLSN # 0 /\ firstLSN < cut

\* The cut is the base of a segment.
CutBelow(cut) ==
  /\ Cuts(cut) /\ cut \in bases
  /\ drop' = [doomed |-> {b \in bases : b < cut},
              bases |-> {b \in bases : cut <= b}, first |-> cut]
  /\ UNCHANGED <<open, segs, bases, bounds>>

\* The cut falls into the segment b: seg-<cut> is published with what is kept
\* of it before anything is deleted.
CutInside(cut) == \E b \in bases :
  /\ Cuts(cut) /\ cut < nextLSN
  /\ b < cut /\ \A c \in bases : c < cut => c <= b
  /\ cut \notin bases
  /\ segs' = With(cut, segs[b])
  /\ drop' = [doomed |-> {c \in bases : c < cut},
              bases |-> {cut} \cup {c \in bases : cut < c}, first |-> cut]
  /\ UNCHANGED <<open, bases, bounds>>

\* With an empty active segment the deletions take the new file too
\* (ActiveIsLinked of WalStore); that case is left out.
CutEverything(cut) ==
  /\ Cuts(cut) /\ nextLSN <= cut
  /\ nextLSN \notin bases
  /\ segs' = With(nextLSN, nextLSN)
  /\ drop' = [doomed |-> bases, bases |-> {nextLSN}, first |-> 0]
  /\ UNCHANGED <<open, bases, bounds>>

Delete == \E b \in drop.doomed :
  /\ open /\ IsMin(b, drop.doomed)
  /\ segs' = Restrict(segs, DOMAIN segs \ {b})
  /\ drop' = [drop EXCEPT !.doomed = @ \ {b}]
  /\ UNCHANGED <<open, bases, bounds>>

FinishDrop ==
  /\ open /\ drop # NoDrop /\ drop.doomed = {}
  /\ bases' = drop.bases
  /\ firstLSN' = drop.first
  /\ drop' = NoDrop
  /\ UNCHANGED <<open, segs, nextLSN, lastLSN>>

\* An operation under way goes on.
Onward == InstallNext \/ Delete \/ FinishDrop

WriterStep ==
  \/ Write \/ CreateNext \/ Publish \/ Onward
  \/ \E n \in 1..nextLSN :
       Truncate(n) \/ CutBelow(n) \/ CutInside(n) \/ CutEverything(n)

-----------------------------------------------------------------------------
(* Open and Close.  What happens to the files of a closed log is the       *)
(* business of recovery; it opens with the files, the index and the bounds *)
(* in agreement.                                                           *)

Opened ==
  /\ open /\ drop = NoDrop
  /\ bases = DOMAIN segs
  /\ \E a \in bases : IsActive(a) /\ segs[a] = nextLSN
  /\ \A b \in bases :
       /\ 0 < b /\ b <= segs[b] /\ segs[b] <= nextLSN
       /\ \A c \in bases : b < c => segs[b] <= c
       /\ IsMin(b, bases) => firstLSN = IF b = nextLSN THEN 0 ELSE b
  /\ lastLSN = nextLSN - 1

Stop == ~open'
Reopen == ~open /\ Opened'

Init == open => Opened
Next == WriterStep \/ Stop \/ Reopen

Spec == Init /\ [][Next]_log
=============================================================================

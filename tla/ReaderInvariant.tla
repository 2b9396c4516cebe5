-------------------------- MODULE ReaderInvariant --------------------------
(***************************************************************************)
(* Why no record is skipped: what is true at every step of the log, of the *)
(* cursor over it and of the follower's loop.                              *)
(***************************************************************************)
EXTENDS WalFollower

-----------------------------------------------------------------------------
(* The log.                                                                *)

LogTypeOK ==
  /\ open = TRUE
  /\ segs \in [DOMAIN segs -> Nat] /\ DOMAIN segs \subseteq Nat \ {0}
  /\ bases \in SUBSET Nat /\ bases # {}
  /\ nextLSN \in Nat /\ firstLSN \in Nat /\ lastLSN \in Nat
  /\ drop \in [doomed : SUBSET Nat, bases : SUBSET Nat, first : Nat]

\* The segments that stay.
Survivors == IF drop = NoDrop THEN bases ELSE drop.bases

\* The file b is there, or its name will not come back.
Known(b) == b \in DOMAIN segs \/ \A c \in Survivors : b < c

Disjoint(S) ==
  \A b, c \in S \cap DOMAIN segs : b < c => segs[b] <= c

\* Following the names in S finds the record n: in the file m, or, when that
\* is gone, above it.
LeadBy(m, n) ==
  /\ m <= n
  /\ m \in DOMAIN segs => n < segs[m]
  /\ \A b \in DOMAIN segs : Holds(b, n) => m <= b
Leads(S, n) == \E m \in S : LeadBy(m, n)

FilesOK ==
  /\ \A b \in DOMAIN segs : b <= segs[b] /\ segs[b] <= nextLSN
  /\ DOMAIN segs \subseteq Survivors \cup drop.doomed \cup {nextLSN}
  /\ Disjoint(bases) /\ Disjoint(Survivors)

SurvivorsOK ==
  /\ Survivors # {} /\ Survivors \subseteq DOMAIN segs
  /\ \A b \in Survivors :
       segs[b] = nextLSN \/ (segs[b] \in Survivors /\ b < segs[b])

DropOK ==
  /\ drop.doomed \subseteq bases
  /\ \A b \in drop.doomed, c \in Survivors : b < c
  /\ drop.first # 0 => IsMin(drop.first, drop.bases)

BoundsOK ==
  /\ lastLSN < nextLSN
  /\ \A b \in bases : b <= nextLSN /\ Known(b)
  /\ firstLSN # 0 =>
       /\ IsMin(firstLSN, bases)
       /\ \A b \in DOMAIN segs : firstLSN <= b

IndexLeads == \A n \in 0..nextLSN : OnDisk(n) => Leads(bases, n)

LogInv == LogTypeOK /\ FilesOK /\ SurvivorsOK /\ DropOK /\ BoundsOK /\ IndexLeads

-----------------------------------------------------------------------------
(* The cursor.                                                             *)

InFile(n) == cursor.step = "scan" /\ cursor.file <= n /\ n < Top

\* The reader will come to the record n.
Ahead(n) ==
  /\ cursor.from <= n
  /\ \/ InFile(n)
     \/ cursor.step \in {"next", "scan"} /\ Leads(cursor.names, n)
     \/ /\ cursor.step = "relist"
        /\ \A b \in DOMAIN segs : Holds(b, n) => cursor.missing < b

Reading == cursor.step \in {"next", "relist", "scan"}

CursorOK ==
  /\ Reading =>
       /\ cursor.start <= cursor.from
       /\ \A i \in DOMAIN seen : seen[i] < cursor.from
       /\ \A m \in cursor.names : Known(m)
  /\ cursor.step = "scan" =>
       Known(cursor.file) /\ \A m \in cursor.names : cursor.file < m

Covered ==
  Reading \/ cursor.step = "ended" =>
    /\ cursor.end < nextLSN
    /\ \A n \in cursor.start..cursor.end :
         OnDisk(n) => n \in Range(seen) \/ Ahead(n)

ReaderInv == CursorTypeOK /\ CursorOK /\ Covered /\ YieldsAscend

-----------------------------------------------------------------------------
(* The follower.                                                           *)

FollowerInv ==
  /\ FollowerTypeOK
  /\ follower.end < nextLSN
  /\ follower.step \in {"round", "waiting"} => cursor.step = "new"
  /\ follower.step = "none" /\ cursor.step = "new" => seen = << >>
  /\ follower.step # "ended" => follower.err = "nil"
  /\ follower.step = "waiting" => follower.follow
  /\ follower.step = "scan" => cursor.step \in {"next", "relist", "scan", "ended", "failed"}
  /\ follower.step = "scan" /\ Reading => cursor.from = Needed
  /\ follower.step = "round" /\ ~follower.follow => seen = << >>
  /\ follower.step = "scan" /\ ~follower.follow =>
       /\ cursor.start <= (IF follower.from = 0 THEN 1 ELSE follower.from)
       /\ cursor.end = follower.end

FInv ==
  LogInv /\ ReaderInv /\ FollowerInv /\ FollowerContiguous
    /\ TruncatedMeansRemoved /\ SnapshotComplete
=============================================================================

----------------------------- MODULE WalSurvival -----------------------------
(***************************************************************************)
(* What a crash may leave behind.  At every step of every operation the    *)
(* directory, and the one a power loss may bring back, hold the records    *)
(* that are acknowledged and promised where a reader and recovery look for *)
(* them; what is about to be deleted is not needed.  Survival is inductive *)
(* relative to IInv, Agreement and, where power may fail, Durable.         *)
(***************************************************************************)
EXTENDS WalRefinement

MayLosePower == "power" \in RestartKinds

\* Recovery fsyncs nothing of what it finds after a kill, so that a power loss
\* after it may take what was acknowledged in between.
OneKindOfCrash == NoKills \/ ~MayLosePower

\* The records of f, or those of them that a power loss cannot take.
Extent(f, hard) == IF hard THEN f.synced ELSE Len(f.data)

\* All of f's records are on stable storage.
Whole(f) == f.synced = Len(f.data)

\* The segment b has the record r, and no later one may: it is where a reader
\* looks for r, and where recovery leaves it.
Home(fs, d, r, b, hard) ==
  /\ b <= r.lsn /\ r.lsn < b + Extent(fs[d[b]], hard)
  /\ fs[d[b]].data[r.lsn - b + 1] = r
  /\ \A c \in DOMAIN d : b < c => r.lsn < c

\* The records A are kept from the LSN fl on, and no LSN of theirs will be used
\* again.
Kept(fs, d, fl, A, hard) ==
  \A r \in A :
    /\ fl <= r.lsn => \E b \in DOMAIN d : Home(fs, d, r, b, hard)
    /\ \E b \in DOMAIN d : r.lsn < b + Extent(fs[d[b]], hard)

\* The records of f from the LSN c on are also in g.
CopiedTo(f, c, g) == \A r \in Range(f.data) : c <= r.lsn => r \in Range(g.data)

\* Two segments overlap only where a cut has rewritten the first as the second.
CutOverlaps(fs, d, fl) ==
  \A b, c \in DOMAIN d : b < c /\ c < b + Len(fs[d[b]].data) =>
    c <= fl /\ Whole(fs[d[c]]) /\ CopiedTo(fs[d[b]], c, fs[d[c]])

\* Nothing is left below the last cut.
CutOff(d, cut) ==
  /\ \A b \in DOMAIN d : cut <= b
  /\ DOMAIN d = {} => cut = 0

\* What a directory must be like if a crash may leave it.
Sound(fs, d, fl, P, cut) ==
  /\ MayLosePower => Kept(fs, d, fl, P, TRUE)
  /\ CutOverlaps(fs, d, fl)
  /\ CutOff(d, cut)

\* Records that are acknowledged, or will be if the commit ends well.
Answered == acked \cup batch.cur \cup batch.done

DirsOK ==
  /\ Kept(files, dir, floor, Answered, FALSE)
  /\ Sound(files, dir, floor, promised, cutDone)
  /\ MayLosePower => Sound(files, durableDir, floor, promised, cutDone)

\* A power loss leaves one of the two directories: they differ in one name.
OneApart(d, dd) ==
  \E b \in {0} \cup DOMAIN d \cup DOMAIN dd :
    /\ DOMAIN d \ {b} = DOMAIN dd \ {b}
    /\ \A c \in DOMAIN d \ {b} : d[c] = dd[c]

SameDir(d, dd) == DOMAIN d = DOMAIN dd /\ \A b \in DOMAIN d : d[b] = dd[b]

StorageOK ==
  /\ \A i \in Inodes : files[i].synced <= Len(files[i].data)
  /\ MayLosePower =>
       /\ OneApart(dir, durableDir)
       /\ pc = "createOpen" => SameDir(dir, durableDir)

\* What is deleted is below the bound or kept elsewhere, and its LSNs are known
\* to be used by what is kept.
Dispensable(b, kept) ==
  /\ \A r \in Range(files[dir[b]].data) :
       floor <= r.lsn => \E c \in kept : b < c /\ r \in Range(files[dir[c]].data)
  /\ \E c \in kept :
       b < c \/ (pc = "prune" /\ files[dir[b]].data = << >> /\ b <= Segs[c])

DoomedOK ==
  LET kept == IF pc = "reconcile" THEN job.paths ELSE Range(job.idx)
  IN  Dropping \/ pc \in {"reconcile", "prune"} =>
        \A b \in Range(job.names) \cap DOMAIN dir : Dispensable(b, kept)

RewriteOK ==
  pc = "publish" =>
    /\ Whole(files[fresh])
    /\ \A b \in DOMAIN dir : b < job.base =>
         CopiedTo(files[dir[b]], job.base, files[fresh])

FloorOK ==
  /\ job.kind \in {"cutBelow", "cutRewrite", "cutAll"} => job.base <= floor
  /\ job.kind = "truncate" => job.idx[1] <= floor

AcksOK ==
  /\ promised \subseteq acked
  /\ Opened => \A r \in acked : r.lsn <= lastLSN
  /\ \A r \in batch.cur \cup batch.done : lastLSN < r.lsn /\ r.lsn < nextLSN
  /\ ~batch.wrote => batch.done = {}
  /\ ~Committing => batch.cur = {} /\ batch.done = {}

Survival == DirsOK /\ StorageOK /\ DoomedOK /\ RewriteOK /\ FloorOK /\ AcksOK

-----------------------------------------------------------------------------
(* What Open needs: a directory without a gap, in which every segment has  *)
(* a header and only the last one may end in a torn record.                *)

\* A header that recovery can read, after a power loss too.
HasHeader(f) == IF MayLosePower THEN f.hdr = "durable" ELSE f.hdr # "absent"

\* c is the name that follows b.
NextName(d, b, c) == b < c /\ \A x \in DOMAIN d : x <= b \/ c <= x

Scannable(fs, d) ==
  \A b \in DOMAIN d :
    /\ HasHeader(fs[d[b]])
    /\ \A c \in DOMAIN d : b < c => fs[d[b]].junk = 0
    /\ \A c \in DOMAIN d : NextName(d, b, c) => c <= b + Len(fs[d[b]].data)

\* Power may take records from the last segment only.
TailOnly(fs, d) == \A b, c \in DOMAIN d : b < c => Whole(fs[d[b]])

\* The directory without the segment whose header is still to be fsynced.
Constructing == pc \in HeaderWindow
Built == IF Constructing THEN Unlink(dir, job.base) ELSE dir

TailExposed == ~Constructing /\ InWindow(pc, job.kind)

RecoverableOK ==
  (\A c \in crashed : ~InWindow(c.at, c.kind)) =>
    /\ Scannable(files, Built)
    /\ MayLosePower /\ ~TailExposed =>
         /\ Scannable(files, durableDir)
         /\ TailOnly(files, Built) /\ TailOnly(files, durableDir)

\* Whatever crash recovery runs after, what it has scanned it could read.
ReadOK ==
  pc \in {"scan", "prune"} => \A k \in DOMAIN job.idx :
    /\ HasHeader(OnDisk(job.idx[k]))
    /\ ScanFails(OnDisk(job.idx[k])) => pc = "scan" /\ job.paths = {} /\ k = Len(job.idx)

\* In an open log every file decodes to its end.
CleanOK ==
  /\ Opened => crashed = {} /\ \A b \in DOMAIN Built : ~ScanFails(files[Built[b]])
  /\ HasFresh =>
       /\ ~ScanFails(files[fresh])
       /\ pc = "createHeader" => files[fresh].hdr = "absent"
       /\ pc = "createSync" => files[fresh].hdr = "cached"
       /\ pc \notin HeaderWindow => files[fresh].hdr = "durable"

\* Names come and go at the ends of the directory, so that no gap opens: a
\* truncate or a cut deletes from below what it keeps, recovery prunes the last,
\* and a new segment starts where the last one ends.
EndsOK ==
  /\ Constructing => \A b \in DOMAIN Built :
       /\ b < job.base
       /\ (\A c \in DOMAIN Built : c <= b) => job.base <= EndOf(b)
  /\ Dropping => \A b \in Range(job.names), c \in Range(job.idx) : b < c
  /\ pc = "prune" => \A b \in Range(job.names), c \in DOMAIN dir : c <= b

Reopens == RecoverableOK /\ ReadOK /\ CleanOK /\ EndsOK
=============================================================================

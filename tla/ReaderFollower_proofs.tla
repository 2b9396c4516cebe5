----------------------- MODULE ReaderFollower_proofs -----------------------
(***************************************************************************)
(* LogInv is kept by every step of the writer, and Effect is what such a   *)
(* step may do to the files: all that the rest uses of the writer.  FInv   *)
(* is an invariant of FollowerSpec, and what follows from it: a            *)
(* reader misses no record that is still there, a follower leaves no gap,  *)
(* and raises ErrTruncated only for records that are gone.                 *)
(***************************************************************************)
EXTENDS ReaderInvariant, TLAPS

-----------------------------------------------------------------------------
(* A step of the writer.                                                   *)

Effect ==
  /\ nextLSN <= nextLSN'
  /\ \A b \in DOMAIN segs' : \A n \in 0..(nextLSN - 1) :
       b <= n /\ n < segs'[b] =>
         \E a \in DOMAIN segs : Holds(a, n) /\ a <= b
  /\ \A b \in DOMAIN segs \cap DOMAIN segs' : segs[b] <= segs'[b]
  /\ \A b \in DOMAIN segs' \ DOMAIN segs : \E c \in Survivors : c <= b
  /\ \A b \in DOMAIN segs \ DOMAIN segs' : \A c \in Survivors' : b < c
  /\ \A c \in Survivors' : \E d \in Survivors : d <= c

-----------------------------------------------------------------------------
(* What an effect leaves true.                                             *)

LEMMA KnownKept ==
  ASSUME LogInv, LogInv', Effect, NEW m \in Nat, Known(m)
  PROVE  Known(m)'
<1>1. /\ Survivors \subseteq Nat /\ Survivors' \subseteq Nat
      /\ DOMAIN segs \subseteq Nat
  BY DEF LogInv, LogTypeOK, SurvivorsOK
<1>2. CASE m \in DOMAIN segs
  BY <1>2 DEF Known, Effect
<1>3. CASE m \notin DOMAIN segs
  <2>1. \A c \in Survivors : m < c
    BY <1>3 DEF Known
  <2>2. \A c \in Survivors' : \E d \in Survivors : d <= c
    BY DEF Effect
  <2>3. \A c \in Survivors' : m < c
    BY <1>1, <2>1, <2>2
  <2> QED BY <2>3 DEF Known
<1> QED BY <1>2, <1>3

LEMMA OnDiskKept ==
  ASSUME LogInv, LogInv', Effect, NEW n \in 0..(nextLSN - 1), OnDisk(n)'
  PROVE  OnDisk(n)
BY DEF OnDisk, Holds, Effect

LEMMA LeadsKept ==
  ASSUME LogTypeOK, LogTypeOK', SurvivorsOK, Effect, NEW n \in 0..(nextLSN - 1),
         NEW m \in Nat, Known(m), LeadBy(m, n)
  PROVE  LeadBy(m, n)'
<1>1. /\ DOMAIN segs \subseteq Nat /\ DOMAIN segs' \subseteq Nat
      /\ Survivors \subseteq Nat /\ n \in Nat
      /\ \A b \in DOMAIN segs : segs[b] \in Nat
      /\ \A b \in DOMAIN segs' : segs'[b] \in Nat
  BY DEF LogTypeOK, SurvivorsOK
<1>2. ASSUME m \in DOMAIN segs' PROVE n < segs'[m]
  <2>1. CASE m \in DOMAIN segs
    <3>1. n < segs[m]
      BY <2>1 DEF LeadBy
    <3>2. segs[m] <= segs'[m]
      BY <1>2, <2>1 DEF Effect
    <3> QED BY <1>1, <1>2, <2>1, <3>1, <3>2
  <2>2. CASE m \notin DOMAIN segs
    <3>1. PICK c \in Survivors : c <= m
      BY <1>2, <2>2 DEF Effect
    <3>2. m < c
      BY <2>2 DEF Known
    <3> QED BY <1>1, <3>1, <3>2
  <2> QED BY <2>1, <2>2
<1>3. ASSUME NEW b \in DOMAIN segs', b <= n, n < segs'[b] PROVE m <= b
  <2>1. PICK a \in DOMAIN segs : Holds(a, n) /\ a <= b
    BY <1>3 DEF Effect
  <2>2. m <= a
    BY <2>1 DEF LeadBy
  <2> QED BY <1>1, <2>1, <2>2
<1> QED BY <1>2, <1>3 DEF LeadBy, Holds

\* The index goes on to lead to every record where it only grows.
LEMMA IndexKept ==
  ASSUME LogInv, LogTypeOK', Effect, bases \subseteq bases',
         \A b \in DOMAIN segs' : segs'[b] <= nextLSN
  PROVE  IndexLeads'
<1> SUFFICES ASSUME NEW n \in 0..nextLSN', OnDisk(n)'
             PROVE  Leads(bases, n)'
  BY DEF IndexLeads
<1>1. PICK b \in DOMAIN segs' : b <= n /\ n < segs'[b]
  BY DEF OnDisk, Holds
<1>2. n \in 0..(nextLSN - 1)
  <2>1. segs'[b] \in Nat /\ segs'[b] <= nextLSN /\ nextLSN \in Nat
    BY DEF LogTypeOK, LogInv
  <2> QED BY <1>1, <2>1
<1>3. OnDisk(n)
  BY <1>1, <1>2 DEF OnDisk, Effect
<1>4. PICK m \in bases : LeadBy(m, n)
  <2>1. n \in 0..nextLSN
    BY <1>2 DEF LogInv, LogTypeOK
  <2> QED BY <1>3, <2>1 DEF LogInv, IndexLeads, Leads
<1>5. LeadBy(m, n)'
  BY <1>2, <1>4, LeadsKept DEF LogInv, LogTypeOK, BoundsOK
<1> QED BY <1>4, <1>5 DEF Leads

-----------------------------------------------------------------------------
(* What the drop under way says.                                           *)

LEMMA Undropped ==
  ASSUME LogInv, drop = NoDrop
  PROVE  /\ Survivors = bases /\ bases \subseteq DOMAIN segs
         /\ DOMAIN segs \subseteq bases \cup {nextLSN}
BY DEF LogInv, Survivors, SurvivorsOK, FilesOK, NoDrop

LEMMA IdleLog ==
  ASSUME LogInv, Idle
  PROVE  drop = NoDrop /\ Survivors = bases /\ DOMAIN segs = bases
BY Undropped DEF Idle, Rolling

LEMMA Dropping ==
  ASSUME LogInv, drop # NoDrop
  PROVE  Survivors = drop.bases
BY DEF Survivors

LEMMA WriteKeeps ==
  ASSUME LogInv, Write
  PROVE  LogInv' /\ Effect
<1>1. PICK a \in bases :
        /\ IsActive(a) /\ segs' = [segs EXCEPT ![a] = nextLSN + 1]
        /\ nextLSN' = nextLSN + 1
        /\ UNCHANGED <<open, bases, firstLSN, lastLSN, drop>>
  BY DEF Write
<1>2. drop = NoDrop /\ Survivors = bases /\ DOMAIN segs = bases
  BY IdleLog DEF Write
<1>3. /\ Survivors' = Survivors /\ DOMAIN segs' = DOMAIN segs
      /\ segs'[a] = nextLSN + 1
      /\ \A b \in DOMAIN segs : b # a => segs'[b] = segs[b]
  BY <1>1, <1>2 DEF Survivors, LogInv, LogTypeOK
<1>4. LogTypeOK'
  BY <1>1, <1>2, <1>3 DEF LogInv, LogTypeOK
<1>5. segs[a] = nextLSN /\ \A b \in bases : b <= a
  BY <1>1, <1>2 DEF LogInv, LogTypeOK, SurvivorsOK, IsActive
<1>6. FilesOK'
  <2>1. \A b \in DOMAIN segs' : b <= segs'[b] /\ segs'[b] <= nextLSN'
    BY <1>1, <1>2, <1>3, <1>5 DEF LogInv, LogTypeOK, FilesOK
  <2>2. Disjoint(bases)'
    BY <1>1, <1>2, <1>3, <1>5 DEF LogInv, LogTypeOK, FilesOK, Disjoint
  <2> QED BY <1>1, <1>2, <1>3, <2>1, <2>2 DEF FilesOK
<1>7. SurvivorsOK'
  <2>1. ASSUME NEW b \in bases
        PROVE  segs'[b] = nextLSN' \/ (segs'[b] \in bases /\ b < segs'[b])
    <3>1. CASE b = a
      BY <1>1, <1>3, <3>1
    <3>2. CASE b # a /\ segs[b] = nextLSN
      <4>1. b < a /\ segs[b] <= a /\ a <= segs[a]
        BY <1>2, <1>5, <3>2 DEF LogInv, LogTypeOK, FilesOK, Disjoint
      <4>2. segs[b] = a
        BY <1>2, <1>5, <3>2, <4>1 DEF LogInv, LogTypeOK
      <4> QED BY <1>2, <1>3, <3>2, <4>1, <4>2
    <3>3. CASE b # a /\ segs[b] # nextLSN
      BY <1>2, <1>3, <3>3 DEF LogInv, SurvivorsOK
    <3> QED BY <3>1, <3>2, <3>3
  <2> QED BY <1>1, <1>2, <1>3, <2>1 DEF SurvivorsOK, LogInv
<1>8. DropOK'
  BY <1>1, <1>3 DEF DropOK, LogInv, IsMin
<1>9. BoundsOK'
  BY <1>1, <1>2, <1>3 DEF BoundsOK, LogInv, LogTypeOK, IsMin, Known
<1>10. Effect
  BY <1>1, <1>2, <1>3, <1>5 DEF Effect, LogInv, LogTypeOK, Holds, FilesOK
<1>11. IndexLeads'
  <2> SUFFICES ASSUME NEW n \in 0..nextLSN', OnDisk(n)'
               PROVE  Leads(bases, n)'
    BY DEF IndexLeads
  <2>1. PICK b \in DOMAIN segs' : b <= n /\ n < segs'[b]
    BY DEF OnDisk, Holds
  <2>2. LeadBy(b, n)'
    BY <1>2, <1>3, <1>4, <1>6, <2>1, <1>1 DEF LeadBy, Holds, FilesOK, Disjoint, LogTypeOK
  <2> QED BY <1>1, <1>2, <1>3, <2>1, <2>2 DEF Leads
<1> QED BY <1>4, <1>6, <1>7, <1>8, <1>9, <1>10, <1>11 DEF LogInv

\* A file is added under a name that none has had.
LEMMA Added ==
  ASSUME LogInv, NEW b \in Nat, NEW end \in Nat, segs' = With(b, end)
  PROVE  /\ DOMAIN segs' = DOMAIN segs \cup {b}
         /\ segs'[b] = end
         /\ \A c \in DOMAIN segs : c # b => segs'[c] = segs[c]
         /\ segs' \in [DOMAIN segs' -> Nat]
BY DEF With, LogInv, LogTypeOK

LEMMA CreateNextKeeps ==
  ASSUME LogInv, CreateNext
  PROVE  LogInv' /\ Effect
<1>1. /\ drop = NoDrop /\ Survivors = bases /\ DOMAIN segs = bases
      /\ segs' = With(nextLSN, nextLSN)
      /\ UNCHANGED <<open, bases, nextLSN, firstLSN, lastLSN, drop>>
  BY IdleLog DEF CreateNext, bounds
<1>2. nextLSN \in Nat \ {0} /\ nextLSN \notin bases
  <2>1. nextLSN \in Nat \ {0}
    BY DEF LogInv, LogTypeOK, BoundsOK
  <2>2. ASSUME nextLSN \in bases PROVE FALSE
    <3>1. IsActive(nextLSN)
      BY <2>2 DEF IsActive, LogInv, BoundsOK
    <3>2. segs[nextLSN] = nextLSN
      BY <1>1, <2>2 DEF LogInv, FilesOK, LogTypeOK
    <3> QED BY <2>2, <3>1, <3>2 DEF CreateNext, IsEmpty
  <2> QED BY <2>1, <2>2
<1>3. /\ DOMAIN segs' = DOMAIN segs \cup {nextLSN} /\ segs'[nextLSN] = nextLSN
      /\ \A c \in DOMAIN segs : segs'[c] = segs[c]
      /\ segs' \in [DOMAIN segs' -> Nat]
  BY <1>1, <1>2, Added
<1>4. Survivors' = Survivors
  BY <1>1 DEF Survivors
<1>5. LogTypeOK'
  BY <1>1, <1>2, <1>3 DEF LogInv, LogTypeOK
<1>6. FilesOK'
  BY <1>1, <1>2, <1>3, <1>4 DEF LogInv, LogTypeOK, FilesOK, Disjoint
<1>7. SurvivorsOK'
  BY <1>1, <1>2, <1>3, <1>4 DEF LogInv, SurvivorsOK
<1>8. DropOK'
  BY <1>1, <1>4 DEF DropOK, LogInv, IsMin
<1>9. BoundsOK'
  BY <1>1, <1>2, <1>3, <1>4 DEF BoundsOK, LogInv, LogTypeOK, IsMin, Known
<1>10. Effect
  <2>1. \E c \in Survivors : c <= nextLSN
    BY <1>1 DEF LogInv, LogTypeOK, BoundsOK
  <2> QED BY <1>1, <1>2, <1>3, <1>4, <2>1 DEF Effect, LogInv, LogTypeOK, Holds
<1>11. IndexLeads'
  BY <1>1, <1>2, <1>3, <1>5, <1>10, IndexKept DEF LogInv, LogTypeOK, FilesOK
<1> QED BY <1>5, <1>6, <1>7, <1>8, <1>9, <1>10, <1>11 DEF LogInv

LEMMA InstallNextKeeps ==
  ASSUME LogInv, InstallNext
  PROVE  LogInv' /\ Effect
<1>1. /\ drop = NoDrop /\ Survivors = bases /\ nextLSN \in DOMAIN segs \ bases
      /\ DOMAIN segs = bases \cup {nextLSN}
      /\ bases' = bases \cup {nextLSN}
      /\ UNCHANGED <<open, segs, nextLSN, firstLSN, lastLSN, drop>>
  BY Undropped DEF InstallNext, Rolling, bounds
<1>2. Survivors' = bases'
  BY <1>1 DEF Survivors
<1>3. segs[nextLSN] = nextLSN
  BY <1>1 DEF LogInv, FilesOK, LogTypeOK
<1>4. LogTypeOK'
  BY <1>1 DEF LogInv, LogTypeOK
<1>5. FilesOK'
  BY <1>1, <1>2, <1>3 DEF LogInv, LogTypeOK, FilesOK, BoundsOK, Disjoint
<1>6. SurvivorsOK'
  <2>1. \A b \in bases : b # nextLSN /\ b <= nextLSN
    BY <1>1 DEF LogInv, BoundsOK
  <2> QED BY <1>1, <1>2, <1>3, <2>1 DEF LogInv, LogTypeOK, SurvivorsOK
<1>7. DropOK'
  BY <1>1, <1>2 DEF DropOK, LogInv, IsMin, NoDrop
<1>8. BoundsOK'
  BY <1>1, <1>2 DEF BoundsOK, LogInv, LogTypeOK, IsMin, Known
<1>9. Effect
  <2>1. \A c \in Survivors' : \E d \in Survivors : d <= c
    BY <1>1, <1>2 DEF LogInv, LogTypeOK, BoundsOK
  <2> QED BY <1>1, <2>1 DEF Effect, LogInv, LogTypeOK, Holds
<1>10. IndexLeads'
  BY <1>1, <1>4, <1>9, IndexKept DEF LogInv, FilesOK
<1> QED BY <1>4, <1>5, <1>6, <1>7, <1>8, <1>9, <1>10 DEF LogInv

LEMMA PublishKeeps ==
  ASSUME LogInv, Publish
  PROVE  LogInv' /\ Effect
<1>1. PICK f \in bases :
        /\ IsMin(f, bases)
        /\ lastLSN' = nextLSN - 1
        /\ firstLSN' = IF firstLSN = 0 THEN f ELSE firstLSN
        /\ UNCHANGED <<open, segs, bases, nextLSN, drop>>
  BY DEF Publish
<1>2. drop = NoDrop /\ Survivors = bases /\ DOMAIN segs = bases
  BY IdleLog DEF Publish
<1>3. Survivors' = Survivors
  BY <1>1 DEF Survivors
<1>4. LogTypeOK'
  BY <1>1 DEF LogInv, LogTypeOK, BoundsOK
<1>5. FilesOK' /\ SurvivorsOK' /\ DropOK'
  BY <1>1, <1>3 DEF LogInv, FilesOK, SurvivorsOK, DropOK, Disjoint, IsMin
<1>6. BoundsOK'
  BY <1>1, <1>2, <1>3 DEF BoundsOK, LogInv, LogTypeOK, IsMin, Known
<1>7. Effect
  BY <1>1, <1>3 DEF Effect, LogInv, LogTypeOK, Holds, SurvivorsOK
<1>8. IndexLeads'
  BY <1>1, <1>4, <1>7, IndexKept DEF LogInv, FilesOK
<1> QED BY <1>4, <1>5, <1>6, <1>7, <1>8 DEF LogInv

-----------------------------------------------------------------------------
(* The drops.                                                              *)

\* The drop of a prefix of the index begins.
LEMMA PrefixDropped ==
  ASSUME LogInv, Idle, UNCHANGED <<open, segs, bases, bounds>>,
         NEW doomed \in SUBSET bases, NEW f \in bases \ doomed,
         IsMin(f, bases \ doomed),
         \A b \in doomed, c \in bases \ doomed : b < c,
         drop' = [doomed |-> doomed, bases |-> bases \ doomed, first |-> f]
  PROVE  LogInv' /\ Effect
<1>1. drop = NoDrop /\ Survivors = bases /\ DOMAIN segs = bases
  BY IdleLog
<1>2. UNCHANGED <<open, segs, bases, nextLSN, firstLSN, lastLSN>>
  BY DEF bounds
<1>3. Survivors' = bases \ doomed
  <2>1. drop' # NoDrop
    BY DEF NoDrop
  <2> QED BY <2>1 DEF Survivors
<1>4. LogTypeOK'
  BY <1>2 DEF LogInv, LogTypeOK
<1>5. FilesOK'
  BY <1>1, <1>2, <1>3 DEF LogInv, FilesOK, Disjoint
<1>6. SurvivorsOK'
  <2>1. ASSUME NEW b \in bases \ doomed, segs[b] # nextLSN
        PROVE  segs[b] \in bases \ doomed /\ b < segs[b]
    <3>1. segs[b] \in bases /\ b < segs[b]
      BY <1>1, <2>1 DEF LogInv, SurvivorsOK
    <3>2. segs[b] \notin doomed
      BY <2>1, <3>1 DEF LogInv, LogTypeOK
    <3> QED BY <3>1, <3>2
  <2> QED BY <1>1, <1>2, <1>3, <2>1 DEF SurvivorsOK
<1>7. DropOK'
  BY <1>2, <1>3 DEF DropOK, IsMin
<1>8. BoundsOK'
  BY <1>1, <1>2, <1>3 DEF BoundsOK, LogInv, LogTypeOK, IsMin, Known
<1>9. Effect
  BY <1>1, <1>2, <1>3 DEF Effect, LogInv, LogTypeOK, Holds
<1>10. IndexLeads'
  BY <1>2, <1>4, <1>9, IndexKept DEF LogInv, FilesOK
<1> QED BY <1>4, <1>5, <1>6, <1>7, <1>8, <1>9, <1>10 DEF LogInv

LEMMA TruncateKeeps ==
  ASSUME LogInv, NEW upTo \in Nat, Truncate(upTo)
  PROVE  LogInv' /\ Effect
<1> DEFINE doomed == {b \in bases : \E c \in bases : b < c /\ c <= upTo}
<1>1. PICK f \in bases \ doomed :
        /\ IsMin(f, bases \ doomed)
        /\ drop' = [doomed |-> doomed, bases |-> bases \ doomed, first |-> f]
        /\ Idle /\ UNCHANGED <<open, segs, bases, bounds>>
  BY DEF Truncate
<1>2. ASSUME NEW b \in doomed, NEW c \in bases \ doomed PROVE b < c
  <2>1. PICK d \in bases : b < d /\ d <= upTo
    OBVIOUS
  <2>2. b \in Nat /\ c \in Nat /\ d \in Nat
    BY <2>1 DEF LogInv, LogTypeOK
  <2>3. ~(c < d)
    BY <2>1
  <2> QED BY <2>1, <2>2, <2>3
<1> HIDE DEF doomed
<1>3. doomed \subseteq bases
  BY DEF doomed
<1> QED BY <1>1, <1>2, <1>3, PrefixDropped

LEMMA CutBelowKeeps ==
  ASSUME LogInv, NEW cut \in Nat, CutBelow(cut)
  PROVE  LogInv' /\ Effect
<1> DEFINE doomed == {b \in bases : b < cut}
<1>1. /\ Idle /\ cut \in bases /\ UNCHANGED <<open, segs, bases, bounds>>
      /\ drop' = [doomed |-> doomed, bases |-> {b \in bases : cut <= b}, first |-> cut]
  BY DEF CutBelow, Cuts
<1>2. {b \in bases : cut <= b} = bases \ doomed
  BY DEF LogInv, LogTypeOK
<1>3. doomed \subseteq bases /\ cut \in bases \ doomed /\ IsMin(cut, bases \ doomed)
  BY <1>1, <1>2 DEF IsMin
<1>4. \A b \in doomed, c \in bases \ doomed : b < c
  BY DEF LogInv, LogTypeOK
<1> HIDE DEF doomed
<1> QED BY <1>1, <1>2, <1>3, <1>4, PrefixDropped

LEMMA CutInsideKeeps ==
  ASSUME LogInv, NEW cut \in Nat, CutInside(cut)
  PROVE  LogInv' /\ Effect
<1> DEFINE doomed == {c \in bases : c < cut}
           above == {c \in bases : cut < c}
<1>1. PICK b \in bases :
        /\ Cuts(cut) /\ cut < nextLSN
        /\ b < cut /\ \A c \in bases : c < cut => c <= b
        /\ cut \notin bases
        /\ segs' = With(cut, segs[b])
        /\ drop' = [doomed |-> doomed, bases |-> {cut} \cup above, first |-> cut]
        /\ UNCHANGED <<open, bases, nextLSN, firstLSN, lastLSN>>
  BY DEF CutInside, bounds
<1>2. drop = NoDrop /\ Survivors = bases /\ DOMAIN segs = bases
  BY <1>1, IdleLog DEF Cuts
<1>3. Survivors' = {cut} \cup above
  <2>1. drop' # NoDrop
    BY <1>1 DEF NoDrop
  <2> QED BY <1>1, <2>1 DEF Survivors
<1>4. segs[b] \in Nat /\ bases \subseteq Nat \ {0} /\ nextLSN \in Nat
  BY <1>2 DEF LogInv, LogTypeOK
<1>5. /\ DOMAIN segs' = DOMAIN segs \cup {cut} /\ segs'[cut] = segs[b]
      /\ \A c \in DOMAIN segs : segs'[c] = segs[c]
      /\ segs' \in [DOMAIN segs' -> Nat]
  BY <1>1, <1>2, <1>4, Added
<1>6. cut <= segs[b] /\ \A c \in above : segs[b] <= c
  <2>1. \A c \in above : segs[b] <= c
    BY <1>1, <1>2, <1>4 DEF LogInv, FilesOK, Disjoint
  <2>2. CASE segs[b] = nextLSN
    BY <1>1, <1>4, <2>1, <2>2
  <2>3. CASE segs[b] \in bases /\ b < segs[b]
    BY <1>1, <1>4, <2>1, <2>3
  <2> QED BY <1>2, <2>1, <2>2, <2>3 DEF LogInv, SurvivorsOK
<1>7. LogTypeOK'
  BY <1>1, <1>2, <1>4, <1>5 DEF LogInv, LogTypeOK
<1>8. FilesOK'
  <2>1. \A c \in DOMAIN segs' : c <= segs'[c] /\ segs'[c] <= nextLSN'
    BY <1>1, <1>2, <1>5, <1>6 DEF LogInv, FilesOK
  <2>2. DOMAIN segs' \subseteq Survivors' \cup drop'.doomed \cup {nextLSN'}
    BY <1>1, <1>2, <1>3, <1>4, <1>5
  <2>3. Disjoint(bases)'
    BY <1>1, <1>2, <1>5 DEF LogInv, FilesOK, Disjoint
  <2>4. Disjoint(Survivors)'
    BY <1>1, <1>2, <1>3, <1>4, <1>5, <1>6 DEF LogInv, FilesOK, Disjoint
  <2> QED BY <2>1, <2>2, <2>3, <2>4 DEF FilesOK
<1>9. SurvivorsOK'
  <2>1. Survivors' # {} /\ Survivors' \subseteq DOMAIN segs'
    BY <1>2, <1>3, <1>5
  <2>2. ASSUME NEW c \in above
        PROVE  segs'[c] = nextLSN' \/ (segs'[c] \in Survivors' /\ c < segs'[c])
    BY <1>1, <1>2, <1>3, <1>4, <1>5 DEF LogInv, SurvivorsOK
  <2>3. segs'[cut] = nextLSN' \/ (segs'[cut] \in Survivors' /\ cut < segs'[cut])
    BY <1>1, <1>2, <1>3, <1>4, <1>5, <1>6 DEF LogInv, SurvivorsOK
  <2> QED BY <1>3, <2>1, <2>2, <2>3 DEF SurvivorsOK
<1>10. DropOK'
  BY <1>1, <1>3, <1>4 DEF DropOK, IsMin
<1>11. BoundsOK'
  <2>1. firstLSN <= cut /\ firstLSN \in Nat
    BY <1>1 DEF Cuts, LogInv, LogTypeOK
  <2>2. ASSUME NEW c \in bases PROVE Known(c)'
    BY <1>2, <1>5 DEF Known
  <2> QED BY <1>1, <1>2, <1>5, <2>1, <2>2 DEF BoundsOK, LogInv, IsMin
<1>12. Effect
  <2>1. \A c \in Survivors' : \E d \in Survivors : d <= c
    BY <1>1, <1>2, <1>3, <1>4
  <2>2. ASSUME NEW c \in DOMAIN segs', NEW n \in 0..(nextLSN - 1), c <= n, n < segs'[c]
        PROVE  \E a \in DOMAIN segs : Holds(a, n) /\ a <= c
    <3>1. CASE c = cut
      BY <1>1, <1>2, <1>4, <1>5, <2>2, <3>1 DEF Holds
    <3>2. CASE c # cut
      BY <1>4, <1>2, <1>5, <2>2, <3>2 DEF Holds
    <3> QED BY <3>1, <3>2
  <2>3. \E d \in Survivors : d <= cut
    BY <1>1, <1>2, <1>4
  <2> QED BY <1>1, <1>2, <1>4, <1>5, <2>1, <2>2, <2>3 DEF Effect, LogInv, LogTypeOK
<1>13. IndexLeads'
  BY <1>1, <1>2, <1>5, <1>7, <1>12, IndexKept DEF LogInv, FilesOK
<1> QED BY <1>7, <1>8, <1>9, <1>10, <1>11, <1>12, <1>13 DEF LogInv

LEMMA CutEverythingKeeps ==
  ASSUME LogInv, NEW cut \in Nat, CutEverything(cut)
  PROVE  LogInv' /\ Effect
<1>1. /\ Cuts(cut) /\ nextLSN \notin bases
      /\ segs' = With(nextLSN, nextLSN)
      /\ drop' = [doomed |-> bases, bases |-> {nextLSN}, first |-> 0]
      /\ UNCHANGED <<open, bases, nextLSN, firstLSN, lastLSN>>
  BY DEF CutEverything, bounds
<1>2. drop = NoDrop /\ Survivors = bases /\ DOMAIN segs = bases
  BY <1>1, IdleLog DEF Cuts
<1>3. Survivors' = {nextLSN}
  <2>1. drop' # NoDrop
    BY <1>1 DEF NoDrop
  <2> QED BY <1>1, <2>1 DEF Survivors
<1>4. /\ bases \subseteq Nat \ {0} /\ nextLSN \in Nat \ {0}
      /\ \A b \in bases : b < nextLSN
  BY <1>1, <1>2 DEF LogInv, LogTypeOK, BoundsOK
<1>5. /\ DOMAIN segs' = DOMAIN segs \cup {nextLSN} /\ segs'[nextLSN] = nextLSN
      /\ \A c \in DOMAIN segs : segs'[c] = segs[c]
      /\ segs' \in [DOMAIN segs' -> Nat]
  BY <1>1, <1>2, <1>4, Added
<1>6. LogTypeOK'
  BY <1>1, <1>4, <1>2, <1>5 DEF LogInv, LogTypeOK
<1>7. FilesOK'
  BY <1>1, <1>2, <1>3, <1>4, <1>5 DEF LogInv, FilesOK, Disjoint
<1>8. SurvivorsOK' /\ DropOK'
  BY <1>1, <1>3, <1>4, <1>5 DEF SurvivorsOK, DropOK
<1>9. BoundsOK'
  BY <1>1, <1>2, <1>4, <1>5 DEF BoundsOK, LogInv, LogTypeOK, IsMin, Known
<1>10. Effect
  <2>1. \E d \in Survivors : d <= nextLSN
    BY <1>2, <1>4 DEF LogInv, LogTypeOK
  <2> QED BY <1>1, <1>2, <1>3, <1>4, <1>5, <2>1 DEF Effect, LogInv, LogTypeOK, Holds
<1>11. IndexLeads'
  BY <1>1, <1>2, <1>4, <1>5, <1>6, <1>10, IndexKept DEF LogInv, FilesOK
<1> QED BY <1>6, <1>7, <1>8, <1>9, <1>10, <1>11 DEF LogInv

LEMMA DeleteKeeps ==
  ASSUME LogInv, Delete
  PROVE  LogInv' /\ Effect
<1>1. PICK b \in drop.doomed :
        /\ segs' = Restrict(segs, DOMAIN segs \ {b})
        /\ drop' = [drop EXCEPT !.doomed = @ \ {b}]
        /\ UNCHANGED <<open, bases, nextLSN, firstLSN, lastLSN>>
  BY DEF Delete, bounds
<1>2. /\ DOMAIN segs' = DOMAIN segs \ {b}
      /\ \A c \in DOMAIN segs' : segs'[c] = segs[c]
      /\ segs' \in [DOMAIN segs' -> Nat]
  BY <1>1 DEF Restrict, LogInv, LogTypeOK
<1>3. /\ drop'.doomed = drop.doomed \ {b}
      /\ drop'.bases = drop.bases /\ drop'.first = drop.first
      /\ drop' \in [doomed : SUBSET Nat, bases : SUBSET Nat, first : Nat]
  BY <1>1 DEF LogInv, LogTypeOK
<1>4. Survivors = drop.bases /\ Survivors' = Survivors /\ drop.bases # {}
  <2>1. drop # NoDrop
    BY <1>1 DEF NoDrop
  <2>2. drop.bases # {}
    BY <2>1 DEF Survivors, LogInv, SurvivorsOK
  <2>3. drop' # NoDrop
    BY <1>3, <2>2 DEF NoDrop
  <2> QED BY <1>3, <2>1, <2>2, <2>3 DEF Survivors
<1>5. \A c \in Survivors : b < c
  BY DEF LogInv, DropOK
<1>6. b \in Nat /\ b \notin Survivors
  BY <1>5 DEF LogInv, LogTypeOK
<1>7. LogTypeOK'
  BY <1>1, <1>2, <1>3 DEF LogInv, LogTypeOK
<1>8. FilesOK'
  BY <1>1, <1>2, <1>3, <1>4 DEF LogInv, FilesOK, Disjoint
<1>9. SurvivorsOK' /\ DropOK'
  BY <1>1, <1>2, <1>3, <1>4, <1>6 DEF LogInv, SurvivorsOK, DropOK, IsMin
<1>10. BoundsOK'
  <2>1. ASSUME NEW c \in bases PROVE Known(c)'
    BY <1>2, <1>4, <1>5 DEF Known, LogInv, BoundsOK
  <2> QED BY <1>1, <1>2, <2>1 DEF BoundsOK, LogInv, IsMin
<1>11. Effect
  BY <1>1, <1>2, <1>4, <1>5 DEF Effect, LogInv, LogTypeOK, SurvivorsOK, Holds
<1>12. IndexLeads'
  BY <1>1, <1>2, <1>7, <1>11, IndexKept DEF LogInv, FilesOK
<1> QED BY <1>7, <1>8, <1>9, <1>10, <1>11, <1>12 DEF LogInv

LEMMA FinishDropKeeps ==
  ASSUME LogInv, FinishDrop
  PROVE  LogInv' /\ Effect
<1>1. /\ drop # NoDrop /\ drop.doomed = {} /\ Survivors = drop.bases
      /\ bases' = Survivors /\ firstLSN' = drop.first /\ drop' = NoDrop
      /\ UNCHANGED <<open, segs, nextLSN, lastLSN>>
  BY Dropping DEF FinishDrop
<1>2. Survivors' = Survivors
  BY <1>1 DEF Survivors
<1>3. Survivors \subseteq DOMAIN segs /\ Survivors # {} /\ DOMAIN segs \subseteq Nat \ {0}
  BY DEF LogInv, SurvivorsOK, LogTypeOK
<1>4. LogTypeOK'
  BY <1>1, <1>3 DEF LogInv, LogTypeOK, NoDrop
<1>5. FilesOK'
  BY <1>1, <1>2 DEF LogInv, FilesOK, Disjoint
<1>6. SurvivorsOK' /\ DropOK'
  BY <1>1, <1>2 DEF LogInv, SurvivorsOK, DropOK, NoDrop
<1>7. BoundsOK'
  <2>1. lastLSN' < nextLSN'
    BY <1>1 DEF LogInv, BoundsOK
  <2>2. \A b \in bases' : b <= nextLSN' /\ Known(b)'
    <3>1. ASSUME NEW b \in Survivors PROVE b <= nextLSN
      BY <1>3 DEF LogInv, LogTypeOK, FilesOK
    <3> QED BY <1>1, <1>3, <3>1 DEF Known
  <2>3. ASSUME drop.first # 0
        PROVE  IsMin(drop.first, Survivors) /\ \A b \in DOMAIN segs : drop.first <= b
    <3>1. IsMin(drop.first, Survivors)
      BY <1>1, <2>3 DEF LogInv, DropOK
    <3>2. ASSUME NEW b \in DOMAIN segs PROVE drop.first <= b
      <4>1. CASE b \in Survivors
        BY <3>1, <4>1 DEF IsMin
      <4>2. CASE b \notin Survivors
        <5>1. b = nextLSN
          BY <1>1, <4>2 DEF LogInv, FilesOK
        <5>2. drop.first \in Survivors
          BY <3>1 DEF IsMin
        <5> QED BY <1>3, <5>1, <5>2 DEF LogInv, LogTypeOK, FilesOK
      <4> QED BY <4>1, <4>2
    <3> QED BY <3>1, <3>2
  <2> QED BY <1>1, <2>1, <2>2, <2>3 DEF BoundsOK, IsMin
<1>8. Effect
  BY <1>1, <1>2, <1>3 DEF Effect, LogInv, LogTypeOK, Holds
<1>9. IndexLeads'
  <2> SUFFICES ASSUME NEW n \in 0..nextLSN, OnDisk(n)'
               PROVE  Leads(bases, n)'
    BY <1>1 DEF IndexLeads
  <2>1. PICK b \in DOMAIN segs : b <= n /\ n < segs[b]
    BY <1>1 DEF OnDisk, Holds
  <2>2. \A c \in DOMAIN segs : c <= n /\ n < segs[c] => c \in Survivors
    BY <1>1 DEF LogInv, LogTypeOK, FilesOK
  <2>3. \A c \in DOMAIN segs : c <= n /\ n < segs[c] => b <= c
    BY <1>3, <2>1, <2>2 DEF LogInv, LogTypeOK, FilesOK, Disjoint
  <2> QED BY <1>1, <2>1, <2>2, <2>3 DEF Leads, LeadBy, Holds
<1> QED BY <1>4, <1>5, <1>6, <1>7, <1>8, <1>9 DEF LogInv

LEMMA NextLSNType == LogInv => 1..nextLSN \subseteq Nat
BY DEF LogInv, LogTypeOK

LEMMA WriterKeeps ==
  ASSUME LogInv, WriterStep
  PROVE  LogInv' /\ Effect
BY WriteKeeps, CreateNextKeeps, InstallNextKeeps, PublishKeeps, TruncateKeeps,
   CutBelowKeeps, CutInsideKeeps, CutEverythingKeeps, DeleteKeeps, FinishDropKeeps,
   NextLSNType
   DEF WriterStep, Onward

LEMMA NewLogInv == NewLog => LogInv
<1> SUFFICES ASSUME NewLog PROVE LogInv
  OBVIOUS
<1>1. DOMAIN segs = {1} /\ segs[1] = 1 /\ Survivors = {1}
  BY DEF NewLog, Survivors
<1>2. LogTypeOK
  BY DEF NewLog, LogTypeOK, NoDrop
<1>3. FilesOK /\ SurvivorsOK /\ DropOK /\ BoundsOK
  BY <1>1 DEF NewLog, NoDrop, FilesOK, SurvivorsOK, DropOK, BoundsOK, Disjoint, Known
<1>4. IndexLeads
  BY <1>1 DEF NewLog, IndexLeads, OnDisk, Holds
<1> QED BY <1>2, <1>3, <1>4 DEF LogInv

-----------------------------------------------------------------------------
(* The cursor, beside a step of the writer.                                *)

LEMMA BesideWriter ==
  ASSUME LogInv, ReaderInv, Beside(WriterStep)
  PROVE  LogInv' /\ ReaderInv'
<1>1. LogInv' /\ Effect
  BY WriterKeeps DEF Beside
<1>2. /\ seen' = seen
      /\ cursor' = IF Unlinks THEN [cursor EXCEPT !.top = segs[cursor.file]] ELSE cursor
  BY DEF Beside
<1>3. CursorTypeOK'
  BY <1>2 DEF ReaderInv, CursorTypeOK, LogInv, LogTypeOK, Unlinks
<1>4. /\ cursor'.step = cursor.step /\ cursor'.start = cursor.start
      /\ cursor'.from = cursor.from /\ cursor'.end = cursor.end
      /\ cursor'.names = cursor.names /\ cursor'.missing = cursor.missing
      /\ cursor'.file = cursor.file
      /\ Unlinks => cursor'.top = segs[cursor.file]
      /\ ~Unlinks => cursor'.top = cursor.top
  BY <1>2 DEF ReaderInv, CursorTypeOK
<1>5. /\ cursor.names \subseteq Nat /\ cursor.file \in Nat /\ cursor.start \in Nat
      /\ cursor.end \in Nat /\ nextLSN \in Nat /\ nextLSN' \in Nat /\ nextLSN <= nextLSN'
  BY <1>1 DEF ReaderInv, CursorTypeOK, LogInv, LogTypeOK, Effect
<1>6. CursorOK'
  BY <1>1, <1>2, <1>4, <1>5, KnownKept DEF ReaderInv, CursorOK, Reading
<1>7. Covered'
  <2> SUFFICES ASSUME Reading \/ cursor.step = "ended"
               PROVE  /\ cursor.end < nextLSN'
                      /\ \A n \in cursor.start..cursor.end :
                           OnDisk(n)' => n \in Range(seen) \/ Ahead(n)'
    BY <1>2, <1>4 DEF Covered, Reading
  <2>1. cursor.end < nextLSN
    BY DEF ReaderInv, Covered
  <2>2. ASSUME NEW n \in cursor.start..cursor.end, OnDisk(n)', n \notin Range(seen)
        PROVE  Ahead(n)'
    <3>1. n \in 0..(nextLSN - 1)
      BY <1>5, <2>1
    <3>2. Ahead(n)
      BY <1>1, <2>2, <3>1, OnDiskKept DEF ReaderInv, Covered
    <3>3. CASE InFile(n)
      <4>1. CASE cursor.file \in DOMAIN segs
        <5>1. n < segs[cursor.file]
          BY <3>3, <4>1 DEF InFile, Top
        <5>2. CASE cursor.file \in DOMAIN segs'
          <6>1. segs[cursor.file] <= segs'[cursor.file]
            BY <1>1, <4>1, <5>2 DEF Effect
          <6>2. n < segs'[cursor.file]
            BY <1>1, <3>1, <4>1, <5>1, <5>2, <6>1 DEF LogInv, LogTypeOK
          <6> QED BY <1>4, <3>2, <3>3, <5>2, <6>2 DEF Ahead, InFile, Top
        <5>3. CASE cursor.file \notin DOMAIN segs'
          BY <1>4, <3>2, <3>3, <4>1, <5>1, <5>3 DEF Ahead, InFile, Top, Unlinks
        <5> QED BY <5>2, <5>3
      <4>2. CASE cursor.file \notin DOMAIN segs
        <5>1. cursor.file \notin DOMAIN segs'
          <6>1. \A c \in Survivors : cursor.file < c
            BY <3>3, <4>2 DEF InFile, ReaderInv, CursorOK, Known
          <6> QED BY <1>1, <1>5, <4>2, <6>1 DEF Effect, LogInv, SurvivorsOK, LogTypeOK
        <5> QED BY <1>4, <3>2, <3>3, <4>2, <5>1 DEF Ahead, InFile, Top, Unlinks
      <4> QED BY <4>1, <4>2
    <3>4. CASE cursor.step \in {"next", "scan"} /\ Leads(cursor.names, n)
      <4>1. PICK m \in cursor.names : LeadBy(m, n)
        BY <3>4 DEF Leads
      <4>2. Known(m)
        BY <3>4 DEF ReaderInv, CursorOK, Reading
      <4>3. LeadBy(m, n)'
        BY <1>1, <1>5, <3>1, <4>1, <4>2, LeadsKept DEF LogInv
      <4> QED BY <1>4, <3>2, <3>4, <4>3 DEF Ahead, Leads
    <3>5. CASE /\ cursor.step = "relist"
               /\ \A b \in DOMAIN segs : Holds(b, n) => cursor.missing < b
      <4>1. ASSUME NEW b \in DOMAIN segs', Holds(b, n)' PROVE cursor.missing < b
        <5>1. PICK a \in DOMAIN segs : Holds(a, n) /\ a <= b
          BY <1>1, <3>1, <4>1 DEF Effect, Holds
        <5>2. cursor.missing < a
          BY <3>5, <5>1
        <5>3. a \in Nat /\ b \in Nat /\ cursor.missing \in Nat
          BY <1>1, <4>1 DEF LogInv, LogTypeOK, ReaderInv, CursorTypeOK
        <5> QED BY <5>1, <5>2, <5>3
      <4> QED BY <1>4, <3>2, <3>5, <4>1 DEF Ahead
    <3> QED BY <3>2, <3>3, <3>4, <3>5 DEF Ahead
  <2> QED BY <1>5, <2>1, <2>2
<1>8. YieldsAscend'
  BY <1>2 DEF ReaderInv, YieldsAscend
<1> QED BY <1>1, <1>3, <1>6, <1>7, <1>8 DEF ReaderInv

-----------------------------------------------------------------------------
(* The steps of the cursor.                                                *)

\* All that the parts of the invariant read of the log.
LEMMA LogSame ==
  ASSUME UNCHANGED log
  PROVE  /\ LogInv => LogInv'
         /\ segs' = segs /\ bases' = bases /\ nextLSN' = nextLSN
         /\ Survivors' = Survivors
         /\ \A n : OnDisk(n)' <=> OnDisk(n)
         /\ \A b : Known(b)' <=> Known(b)
         /\ \A b, n : LeadBy(b, n)' <=> LeadBy(b, n)
<1> /\ UNCHANGED <<open, segs, bases, nextLSN, firstLSN, lastLSN, drop>>
  BY DEF log, bounds
<1>1. Survivors' = Survivors
  BY DEF Survivors
<1>2. LogInv => LogInv'
  BY <1>1 DEF LogInv, LogTypeOK, FilesOK, SurvivorsOK, DropOK, BoundsOK, IndexLeads,
     Disjoint, IsMin, Known, OnDisk, Holds, Leads, LeadBy
<1> QED BY <1>1, <1>2 DEF OnDisk, Known, LeadBy, Holds

LEMMA NewCursorKeeps ==
  ASSUME LogInv, CursorTypeOK, YieldsAscend,
         NEW from \in Nat, NEW end \in Nat, end < nextLSN,
         \A i \in DOMAIN seen : seen[i] < from,
         NewCursor(from, end), UNCHANGED <<log, seen>>
  PROVE  ReaderInv'
<1>1. /\ cursor' = [step |-> IF end = 0 \/ from > end THEN "ended" ELSE "next",
                    start |-> from, from |-> from, end |-> end, names |-> bases,
                    missing |-> 0, file |-> 0, top |-> 0]
      /\ seen' = seen
  BY DEF NewCursor, NoCursor
<1>2. CursorTypeOK' /\ YieldsAscend'
  BY <1>1 DEF CursorTypeOK, Finished, YieldsAscend, LogInv, LogTypeOK
<1>3. bases \subseteq Nat /\ nextLSN \in Nat /\ \A b \in bases : Known(b)
  BY DEF LogInv, LogTypeOK, BoundsOK
<1>4. CursorOK'
  BY <1>1, <1>3, LogSame DEF CursorOK, Reading
<1>5. Covered'
  <2>1. ASSUME NEW n \in from..end, OnDisk(n)
        PROVE  Ahead(n)'
    <3>1. 0 \notin DOMAIN segs /\ DOMAIN segs \subseteq Nat
      BY DEF LogInv, LogTypeOK
    <3>2. n # 0 /\ n \in 0..nextLSN
      BY <1>3, <2>1, <3>1 DEF OnDisk, Holds
    <3>3. Leads(bases, n)
      BY <2>1, <3>2 DEF LogInv, IndexLeads
    <3>4. cursor'.step = "next"
      BY <1>1, <2>1, <3>2
    <3> QED BY <1>1, <2>1, <3>3, <3>4, LogSame DEF Ahead, Leads
  <2> QED BY <1>1, <2>1, LogSame DEF Covered
<1> QED BY <1>2, <1>4, <1>5 DEF ReaderInv

LEMMA OpenNextKeeps ==
  ASSUME LogInv, ReaderInv, OpenNext
  PROVE  ReaderInv'
<1>1. PICK b \in cursor.names :
        /\ cursor.step = "next" /\ IsMin(b, cursor.names)
        /\ cursor' = IF b \in DOMAIN segs
                     THEN [cursor EXCEPT !.step = "scan", !.names = @ \ {b}, !.file = b]
                     ELSE [cursor EXCEPT !.step = "relist", !.names = @ \ {b}, !.missing = b]
        /\ UNCHANGED <<log, seen>>
  BY DEF OpenNext
<1>2. /\ cursor.names \subseteq Nat /\ b \in Nat
      /\ cursor'.start = cursor.start /\ cursor'.from = cursor.from
      /\ cursor'.end = cursor.end /\ cursor'.names = cursor.names \ {b}
      /\ b \in DOMAIN segs => cursor'.step = "scan" /\ cursor'.file = b
      /\ b \notin DOMAIN segs => cursor'.step = "relist" /\ cursor'.missing = b
  BY <1>1 DEF ReaderInv, CursorTypeOK
<1>3. CursorTypeOK' /\ YieldsAscend'
  BY <1>1, <1>2 DEF ReaderInv, CursorTypeOK, YieldsAscend
<1>4. CursorOK'
  BY <1>1, <1>2, LogSame DEF ReaderInv, CursorOK, Reading, IsMin
<1>5. Covered'
  <2>1. ASSUME NEW n \in cursor.start..cursor.end, OnDisk(n), n \notin Range(seen)
        PROVE  Ahead(n)'
    <3>1. Ahead(n)
      BY <1>1, <2>1 DEF ReaderInv, Covered, Reading
    <3>2. PICK m \in cursor.names : LeadBy(m, n)
      BY <1>1, <3>1 DEF Ahead, InFile, Leads
    <3>3. b <= m
      BY <1>1 DEF IsMin
    <3>4. CASE b \in DOMAIN segs
      <4>1. CASE m = b
        <5>1. b <= n /\ n < segs[b]
          BY <3>2, <3>4, <4>1 DEF LeadBy
        <5> QED BY <1>1, <1>2, <3>1, <3>4, <5>1, LogSame DEF Ahead, InFile, Top
      <4>2. CASE m # b
        BY <1>1, <1>2, <3>1, <3>2, <3>4, <4>2, LogSame DEF Ahead, Leads
      <4> QED BY <4>1, <4>2
    <3>5. CASE b \notin DOMAIN segs
      <4>1. ASSUME NEW c \in DOMAIN segs, Holds(c, n) PROVE b < c
        <5>1. m <= c /\ c # b /\ c \in Nat
          BY <3>2, <3>5, <4>1 DEF LeadBy, LogInv, LogTypeOK
        <5> QED BY <1>2, <3>3, <5>1
      <4> QED BY <1>1, <1>2, <3>1, <3>5, <4>1, LogSame DEF Ahead, Holds
    <3> QED BY <3>4, <3>5
  <2> QED BY <1>1, <1>2, <2>1, LogSame DEF Covered, ReaderInv, Reading
<1> QED BY <1>3, <1>4, <1>5 DEF ReaderInv

\* At most two files hold a record: one of the index, one that will stay.
LEMMA LowestHolder ==
  ASSUME LogInv, NEW n \in Nat, OnDisk(n)
  PROVE  \E m \in DOMAIN segs : Holds(m, n) /\ \A b \in DOMAIN segs : Holds(b, n) => m <= b
<1> DEFINE H == {b \in DOMAIN segs : Holds(b, n)}
<1>1. /\ DOMAIN segs \subseteq Nat /\ nextLSN \in Nat
      /\ \A b \in DOMAIN segs : segs[b] \in Nat
  BY DEF LogInv, LogTypeOK
<1>2. \A b \in H : b \in bases \/ b \in Survivors
  BY <1>1 DEF LogInv, FilesOK, DropOK, Holds
<1>3. \A b, c \in H : (b \in bases /\ c \in bases) \/ (b \in Survivors /\ c \in Survivors)
                        => b = c
  BY <1>1 DEF LogInv, FilesOK, Disjoint, Holds
<1>4. PICK a \in H : TRUE
  BY DEF OnDisk, Holds
<1>5. CASE \A b \in H : a <= b
  BY <1>4, <1>5
<1>6. CASE \E c \in H : ~(a <= c)
  <2>1. PICK c \in H : ~(a <= c)
    BY <1>6
  <2>2. ASSUME NEW b \in H PROVE c <= b
    BY <1>1, <1>2, <1>3, <1>4, <2>1, <2>2
  <2> QED BY <2>1, <2>2
<1> QED BY <1>5, <1>6

LEMMA RelistKeeps ==
  ASSUME LogInv, ReaderInv, Relist
  PROVE  ReaderInv'
<1>1. /\ cursor.step = "relist" /\ UNCHANGED <<log, seen>>
      /\ cursor' = [cursor EXCEPT !.step = "next", !.names = Relisted, !.missing = 0]
  BY DEF Relist
<1>2. Relisted \subseteq DOMAIN segs /\ DOMAIN segs \subseteq Nat
  BY DEF Relisted, LogInv, LogTypeOK
<1>3. /\ cursor'.step = "next" /\ cursor'.start = cursor.start
      /\ cursor'.from = cursor.from /\ cursor'.end = cursor.end
      /\ cursor'.names = Relisted
  BY <1>1 DEF ReaderInv, CursorTypeOK
<1>4. CursorTypeOK' /\ YieldsAscend'
  BY <1>1, <1>2 DEF ReaderInv, CursorTypeOK, YieldsAscend
<1>5. CursorOK'
  BY <1>1, <1>2, <1>3, LogSame DEF ReaderInv, CursorOK, Reading, Known
<1>6. Covered'
  <2>1. ASSUME NEW n \in cursor.start..cursor.end, OnDisk(n), n \notin Range(seen)
        PROVE  Ahead(n)'
    <3>1. Ahead(n)
      BY <1>1, <2>1 DEF ReaderInv, Covered, Reading
    <3>2. n \in Nat
      BY DEF ReaderInv, CursorTypeOK
    <3>3. PICK m \in DOMAIN segs :
            Holds(m, n) /\ \A b \in DOMAIN segs : Holds(b, n) => m <= b
      BY <2>1, <3>2, LowestHolder
    <3>4. m \in Relisted
      BY <1>1, <3>1, <3>3 DEF Ahead, InFile, Relisted
    <3>5. LeadBy(m, n)
      BY <3>3 DEF LeadBy, Holds
    <3> QED BY <1>1, <1>3, <3>1, <3>4, <3>5, LogSame DEF Ahead, Leads
  <2> QED BY <1>1, <1>3, <2>1, LogSame DEF Covered, ReaderInv, Reading
<1> QED BY <1>4, <1>5, <1>6 DEF ReaderInv

\* An ended cursor owes nothing only when no record ahead is on disk.
LEMMA StoppedKeeps ==
  ASSUME LogInv, ReaderInv, NEW how \in Finished,
         cursor' = Stopped(how), UNCHANGED <<log, seen>>,
         how = "ended" =>
           Reading /\ \A n \in cursor.start..cursor.end : OnDisk(n) => ~Ahead(n)
  PROVE  ReaderInv'
<1>1. /\ cursor' = [step |-> how, start |-> cursor.start, from |-> 0,
                    end |-> cursor.end, names |-> {}, missing |-> 0,
                    file |-> 0, top |-> 0]
      /\ how \in {"ended", "failed", "closed"}
  BY DEF Stopped, NoCursor, Finished
<1>2. CursorTypeOK' /\ YieldsAscend'
  BY <1>1 DEF ReaderInv, CursorTypeOK, YieldsAscend, Finished
<1>3. CursorOK'
  BY <1>1 DEF CursorOK, Reading
<1>4. Covered'
  BY <1>1, LogSame DEF Covered, ReaderInv, Reading
<1> QED BY <1>2, <1>3, <1>4 DEF ReaderInv

LEMMA ExhaustedKeeps ==
  ASSUME LogInv, ReaderInv, Exhausted
  PROVE  ReaderInv'
<1>1. /\ cursor.step = "next" /\ cursor.names = {}
      /\ cursor' = Stopped("ended") /\ UNCHANGED <<log, seen>>
  BY DEF Exhausted
<1>2. \A n : ~Ahead(n)
  BY <1>1 DEF Ahead, InFile, Leads
<1> QED BY <1>1, <1>2, StoppedKeeps DEF Finished, Reading

\* What is ahead is not before the next record of the open file.
LEMMA AheadOfNext ==
  ASSUME ReaderInv, cursor.step = "scan", NEW n \in Nat, Ahead(n)
  PROVE  NextRecord \in Nat /\ NextRecord <= n
<1>1. cursor.from \in Nat /\ cursor.file \in Nat /\ cursor.names \subseteq Nat
  BY DEF ReaderInv, CursorTypeOK
<1>2. CASE InFile(n)
  BY <1>1, <1>2 DEF Ahead, InFile, NextRecord
<1>3. CASE ~InFile(n)
  <2>1. PICK m \in cursor.names : LeadBy(m, n)
    BY <1>3 DEF Ahead, Leads
  <2>2. cursor.file < m /\ m <= n
    BY <2>1 DEF ReaderInv, CursorOK, LeadBy
  <2>3. cursor.file < n /\ cursor.from <= n
    BY <1>1, <2>1, <2>2 DEF Ahead
  <2> QED BY <1>1, <2>3 DEF NextRecord
<1> QED BY <1>2, <1>3

LEMMA BeyondSnapshotKeeps ==
  ASSUME LogInv, ReaderInv, BeyondSnapshot
  PROVE  ReaderInv'
<1>1. /\ cursor.step = "scan" /\ NextRecord > cursor.end
      /\ cursor' = Stopped("ended") /\ UNCHANGED <<log, seen>>
  BY DEF BeyondSnapshot, HasNext
<1>2. ASSUME NEW n \in cursor.start..cursor.end PROVE ~Ahead(n)
  <2>1. n \in Nat /\ cursor.end \in Nat /\ n <= cursor.end
    BY DEF ReaderInv, CursorTypeOK
  <2> QED BY <1>1, <2>1, AheadOfNext
<1> QED BY <1>1, <1>2, StoppedKeeps DEF Finished, Reading

LEMMA EndOfSegmentKeeps ==
  ASSUME LogInv, ReaderInv, EndOfSegment
  PROVE  ReaderInv'
<1>1. /\ cursor.step = "scan" /\ UNCHANGED <<log, seen>>
      /\ ~(NextRecord < Top) \/ NextRecord > cursor.end
      /\ cursor' = [cursor EXCEPT !.step = "next", !.file = 0, !.top = 0]
  BY DEF EndOfSegment, HasNext
<1>2. /\ cursor'.step = "next" /\ cursor'.start = cursor.start
      /\ cursor'.from = cursor.from /\ cursor'.end = cursor.end
      /\ cursor'.names = cursor.names
  BY <1>1 DEF ReaderInv, CursorTypeOK
<1>3. CursorTypeOK' /\ YieldsAscend'
  BY <1>1 DEF ReaderInv, CursorTypeOK, YieldsAscend
<1>4. CursorOK'
  BY <1>1, <1>2, LogSame DEF ReaderInv, CursorOK, Reading
<1>5. Covered'
  <2>1. ASSUME NEW n \in cursor.start..cursor.end, OnDisk(n), n \notin Range(seen)
        PROVE  Ahead(n)'
    <3>1. Ahead(n)
      BY <1>1, <2>1 DEF ReaderInv, Covered, Reading
    <3>2. /\ n \in Nat /\ cursor.end \in Nat /\ n <= cursor.end /\ Top \in Nat
      BY DEF ReaderInv, CursorTypeOK, Top, LogInv, LogTypeOK
    <3>3. NextRecord \in Nat /\ NextRecord <= n
      BY <1>1, <3>1, <3>2, AheadOfNext
    <3>4. ~InFile(n)
      BY <1>1, <3>2, <3>3 DEF InFile
    <3> QED BY <1>1, <1>2, <3>1, <3>4, LogSame DEF Ahead, Leads
  <2> QED BY <1>1, <1>2, <2>1, LogSame DEF Covered, ReaderInv, Reading
<1> QED BY <1>3, <1>4, <1>5 DEF ReaderInv

LEMMA Appending ==
  ASSUME seen \in Seq(Nat), NEW n \in Nat, seen' = Append(seen, n)
  PROVE  /\ seen' \in Seq(Nat) /\ Len(seen') = Len(seen) + 1
         /\ DOMAIN seen = 1..Len(seen) /\ DOMAIN seen' = 1..(Len(seen) + 1)
         /\ seen'[Len(seen) + 1] = n
         /\ \A i \in 1..Len(seen) : seen'[i] = seen[i]
         /\ Range(seen') = Range(seen) \cup {n}
<1>1. /\ seen' \in Seq(Nat) /\ Len(seen') = Len(seen) + 1
      /\ DOMAIN seen = 1..Len(seen) /\ DOMAIN seen' = 1..(Len(seen) + 1)
      /\ seen'[Len(seen) + 1] = n
      /\ \A i \in 1..Len(seen) : seen'[i] = seen[i]
  OBVIOUS
<1>2. Range(seen') = Range(seen) \cup {n}
  BY <1>1 DEF Range
<1> QED BY <1>1, <1>2

LEMMA YieldKeeps ==
  ASSUME LogInv, ReaderInv, NEW n0 \in Nat, Yield(n0)
  PROVE  ReaderInv'
<1>1. /\ cursor.step = "scan" /\ n0 = NextRecord /\ n0 < Top /\ n0 <= cursor.end
      /\ cursor' = [cursor EXCEPT !.from = n0 + 1]
      /\ seen' = Append(seen, n0) /\ UNCHANGED log
  BY DEF Yield, Accepts, HasNext, Advanced
<1>2. /\ cursor'.step = "scan" /\ cursor'.start = cursor.start
      /\ cursor'.from = n0 + 1 /\ cursor'.end = cursor.end
      /\ cursor'.names = cursor.names /\ cursor'.file = cursor.file
      /\ cursor'.top = cursor.top
  BY <1>1 DEF ReaderInv, CursorTypeOK
<1>3. /\ seen \in Seq(Nat) /\ cursor.from \in Nat /\ cursor.file \in Nat
      /\ cursor.start \in Nat
  BY DEF ReaderInv, CursorTypeOK
<1>4. /\ seen' \in Seq(Nat) /\ Len(seen') = Len(seen) + 1
      /\ DOMAIN seen = 1..Len(seen) /\ DOMAIN seen' = 1..(Len(seen) + 1)
      /\ seen'[Len(seen) + 1] = n0
      /\ \A i \in 1..Len(seen) : seen'[i] = seen[i]
      /\ Range(seen') = Range(seen) \cup {n0}
  BY <1>1, <1>3, Appending
<1>5. cursor.from <= n0 /\ cursor.file <= n0
  BY <1>1, <1>3 DEF NextRecord
<1>6. \A i \in 1..Len(seen) : seen[i] < cursor.from /\ seen[i] \in Nat
  BY <1>1, <1>3, <1>4 DEF ReaderInv, CursorOK, Reading
<1>7. CursorTypeOK'
  BY <1>1, <1>4, SMTT(30) DEF ReaderInv, CursorTypeOK
<1>8. YieldsAscend'
  <2> SUFFICES ASSUME NEW i \in DOMAIN seen', NEW j \in DOMAIN seen', i < j
               PROVE  seen'[i] < seen'[j]
    BY DEF YieldsAscend
  <2>1. i \in 1..Len(seen) /\ seen'[i] = seen[i]
    BY <1>3, <1>4
  <2>2. CASE j \in 1..Len(seen)
    BY <1>4, <2>1, <2>2 DEF ReaderInv, YieldsAscend
  <2>3. CASE j = Len(seen) + 1
    BY <1>3, <1>4, <1>5, <1>6, <2>1, <2>3
  <2> QED BY <1>3, <1>4, <2>2, <2>3
<1>9. CursorOK'
  <2>1. \A i \in DOMAIN seen' : seen'[i] < n0 + 1
    BY <1>3, <1>4, <1>5, <1>6, SMTT(30)
  <2>2. cursor.start <= n0 + 1
    BY <1>1, <1>3, <1>5 DEF ReaderInv, CursorOK, Reading
  <2> QED BY <1>1, <1>2, <2>1, <2>2, LogSame DEF ReaderInv, CursorOK, Reading
<1>10. Covered'
  <2>1. ASSUME NEW n \in cursor.start..cursor.end, OnDisk(n), n \notin Range(seen')
        PROVE  Ahead(n)'
    <3>1. n \in Nat /\ n # n0 /\ n \notin Range(seen)
      BY <1>3, <1>4, <2>1 DEF ReaderInv, CursorTypeOK
    <3>2. Ahead(n)
      BY <1>1, <2>1, <3>1 DEF ReaderInv, Covered, Reading
    <3>3. n0 + 1 <= n
      BY <1>1, <3>1, <3>2, AheadOfNext
    <3> QED BY <1>1, <1>2, <3>2, <3>3, LogSame DEF Ahead, InFile, Top, Leads
  <2> QED BY <1>1, <1>2, <2>1, LogSame DEF Covered, ReaderInv, Reading
<1> QED BY <1>7, <1>8, <1>9, <1>10 DEF ReaderInv

LEMMA ScanKeeps ==
  ASSUME LogInv, ReaderInv, Scan
  PROVE  ReaderInv' /\ UNCHANGED <<log, seen>>
<1>1. ReaderInv'
  BY OpenNextKeeps, RelistKeeps, ExhaustedKeeps, BeyondSnapshotKeeps, EndOfSegmentKeeps
     DEF Scan
<1> QED BY <1>1 DEF Scan, OpenNext, Relist, Exhausted, BeyondSnapshot, EndOfSegment

LEMMA ReadFailsKeeps ==
  ASSUME LogInv, ReaderInv, ReadFails \/ CloseReader
  PROVE  ReaderInv' /\ UNCHANGED <<log, seen>>
BY StoppedKeeps DEF ReadFails, CloseReader, Finished

-----------------------------------------------------------------------------
(* The follower.                                                           *)

\* What the steps of the cursor leave alone.
LEMMA ScanFrame ==
  ASSUME LogInv, ReaderInv, Scan \/ ReadFails
  PROVE  /\ ReaderInv' /\ UNCHANGED <<log, seen>>
         /\ Reading
         /\ cursor'.start = cursor.start /\ cursor'.end = cursor.end
         /\ cursor'.step \in {"next", "relist", "scan", "ended", "failed"}
         /\ Reading' => cursor'.from = cursor.from
<1>1. ReaderInv' /\ UNCHANGED <<log, seen>>
  BY ScanKeeps, ReadFailsKeeps
<1>2. cursor \in [step : {"new", "next", "relist", "scan"} \cup Finished,
                  start : Nat, from : Nat, end : Nat, names : SUBSET Nat,
                  missing : Nat, file : Nat, top : Nat]
  BY DEF ReaderInv, CursorTypeOK
<1>3. CASE OpenNext
  BY <1>1, <1>2, <1>3 DEF OpenNext, Reading
<1>4. CASE Relist
  BY <1>1, <1>2, <1>4 DEF Relist, Reading
<1>5. CASE EndOfSegment
  BY <1>1, <1>2, <1>5 DEF EndOfSegment, Reading
<1>6. CASE Exhausted \/ BeyondSnapshot \/ ReadFails
  <2>1. \E how \in {"ended", "failed"} : cursor' = Stopped(how)
    BY <1>6 DEF Exhausted, BeyondSnapshot, ReadFails
  <2>2. Reading
    BY <1>6 DEF Exhausted, BeyondSnapshot, ReadFails, Reading, HasNext
  <2> QED BY <1>1, <2>1, <2>2 DEF Stopped, NoCursor, Reading
<1> QED BY <1>3, <1>4, <1>5, <1>6 DEF Scan

\* highWater is the last of what was seen.
LEMMA Position ==
  ASSUME FInv
  PROVE  /\ HighWater \in Nat /\ Needed \in Nat /\ Needed = HighWater + 1
         /\ \A i \in DOMAIN seen : seen[i] < Needed
         /\ seen = << >> => Needed = IF follower.from = 0 THEN 1 ELSE follower.from
<1>1. seen \in Seq(Nat) /\ follower.from \in Nat
  BY DEF FInv, ReaderInv, FollowerInv, FollowerTypeOK, CursorTypeOK
<1>2. CASE seen = << >>
  BY <1>1, <1>2 DEF HighWater, Needed
<1>3. CASE seen # << >>
  <2>1. Len(seen) \in DOMAIN seen /\ DOMAIN seen = 1..Len(seen)
          /\ seen[Len(seen)] \in Nat /\ HighWater = seen[Len(seen)]
    BY <1>1, <1>3 DEF HighWater
  <2>2. ASSUME NEW i \in DOMAIN seen PROVE seen[i] <= seen[Len(seen)]
    BY <1>1, <2>1 DEF FInv, ReaderInv, YieldsAscend
  <2> QED BY <1>1, <1>3, <2>1, <2>2 DEF Needed
<1> QED BY <1>2, <1>3

\* A step that neither yields nor ends the loop.
LEMMA Quiet ==
  ASSUME FInv, LogInv', ReaderInv', UNCHANGED seen,
         follower'.step # "ended", FollowerInv',
         follower'.step # "none" => follower'.from = follower.from \/ seen = << >>,
         follower.step = "none" => seen = << >> \/ follower'.step = "none"
  PROVE  FInv'
<1>1. TruncatedMeansRemoved' /\ SnapshotComplete'
  BY DEF FollowerInv, TruncatedMeansRemoved, SnapshotComplete
<1>2. FollowerContiguous'
  BY DEF FInv, ReaderInv, CursorTypeOK, FollowerContiguous
<1> QED BY <1>1, <1>2 DEF FInv

LEMMA StartKeeps ==
  ASSUME FInv, NEW from \in Nat, NEW follow \in BOOLEAN, Follower(from, follow)
  PROVE  FInv'
<1>1. /\ cursor.step = "new" /\ follower.step = "none" /\ seen = << >>
      /\ follower' = [step |-> "round", follow |-> follow, from |-> from,
                      end |-> lastLSN, err |-> "nil"]
      /\ UNCHANGED <<log, cursor, seen>>
  BY DEF Follower, NoFollower, reader, FInv, FollowerInv
<1>2. LogInv' /\ nextLSN' = nextLSN
  BY <1>1, LogSame DEF FInv
<1>3. ReaderInv'
  BY <1>1, LogSame DEF FInv, ReaderInv, CursorTypeOK, CursorOK, Covered, YieldsAscend,
     Reading
<1>4. FollowerInv'
  <2>1. lastLSN \in Nat /\ lastLSN < nextLSN
    BY DEF FInv, LogInv, LogTypeOK, BoundsOK
  <2> QED BY <1>1, <1>2, <1>3, <2>1
          DEF FollowerInv, FollowerTypeOK, Errors, ReaderInv, Reading
<1> QED BY <1>1, <1>2, <1>3, <1>4, Quiet

LEMMA RoundKeeps ==
  ASSUME FInv, Round
  PROVE  FInv'
<1>1. follower.step = "round" /\ cursor.step = "new" /\ UNCHANGED <<log, seen>>
  BY DEF Round, FInv, FollowerInv, reader
<1>2. LogInv' /\ segs' = segs /\ nextLSN' = nextLSN /\ (\A n : OnDisk(n)' <=> OnDisk(n))
  BY <1>1, LogSame DEF FInv
<1>3. CASE Overtaken
  <2>1. follower' = [follower EXCEPT !.step = "ended", !.err = "truncated"] /\ cursor' = cursor
    BY <1>3 DEF Round, Ends, reader
  <2>2. /\ follower'.step = "ended" /\ follower'.err = "truncated"
        /\ follower'.from = follower.from /\ follower'.end = follower.end
        /\ follower'.follow = follower.follow /\ FollowerTypeOK'
    BY <1>1, <2>1 DEF FInv, FollowerInv, FollowerTypeOK, CursorTypeOK, Errors
  <2>3. ReaderInv'
    BY <1>1, <2>1, LogSame DEF FInv, ReaderInv, CursorTypeOK, CursorOK, Covered, YieldsAscend,
       Reading
  <2>4. FollowerInv'
    BY <1>2, <2>2 DEF FInv, FollowerInv, Reading
  <2>5. ~OnDisk(Needed)
    <3>1. Needed \in Nat /\ Needed < firstLSN
      BY <1>3, Position DEF Overtaken
    <3>2. firstLSN # 0 /\ firstLSN \in Nat /\ DOMAIN segs \subseteq Nat
      BY <3>1 DEF FInv, LogInv, LogTypeOK
    <3>3. \A b \in DOMAIN segs : firstLSN <= b
      BY <3>2 DEF FInv, LogInv, BoundsOK
    <3> QED BY <3>1, <3>2, <3>3 DEF OnDisk, Holds
  <2>6. Needed' = Needed
    BY <1>1, <2>2 DEF Needed, HighWater
  <2>7. TruncatedMeansRemoved' /\ SnapshotComplete' /\ FollowerContiguous'
    BY <1>1, <1>2, <2>2, <2>5, <2>6
       DEF FInv, TruncatedMeansRemoved, SnapshotComplete, FollowerContiguous
  <2> QED BY <1>2, <2>3, <2>4, <2>7 DEF FInv
<1>4. CASE ~Overtaken
  <2> DEFINE end == IF follower.follow THEN lastLSN ELSE follower.end
  <2>1. NewCursor(Needed, end) /\ follower' = [follower EXCEPT !.step = "scan"]
    BY <1>4 DEF Round
  <2>2. /\ follower'.step = "scan" /\ follower'.err = follower.err
        /\ follower'.from = follower.from /\ follower'.end = follower.end
        /\ follower'.follow = follower.follow
        /\ follower' \in [step : {"none", "round", "scan", "waiting", "ended"},
                          follow : BOOLEAN, from : Nat, end : Nat, err : Errors]
    BY <2>1 DEF FInv, FollowerInv, FollowerTypeOK
  <2>3. end \in Nat /\ end < nextLSN
    BY DEF FInv, LogInv, LogTypeOK, BoundsOK, FollowerInv, FollowerTypeOK
  <2>4. ReaderInv'
    <3>1. LogInv /\ CursorTypeOK /\ YieldsAscend
      BY DEF FInv, ReaderInv
    <3>2. Needed \in Nat /\ \A i \in DOMAIN seen : seen[i] < Needed
      BY Position
    <3> HIDE DEF end
    <3>3. PICK from \in Nat : from = Needed
      BY <3>2
    <3>4. PICK last \in Nat : last = end
      BY <2>3
    <3>5. NewCursor(from, last) /\ last < nextLSN /\ \A i \in DOMAIN seen : seen[i] < from
      BY <2>1, <2>3, <3>2, <3>3, <3>4
    <3> QED BY <1>1, <3>1, <3>5, NewCursorKeeps
  <2>5. /\ cursor'.step \in {"next", "ended"} /\ cursor'.from = Needed
        /\ cursor'.start = Needed /\ cursor'.end = end
    BY <2>1 DEF NewCursor, NoCursor
  <2>6. Needed' = Needed
    BY <1>1, <2>2 DEF Needed, HighWater
  <2>7. FollowerInv'
    <3>1. FollowerTypeOK'
      BY <2>2, <2>4 DEF FollowerTypeOK, ReaderInv
    <3>2. ~follower.follow => seen = << >> /\ end = follower.end
      BY <1>1 DEF FInv, FollowerInv
    <3>3. Needed \in Nat /\ follower.from \in Nat
      BY Position DEF FInv, FollowerInv, FollowerTypeOK
    <3>4. follower'.step = "scan" /\ ~follower'.follow =>
            /\ cursor'.start <= (IF follower'.from = 0 THEN 1 ELSE follower'.from)
            /\ cursor'.end = follower'.end
      BY <2>2, <2>5, <3>2, <3>3, Position
    <3> QED BY <1>1, <1>2, <2>2, <2>5, <2>6, <3>1, <3>4 DEF FInv, FollowerInv
  <2> QED BY <1>1, <1>2, <2>2, <2>4, <2>7, Quiet
<1> QED BY <1>3, <1>4

LEMMA DeliverKeeps ==
  ASSUME FInv, NEW n0 \in Nat, Deliver(n0)
  PROVE  FInv'
<1>1. /\ follower.step = "scan" /\ cursor.step = "scan" /\ n0 = NextRecord
      /\ n0 <= cursor.end /\ cursor.from = Needed /\ UNCHANGED log
  BY DEF Deliver, Yield, Accepts, HasNext, FInv, FollowerInv, Reading
<1>2. LogInv' /\ segs' = segs /\ nextLSN' = nextLSN /\ (\A n : OnDisk(n)' <=> OnDisk(n))
  BY <1>1, LogSame DEF FInv
<1>3. /\ cursor.from \in Nat /\ cursor.file \in Nat /\ cursor.start \in Nat
      /\ cursor.end \in Nat /\ cursor.start <= cursor.from /\ seen \in Seq(Nat)
      /\ \A i \in DOMAIN seen : seen[i] < cursor.from /\ seen[i] \in Nat
  BY <1>1 DEF FInv, ReaderInv, CursorTypeOK, CursorOK, Reading
<1>4. Needed <= n0
  BY <1>1, <1>3 DEF NextRecord
<1>5. /\ follower \in [step : {"none", "round", "scan", "waiting", "ended"},
                       follow : BOOLEAN, from : Nat, end : Nat, err : Errors]
      /\ follower.err = "nil"
  BY <1>1 DEF FInv, FollowerInv, FollowerTypeOK
<1>6. CASE Gap(n0)
  <2>1. /\ cursor' = Stopped("closed") /\ seen' = seen
        /\ follower' = [follower EXCEPT !.step = "ended", !.err = "truncated"]
    BY <1>6 DEF Deliver, Ends
  <2>2. ReaderInv'
    BY <1>1, <2>1, StoppedKeeps DEF FInv, Finished
  <2>3. /\ follower'.step = "ended" /\ follower'.err = "truncated"
        /\ follower'.from = follower.from /\ follower'.end = follower.end
        /\ FollowerTypeOK'
    BY <1>5, <2>1, <2>2 DEF FollowerTypeOK, ReaderInv, Errors
  <2>4. FollowerInv'
    BY <1>2, <2>3 DEF FInv, FollowerInv
  <2>5. ~OnDisk(Needed)
    <3>1. SUFFICES ASSUME OnDisk(Needed) PROVE FALSE
      OBVIOUS
    <3>2. Needed < n0 /\ Needed \in cursor.start..cursor.end
      <4>1. n0 > Needed
        BY <1>6 DEF Gap
      <4>2. n0 \in Nat /\ Needed \in Nat
        BY Position
      <4> QED BY <1>1, <1>3, <4>1, <4>2
    <3>3. Needed \notin Range(seen)
      BY <1>1, <1>3 DEF Range
    <3>4. Ahead(Needed)
      BY <1>1, <3>1, <3>2, <3>3 DEF FInv, ReaderInv, Covered, Reading
    <3>5. PICK k \in Nat : k = Needed
      BY Position
    <3>6. NextRecord <= k /\ k < n0
      BY <1>1, <3>2, <3>4, <3>5, AheadOfNext DEF FInv
    <3> QED BY <1>1, <3>5, <3>6
  <2>6. Needed' = Needed
    BY <2>1, <2>3 DEF Needed, HighWater
  <2>7. TruncatedMeansRemoved' /\ SnapshotComplete' /\ FollowerContiguous'
    BY <1>1, <1>2, <2>1, <2>3, <2>5, <2>6
       DEF FInv, TruncatedMeansRemoved, SnapshotComplete, FollowerContiguous
  <2> QED BY <1>2, <2>2, <2>4, <2>7 DEF FInv
<1>7. CASE ~Gap(n0)
  <2>1. Yield(n0) /\ (UNCHANGED follower \/ Ends("stopped"))
    BY <1>7 DEF Deliver
  <2>2. ReaderInv'
    BY <2>1, YieldKeeps DEF FInv
  <2>3. /\ cursor' = [cursor EXCEPT !.from = n0 + 1]
        /\ seen' = Append(seen, n0)
    BY <2>1 DEF Yield, Advanced
  <2>4. /\ cursor'.step = "scan" /\ cursor'.from = n0 + 1
        /\ cursor'.start = cursor.start /\ cursor'.end = cursor.end
    BY <1>1, <2>3 DEF FInv, ReaderInv, CursorTypeOK
  <2>5. /\ Len(seen') = Len(seen) + 1 /\ seen' \in Seq(Nat)
        /\ DOMAIN seen = 1..Len(seen) /\ seen'[Len(seen) + 1] = n0
        /\ \A i \in 1..Len(seen) : seen'[i] = seen[i]
    BY <1>3, <2>3, Appending
  <2>6. /\ follower'.from = follower.from /\ follower'.end = follower.end
        /\ follower'.follow = follower.follow /\ follower'.step \in {"scan", "ended"}
        /\ follower'.step = "scan" => follower' = follower
        /\ follower'.err \in {"nil", "stopped"}
        /\ follower'.err = "nil" => follower' = follower
        /\ FollowerTypeOK'
    <3>1. CASE UNCHANGED follower
      BY <1>1, <1>5, <2>2, <3>1 DEF FollowerTypeOK, ReaderInv
    <3>2. CASE Ends("stopped")
      BY <1>5, <2>2, <3>2 DEF FollowerTypeOK, ReaderInv, Ends, Errors
    <3> QED BY <2>1, <3>1, <3>2
  <2>7. Needed' = n0 + 1
    BY <2>5, <1>3 DEF Needed, HighWater
  <2>8. FollowerInv'
    BY <1>1, <1>2, <1>5, <2>4, <2>6, <2>7 DEF FInv, FollowerInv, Reading
  <2>9. FollowerContiguous'
    <3>1. Positioned => n0 = Needed
      <4>1. n0 \in Nat /\ Needed \in Nat
        BY Position
      <4> QED BY <1>4, <1>7, <4>1 DEF Gap
    <3>2. ASSUME NEW i \in 2..Len(seen') PROVE seen'[i] = seen'[i - 1] + 1
      <4>1. CASE i <= Len(seen)
        <5>1. i \in 2..Len(seen) /\ i - 1 \in 1..Len(seen)
          BY <1>3, <2>5, <4>1
        <5>2. seen[i] = seen[i - 1] + 1
          BY <1>1, <5>1 DEF FInv, FollowerContiguous
        <5> QED BY <2>5, <5>1, <5>2
      <4>2. CASE ~(i <= Len(seen))
        <5>1. i = Len(seen) + 1 /\ i - 1 = Len(seen) /\ Len(seen) \in 1..Len(seen)
          BY <1>3, <2>5, <4>2
        <5>2. seen # << >> /\ Needed = seen[Len(seen)] + 1
          BY <1>3, <5>1 DEF Needed, HighWater
        <5> QED BY <2>5, <3>1, <5>1, <5>2 DEF Positioned
      <4> QED BY <4>1, <4>2
    <3>3. follower.from > 0 => seen'[1] = follower.from
      <4>1. CASE seen = << >>
        <5>1. seen'[1] = n0 /\ Len(seen) = 0
          BY <1>3, <2>5, <4>1
        <5> QED BY <1>5, <3>1, <4>1, <5>1, Position DEF Positioned
      <4>2. CASE seen # << >>
        <5>1. 1 \in 1..Len(seen)
          BY <1>3, <4>2
        <5> QED BY <1>1, <2>5, <4>2, <5>1 DEF FInv, FollowerContiguous
      <4> QED BY <4>1, <4>2
    <3> QED BY <2>6, <3>2, <3>3 DEF FollowerContiguous
  <2>10. TruncatedMeansRemoved' /\ SnapshotComplete'
    BY <1>1, <2>6 DEF TruncatedMeansRemoved, SnapshotComplete
  <2> QED BY <1>2, <2>2, <2>8, <2>9, <2>10 DEF FInv
<1> QED BY <1>6, <1>7

\* The end of a round: an exhausted snapshot ends the loop of a snapshot
\* follower and makes the other one wait.
LEMMA BatchDoneKeeps ==
  ASSUME FInv, BatchDone
  PROVE  FInv'
<1>1. follower.step = "scan" /\ cursor' = NoCursor /\ UNCHANGED <<log, seen>>
  BY DEF BatchDone
<1>2. LogInv' /\ segs' = segs /\ nextLSN' = nextLSN /\ (\A n : OnDisk(n)' <=> OnDisk(n))
  BY <1>1, LogSame DEF FInv
<1>3. ReaderInv'
  BY <1>1 DEF FInv, ReaderInv, CursorTypeOK, CursorOK, Covered, YieldsAscend, Reading,
     NoCursor
<1>4. /\ follower \in [step : {"none", "round", "scan", "waiting", "ended"},
                       follow : BOOLEAN, from : Nat, end : Nat, err : Errors]
      /\ follower.err = "nil"
  BY <1>1 DEF FInv, FollowerInv, FollowerTypeOK
<1>5. /\ follower'.from = follower.from /\ follower'.end = follower.end
      /\ follower'.follow = follower.follow
      /\ \/ follower'.step = "ended" /\ follower'.err = "read"
         \/ /\ follower'.step = "ended" /\ follower'.err = "nil"
            /\ cursor.step = "ended" /\ ~follower.follow
         \/ follower'.step = "waiting" /\ follower'.err = "nil" /\ follower.follow
      /\ FollowerTypeOK'
  <2>1. CASE Ends("read")
    BY <1>3, <1>4, <2>1 DEF Ends, FollowerTypeOK, Errors, ReaderInv
  <2>2. CASE cursor.step = "ended" /\ ~follower.follow /\ Ends("nil")
    BY <1>3, <1>4, <2>2 DEF Ends, FollowerTypeOK, Errors, ReaderInv
  <2>3. CASE follower.follow /\ follower' = [follower EXCEPT !.step = "waiting"]
    BY <1>3, <1>4, <2>3 DEF FollowerTypeOK, ReaderInv
  <2> QED BY <2>1, <2>2, <2>3 DEF BatchDone
<1>6. FollowerInv'
  <2>1. cursor'.step = "new"
    BY <1>1 DEF NoCursor
  <2> QED BY <1>1, <1>2, <1>5, <2>1 DEF FInv, FollowerInv
<1>7. FollowerContiguous' /\ TruncatedMeansRemoved'
  BY <1>1, <1>5 DEF FInv, FollowerContiguous, TruncatedMeansRemoved
<1>8. SnapshotComplete'
  <2> SUFFICES ASSUME cursor.step = "ended", ~follower.follow,
                      NEW n \in follower.from..follower.end, OnDisk(n)
               PROVE  n \in Range(seen)
    BY <1>1, <1>2, <1>5 DEF SnapshotComplete
  <2>1. n # 0 /\ n \in Nat
    BY <1>4 DEF FInv, LogInv, LogTypeOK, OnDisk, Holds
  <2>2. /\ cursor.start <= (IF follower.from = 0 THEN 1 ELSE follower.from)
        /\ cursor.end = follower.end
    BY <1>1 DEF FInv, FollowerInv
  <2>3. cursor.start \in Nat /\ cursor.end \in Nat
    BY DEF FInv, ReaderInv, CursorTypeOK
  <2>4. n \in cursor.start..cursor.end
    BY <1>4, <2>1, <2>2, <2>3
  <2>5. ~Ahead(n)
    BY DEF Ahead, InFile
  <2> QED BY <2>4, <2>5 DEF FInv, ReaderInv, Covered
<1> QED BY <1>2, <1>3, <1>6, <1>7, <1>8 DEF FInv

\* ReaderInv reads the log and the cursor.
LEMMA ReaderSame ==
  ASSUME ReaderInv, UNCHANGED <<log, reader>>
  PROVE  ReaderInv'
<1>1. cursor' = cursor /\ seen' = seen /\ segs' = segs /\ nextLSN' = nextLSN
  BY LogSame DEF reader
<1>2. CursorTypeOK' /\ YieldsAscend'
  BY <1>1 DEF ReaderInv, CursorTypeOK, YieldsAscend
<1>3. CursorOK'
  BY <1>1, LogSame DEF ReaderInv, CursorOK, Reading
<1>4. \A n : Ahead(n)' <=> Ahead(n)
  <2> SUFFICES ASSUME NEW n PROVE Ahead(n)' <=> Ahead(n)
    OBVIOUS
  <2>1. Leads(cursor.names, n)' <=> Leads(cursor.names, n)
    BY <1>1, LogSame DEF Leads
  <2>2. InFile(n)' <=> InFile(n)
    BY <1>1 DEF InFile, Top
  <2>3. \A b : Holds(b, n)' <=> Holds(b, n)
    BY <1>1 DEF Holds
  <2> QED BY <1>1, <2>1, <2>2, <2>3 DEF Ahead
<1>5. Covered'
  BY <1>1, <1>4, LogSame DEF ReaderInv, Covered, Reading
<1> QED BY <1>2, <1>3, <1>5 DEF ReaderInv

LEMMA WokenKeeps ==
  ASSUME FInv, Woken
  PROVE  FInv'
<1>1. /\ follower.step = "waiting" /\ UNCHANGED <<log, cursor, seen>>
      /\ follower' = [follower EXCEPT !.step = "round"]
  BY DEF Woken, reader
<1>2. LogInv' /\ ReaderInv' /\ nextLSN' = nextLSN
  BY <1>1, LogSame, ReaderSame DEF FInv, reader
<1>3. /\ follower'.step = "round" /\ follower'.from = follower.from
      /\ follower'.end = follower.end /\ follower'.follow = follower.follow
      /\ follower'.err = follower.err /\ FollowerTypeOK'
  BY <1>1, <1>2 DEF FInv, FollowerInv, FollowerTypeOK, ReaderInv
<1>4. FollowerInv'
  BY <1>1, <1>2, <1>3 DEF FInv, FollowerInv
<1> QED BY <1>1, <1>2, <1>3, <1>4, Quiet

LEMMA CanceledKeeps ==
  ASSUME FInv, Canceled
  PROVE  FInv'
<1>1. /\ follower.step = "waiting" /\ UNCHANGED <<log, cursor, seen>>
      /\ follower' = [follower EXCEPT !.step = "ended", !.err = "stopped"]
  BY DEF Canceled, reader, Ends
<1>2. LogInv' /\ ReaderInv' /\ nextLSN' = nextLSN
  BY <1>1, LogSame, ReaderSame DEF FInv, reader
<1>3. /\ follower'.step = "ended" /\ follower'.from = follower.from
      /\ follower'.end = follower.end /\ follower'.err = "stopped" /\ FollowerTypeOK'
  BY <1>1, <1>2 DEF FInv, FollowerInv, FollowerTypeOK, ReaderInv, Errors
<1>4. FollowerInv'
  BY <1>1, <1>2, <1>3 DEF FInv, FollowerInv
<1>5. FollowerContiguous' /\ TruncatedMeansRemoved' /\ SnapshotComplete'
  BY <1>1, <1>3 DEF FInv, FollowerContiguous, TruncatedMeansRemoved, SnapshotComplete
<1> QED BY <1>2, <1>4, <1>5 DEF FInv

\* The follower, scanning.
LEMMA ScanningKeeps ==
  ASSUME FInv, follower.step = "scan", Scan \/ ReadFails, UNCHANGED follower
  PROVE  FInv'
<1>1. /\ ReaderInv' /\ UNCHANGED <<log, seen>> /\ Reading
      /\ cursor'.start = cursor.start /\ cursor'.end = cursor.end
      /\ cursor'.step \in {"next", "relist", "scan", "ended", "failed"}
      /\ Reading' => cursor'.from = cursor.from
  BY ScanFrame DEF FInv
<1>2. LogInv' /\ nextLSN' = nextLSN
  BY <1>1, LogSame DEF FInv
<1>3. FollowerTypeOK' /\ Needed' = Needed
  BY <1>1 DEF FInv, FollowerInv, FollowerTypeOK, ReaderInv, Needed, HighWater
<1>4. FollowerInv'
  BY <1>1, <1>2, <1>3 DEF FInv, FollowerInv
<1> QED BY <1>1, <1>2, <1>4, Quiet

\* A Reader that no follower drives.
LEMMA ReadKeeps ==
  ASSUME FInv, follower.step = "none", Read, UNCHANGED follower
  PROVE  FInv'
<1>1. LogInv' /\ ReaderInv' /\ nextLSN' = nextLSN /\ (cursor'.step = "new" => seen' = << >>)
  <2>1. ASSUME NEW from \in 0..(MaxLSN + 1), NewReader(from) PROVE ReaderInv' /\ UNCHANGED log
                                                              /\ cursor'.step # "new"
    <3>1. /\ seen = << >> /\ NewCursor(from, lastLSN) /\ UNCHANGED <<log, seen>>
      BY <2>1 DEF NewReader, FInv, FollowerInv
    <3>2. PICK last \in Nat : last = lastLSN /\ last < nextLSN
      BY DEF FInv, LogInv, LogTypeOK, BoundsOK
    <3>3. NewCursor(from, last)
      BY <3>1, <3>2
    <3>4. from \in Nat /\ \A i \in DOMAIN seen : seen[i] < from
      BY <3>1, WalReaderAssumption
    <3>5. ReaderInv'
      BY <3>1, <3>2, <3>3, <3>4, NewCursorKeeps DEF FInv, ReaderInv
    <3>6. cursor'.step # "new"
      BY <3>1 DEF NewCursor, NoCursor
    <3> QED BY <3>1, <3>5, <3>6
  <2>2. ASSUME Scan \/ ReadFails PROVE ReaderInv' /\ UNCHANGED log /\ cursor'.step # "new"
    BY <2>2, ScanFrame DEF FInv
  <2>3. ASSUME CloseReader PROVE ReaderInv' /\ UNCHANGED log /\ cursor'.step # "new"
    <3>1. ReaderInv' /\ UNCHANGED log
      BY <2>3, ReadFailsKeeps DEF FInv
    <3>2. cursor'.step = "closed"
      BY <2>3 DEF CloseReader, Stopped, NoCursor
    <3> QED BY <3>1, <3>2
  <2>4. ASSUME NEW n \in 1..MaxLSN, Yield(n)
        PROVE  ReaderInv' /\ UNCHANGED log /\ cursor'.step # "new"
    <3>1. ReaderInv' /\ UNCHANGED log
      BY <2>4, YieldKeeps DEF FInv, Yield
    <3>2. cursor'.step = "scan"
      BY <2>4 DEF Yield, Accepts, HasNext, FInv, ReaderInv, CursorTypeOK
    <3> QED BY <3>1, <3>2
  <2>5. ReaderInv' /\ UNCHANGED log /\ cursor'.step # "new"
    BY <2>1, <2>2, <2>3, <2>4 DEF Read
  <2> QED BY <2>5, LogSame DEF FInv
<1>2. FollowerInv'
  BY <1>1 DEF FInv, FollowerInv, FollowerTypeOK, ReaderInv
<1>3. FollowerContiguous' /\ TruncatedMeansRemoved' /\ SnapshotComplete'
  BY DEF FInv, FollowerInv, FollowerContiguous, TruncatedMeansRemoved, SnapshotComplete
<1> QED BY <1>1, <1>2, <1>3 DEF FInv

LEMMA BesideKeeps ==
  ASSUME FInv, ~Over, Beside(WriterStep), UNCHANGED follower
  PROVE  FInv'
<1>1. LogInv' /\ ReaderInv'
  BY BesideWriter DEF FInv
<1>2. /\ seen' = seen
      /\ cursor' = IF Unlinks THEN [cursor EXCEPT !.top = segs[cursor.file]] ELSE cursor
  BY DEF Beside
<1>3. /\ cursor'.step = cursor.step /\ cursor'.start = cursor.start
      /\ cursor'.from = cursor.from /\ cursor'.end = cursor.end
  BY <1>2 DEF FInv, ReaderInv, CursorTypeOK
<1>4. nextLSN \in Nat /\ nextLSN' \in Nat /\ nextLSN <= nextLSN' /\ follower.end \in Nat
  BY WriterKeeps DEF FInv, LogInv, LogTypeOK, Beside, Effect, FollowerInv, FollowerTypeOK
<1>5. FollowerTypeOK' /\ Needed' = Needed
  BY <1>1, <1>2 DEF FInv, FollowerInv, FollowerTypeOK, ReaderInv, Needed, HighWater
<1>6. follower.end < nextLSN'
  BY <1>4 DEF FInv, FollowerInv
<1>7. FollowerInv'
  BY <1>2, <1>3, <1>5, <1>6 DEF FInv, FollowerInv, Reading
<1>8. follower.step # "ended"
  BY DEF Over
<1> QED BY <1>1, <1>2, <1>7, <1>8, Quiet

-----------------------------------------------------------------------------
(***************************************************************************)
(* FInv is an invariant of a reader or a follower beside the writer:       *)
(* whatever commits, rolls, truncations and cuts fall between its steps.   *)
(***************************************************************************)
THEOREM ReadersInvariant == FollowerSpec => []FInv
<1>1. FollowerInit => FInv
  <2> SUFFICES ASSUME FollowerInit PROVE FInv
    OBVIOUS
  <2>1. LogInv /\ seen = << >> /\ cursor = NoCursor /\ follower = NoFollower
    BY NewLogInv DEF FollowerInit, ReaderInit
  <2>2. ReaderInv
    BY <2>1 DEF NoCursor, ReaderInv, CursorTypeOK, CursorOK, Covered, YieldsAscend, Reading
  <2>3. FollowerInv
    <3>1. 0 < nextLSN
      BY DEF FollowerInit, ReaderInit, NewLog
    <3> QED BY <2>1, <2>2, <3>1
            DEF NoFollower, NoCursor, FollowerInv, FollowerTypeOK, ReaderInv, Errors, Reading
  <2>4. FollowerContiguous /\ TruncatedMeansRemoved /\ SnapshotComplete
    BY <2>1 DEF NoFollower, FollowerContiguous, TruncatedMeansRemoved, SnapshotComplete
  <2> QED BY <2>1, <2>2, <2>3, <2>4 DEF FInv
<1>2. FInv /\ [FollowerNext]_followerVars => FInv'
  <2> SUFFICES ASSUME FInv, [FollowerNext]_followerVars PROVE FInv'
    OBVIOUS
  <2>1. ASSUME NEW from \in 0..(MaxLSN + 1), NEW follow \in BOOLEAN, Follower(from, follow)
        PROVE  FInv'
    <3>1. from \in Nat
      BY WalReaderAssumption
    <3> QED BY <2>1, <3>1, StartKeeps
  <2>2. CASE FollowerStep
    <3>1. ASSUME NEW n \in 1..MaxLSN, Deliver(n) PROVE FInv'
      BY <3>1, DeliverKeeps
    <3> QED BY <2>2, <3>1, RoundKeeps, BatchDoneKeeps, WokenKeeps, ScanningKeeps
            DEF FollowerStep
  <2>3. CASE Canceled
    BY <2>3, CanceledKeeps
  <2>4. CASE follower.step = "scan" /\ ReadFails /\ UNCHANGED follower
    BY <2>4, ScanningKeeps
  <2>5. CASE follower.step = "none" /\ Read /\ UNCHANGED follower
    BY <2>5, ReadKeeps
  <2>6. CASE ~Over /\ Beside(WriterStep) /\ UNCHANGED follower
    BY <2>6, BesideKeeps
  <2>7. CASE UNCHANGED followerVars
    <3>1. UNCHANGED <<log, reader, cursor, seen, follower>>
      BY <2>7 DEF followerVars, readerVars, reader
    <3>2. LogInv' /\ ReaderInv' /\ nextLSN' = nextLSN
      BY <3>1, LogSame, ReaderSame DEF FInv
    <3>3. FollowerInv'
      BY <3>1, <3>2 DEF FInv, FollowerInv, FollowerTypeOK, ReaderInv, Reading, Needed, HighWater
    <3>4. FollowerContiguous' /\ TruncatedMeansRemoved' /\ SnapshotComplete'
      BY <3>1, LogSame DEF FInv, FollowerContiguous, TruncatedMeansRemoved, SnapshotComplete,
         Needed, HighWater
    <3> QED BY <3>2, <3>3, <3>4 DEF FInv
  <2> QED BY <2>1, <2>2, <2>3, <2>4, <2>5, <2>6, <2>7 DEF FollowerNext
<1> QED BY <1>1, <1>2, PTL DEF FollowerSpec

(***************************************************************************)
(* Type correctness: every state of a reader or follower is well typed; no *)
(* subtraction on LSNs goes below zero.                                    *)
(***************************************************************************)
THEOREM FollowerTypes == FollowerSpec => []FollowerTypeOK
<1>1. FInv => FollowerTypeOK
  BY DEF FInv, FollowerInv
<1> QED BY <1>1, ReadersInvariant, PTL

(***************************************************************************)
(* A reader, also the one of a follower's round, that ends without an      *)
(* error has missed no record of its window that is still on disk.         *)
(***************************************************************************)
THEOREM CompleteReads == FollowerSpec => []ReaderComplete
<1>1. FInv => ReaderComplete
  BY DEF FInv, ReaderInv, Covered, ReaderComplete, Ahead, InFile
<1> QED BY <1>1, ReadersInvariant, PTL

(***************************************************************************)
(* It yields the records in ascending order and once each, though a cut    *)
(* has them in two files for a while.                                      *)
(***************************************************************************)
THEOREM AscendingReads == FollowerSpec => []YieldsAscend
<1>1. FInv => YieldsAscend
  BY DEF FInv, ReaderInv
<1> QED BY <1>1, ReadersInvariant, PTL

(***************************************************************************)
(* A follower delivers consecutive records, over all its rounds.           *)
(***************************************************************************)
THEOREM ContiguousFollower == FollowerSpec => []FollowerContiguous
<1>1. FInv => FollowerContiguous
  BY DEF FInv
<1> QED BY <1>1, ReadersInvariant, PTL

(***************************************************************************)
(* A follower raises ErrTruncated only when the record it needs is gone.   *)
(***************************************************************************)
THEOREM TruncationIsReal == FollowerSpec => []TruncatedMeansRemoved
<1>1. FInv => TruncatedMeansRemoved
  BY DEF FInv
<1> QED BY <1>1, ReadersInvariant, PTL

(***************************************************************************)
(* A snapshot follower that ends by itself without an error has delivered  *)
(* all of its snapshot that is still on disk.                              *)
(***************************************************************************)
THEOREM CompleteSnapshots == FollowerSpec => []SnapshotComplete
<1>1. FInv => SnapshotComplete
  BY DEF FInv
<1> QED BY <1>1, ReadersInvariant, PTL
=============================================================================

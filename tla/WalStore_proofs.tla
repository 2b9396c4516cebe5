-------------------------- MODULE WalStore_proofs --------------------------
(***************************************************************************)
(* Type correctness of the store.  ControlOK is inductive: one lemma per   *)
(* group of actions shows that its steps preserve it.  Before them come    *)
(* facts about the operators the specification is built from: minima and   *)
(* counts over sets of naturals, sequences, files and directories.         *)
(***************************************************************************)
EXTENDS WalInvariant, FiniteSetTheorems, SequenceTheorems,
        WellFoundedInduction, TLAPS

-----------------------------------------------------------------------------
(* Sets of naturals.                                                       *)

(***************************************************************************)
(* A nonempty set of naturals has a least element, and Min yields it: the  *)
(* segment recovery scans next (Path) is one that is listed.               *)
(***************************************************************************)
LEMMA MinOfNaturals ==
  ASSUME NEW S \in SUBSET Nat, S # {}
  PROVE  Min(S) \in S /\ \A y \in S : Min(S) <= y
<1> DEFINE T == {0..x : x \in S}
<1>1. T \subseteq FiniteSubsetsOf(Nat) /\ T # {}
  <2> SUFFICES ASSUME NEW x \in S PROVE 0..x \in FiniteSubsetsOf(Nat)
    OBVIOUS
  <2> QED BY FS_Interval DEF FiniteSubsetsOf
<1>2. PICK m \in T : \A y \in T : ~(<<y, m>> \in StrictSubsetOrdering(Nat))
  <2> HIDE DEF T
  <2> QED BY <1>1, FS_StrictSubsetOrderingWellFounded, WFMin, Zenon
<1>3. PICK x \in S : m = 0..x
  BY <1>2
<1>4. \A y \in S : x <= y
  <2> SUFFICES ASSUME NEW y \in S, y < x PROVE FALSE
    OBVIOUS
  <2>1. 0..y \in T /\ 0..y \subseteq 0..x /\ 0..y # 0..x
    <3>1. x \in 0..x /\ x \notin 0..y OBVIOUS
    <3> QED BY <3>1
  <2>2. <<0..y, 0..x>> \in StrictSubsetOrdering(Nat)
    BY <2>1 DEF StrictSubsetOrdering
  <2> QED BY <2>1, <2>2, <1>2, <1>3
<1> QED BY <1>4, Zenon DEF Min

(***************************************************************************)
(* A nonempty subset of 1..n has a greatest element, and Max yields it:    *)
(* ActiveIdx is a position of the recovered index.                         *)
(***************************************************************************)
LEMMA MaxOfInterval ==
  ASSUME NEW n \in Nat, NEW S \in SUBSET (1..n), S # {}
  PROVE  Max(S) \in S /\ \A y \in S : y <= Max(S)
<1> DEFINE B == {b \in 0..n : \A y \in S : y <= b}
<1>1. B \in SUBSET Nat /\ B # {}
  <2>1. n \in B OBVIOUS
  <2> QED BY <2>1
<1> DEFINE m == Min(B)
<1>2. m \in B /\ \A b \in B : m <= b
  <2> HIDE DEF B
  <2> QED BY <1>1, MinOfNaturals
<1> HIDE DEF m
<1>3. m \in S
  <2> SUFFICES ASSUME m \notin S PROVE FALSE
    OBVIOUS
  <2>1. \A y \in S : y <= m - 1
    BY <1>2
  <2>2. m \in 1..n
    <3>1. PICK y \in S : TRUE OBVIOUS
    <3> QED BY <1>2, <3>1
  <2>3. m - 1 \in B
    BY <2>1, <2>2
  <2> QED BY <1>2, <2>2, <2>3
<1> QED BY <1>2, <1>3, Zenon DEF Max

(***************************************************************************)
(* A part of 1..n that is closed downwards is an interval from 1, and its  *)
(* cardinality is its greatest element: what the counts that stand for the *)
(* code's searches (FirstKept, Boundary, Deletable) compute.               *)
(***************************************************************************)
LEMMA DownwardClosed ==
  ASSUME NEW n \in Nat, NEW S \in SUBSET (1..n),
         \A i \in S : \A j \in 1..n : j <= i => j \in S
  PROVE  Cardinality(S) \in 0..n /\ S = 1..Cardinality(S)
<1> DEFINE T == {i \in 1..(n + 1) : i \notin S}
<1>1. T \in SUBSET Nat /\ T # {}
  <2>1. n + 1 \in T OBVIOUS
  <2> QED BY <2>1
<1> DEFINE k == Min(T)
<1>2. k \in T /\ \A i \in T : k <= i
  <2> HIDE DEF T
  <2> QED BY <1>1, MinOfNaturals
<1> HIDE DEF k
<1>3. S = 1..(k - 1)
  <2>1. k \in 1..(n + 1) /\ k \notin S
    BY <1>2
  <2>2. S \subseteq 1..(k - 1)
    <3> SUFFICES ASSUME NEW i \in S, k <= i PROVE FALSE
      BY <2>1
    <3> QED BY <2>1
  <2>3. 1..(k - 1) \subseteq S
    BY <1>2, <2>1
  <2> QED BY <2>2, <2>3
<1>4. Cardinality(1..(k - 1)) = k - 1
  BY <1>2, FS_Interval
<1> QED BY <1>2, <1>3, <1>4

(***************************************************************************)
(* A part of a..b has at most b - a + 1 elements.                          *)
(***************************************************************************)
LEMMA CountInInterval ==
  ASSUME NEW a \in Nat, NEW b \in Nat, NEW S \in SUBSET (a..b)
  PROVE  Cardinality(S) \in Nat /\ Cardinality(S) <= (IF a > b THEN 0 ELSE b - a + 1)
<1>1. IsFiniteSet(a..b) /\ Cardinality(a..b) = IF a > b THEN 0 ELSE b - a + 1
  BY FS_Interval
<1>2. IsFiniteSet(S) /\ Cardinality(S) <= Cardinality(a..b)
  BY <1>1, FS_Subset
<1> QED BY <1>1, <1>2, FS_CardinalityType

-----------------------------------------------------------------------------
(* Sequences.                                                              *)

(***************************************************************************)
(* Reverse yields a sequence with the same elements: Prunable names only   *)
(* segments that were collected.                                           *)
(***************************************************************************)
LEMMA ReverseType ==
  ASSUME NEW S, NEW s \in Seq(S)
  PROVE  Reverse(s) \in Seq(S) /\ Range(Reverse(s)) \subseteq Range(s)
<1>1. Len(s) \in Nat /\ DOMAIN s = 1..Len(s) /\ s \in [1..Len(s) -> S]
  OBVIOUS
<1>2. Reverse(s) \in [1..Len(s) -> S]
  BY <1>1 DEF Reverse
<1>3. \A i \in 1..Len(s) : Reverse(s)[i] \in Range(s)
  <2> SUFFICES ASSUME NEW i \in 1..Len(s) PROVE Reverse(s)[i] \in Range(s)
    OBVIOUS
  <2>1. Reverse(s)[i] = s[(Len(s) - i) + 1] /\ (Len(s) - i) + 1 \in DOMAIN s
    BY <1>1 DEF Reverse
  <2> QED BY <2>1 DEF Range
<1> HIDE DEF Reverse
<1>4. Reverse(s) \in Seq(S)
  BY <1>1, <1>2
<1>5. Range(Reverse(s)) \subseteq Range(s)
  BY <1>2, <1>3 DEF Range
<1> QED BY <1>4, <1>5

(***************************************************************************)
(* A subsequence takes its elements from the sequence, in order.           *)
(***************************************************************************)
LEMMA SubSeqType ==
  ASSUME NEW S, NEW s \in Seq(S), NEW m \in Nat \ {0}, NEW n \in 0..Len(s)
  PROVE  /\ SubSeq(s, m, n) \in Seq(S)
         /\ Len(SubSeq(s, m, n)) = IF m > n THEN 0 ELSE n - m + 1
         /\ m <= n => SubSeq(s, m, n) # << >>
         /\ \A i \in DOMAIN SubSeq(s, m, n) :
              /\ m + i - 1 \in m..n
              /\ SubSeq(s, m, n)[i] = s[m + i - 1]
         /\ Range(SubSeq(s, m, n)) \subseteq Range(s)
<1>1. SubSeq(s, m, n) \in Seq(S)
  OBVIOUS
<1>2. Len(SubSeq(s, m, n)) = IF m > n THEN 0 ELSE n - m + 1
  OBVIOUS
<1>3. ASSUME NEW i \in DOMAIN SubSeq(s, m, n)
      PROVE  m + i - 1 \in m..n /\ SubSeq(s, m, n)[i] = s[m + i - 1]
  <2>1. i \in 1..Len(SubSeq(s, m, n))
    BY <1>1, <1>3
  <2> QED BY <2>1, <1>2
<1>a. m <= n => SubSeq(s, m, n) # << >>
  BY <1>2
<1>4. Range(SubSeq(s, m, n)) \subseteq Range(s)
  <2>1. \A i \in DOMAIN SubSeq(s, m, n) : m + i - 1 \in DOMAIN s
    BY <1>3
  <2> QED BY <1>3, <2>1 DEF Range
<1> QED BY <1>1, <1>2, <1>a, <1>3, <1>4

\* What remains of an index whose first d segments are deleted, and those.
LEMMA SplitAt ==
  ASSUME NEW S, NEW s \in Seq(S), NEW d \in Nat, d <= Len(s)
  PROVE  /\ SubSeq(s, 1, d) \in Seq(S) /\ SubSeq(s, d + 1, Len(s)) \in Seq(S)
         /\ Len(SubSeq(s, 1, d)) = d /\ Len(SubSeq(s, d + 1, Len(s))) = Len(s) - d
         /\ d < Len(s) => SubSeq(s, d + 1, Len(s)) # << >>
         /\ \A i \in 1..d : SubSeq(s, 1, d)[i] = s[i]
         /\ \A i \in 1..(Len(s) - d) : SubSeq(s, d + 1, Len(s))[i] = s[d + i]
<1>1. SubSeq(s, 1, d) \in Seq(S) /\ SubSeq(s, d + 1, Len(s)) \in Seq(S)
  OBVIOUS
<1>2. Len(SubSeq(s, 1, d)) = d /\ Len(SubSeq(s, d + 1, Len(s))) = Len(s) - d
  OBVIOUS
<1>3. d < Len(s) => SubSeq(s, d + 1, Len(s)) # << >>
  <2>1. Len(s) - d > 0 => Len(SubSeq(s, d + 1, Len(s))) # 0
    BY <1>2
  <2>2. \A t \in Seq(S) : Len(t) # 0 => t # << >>
    OBVIOUS
  <2>3. d < Len(s) => Len(s) - d > 0
    OBVIOUS
  <2> QED BY <1>1, <2>1, <2>2, <2>3, Zenon
<1> QED BY <1>1, <1>2, <1>3

\* The head and the tail of a request or of a batch of them.
LEMMA HeadTailType ==
  ASSUME NEW S, NEW s \in Seq(S), s # << >>
  PROVE  Head(s) \in S /\ Tail(s) \in Seq(S)
OBVIOUS

\* The last element of a sequence is one of its elements.
LEMMA LastElement ==
  ASSUME NEW S, NEW s \in Seq(S), s # << >>
  PROVE  /\ Len(s) \in Nat /\ Len(s) > 0 /\ DOMAIN s = 1..Len(s)
         /\ Len(s) \in DOMAIN s /\ s[Len(s)] \in S
OBVIOUS

\* Appending adds one element at the end.
LEMMA AppendType ==
  ASSUME NEW S, NEW s \in Seq(S), NEW x \in S
  PROVE  /\ Append(s, x) \in Seq(S) /\ Len(s) \in Nat
         /\ Len(Append(s, x)) = Len(s) + 1 /\ Append(s, x)[Len(s) + 1] = x
         /\ DOMAIN s = 1..Len(s) /\ DOMAIN Append(s, x) = 1..(Len(s) + 1)
         /\ \A k \in 1..Len(s) : Append(s, x)[k] = s[k]
OBVIOUS

\* Collecting a segment above those collected keeps them ascending.
LEMMA AppendAscending ==
  ASSUME NEW s \in Seq(Nat), NEW p \in Nat, Ascending(s),
         \A k \in DOMAIN s : s[k] < p
  PROVE  /\ Append(s, p) \in Seq(Nat) /\ Append(s, p) # << >>
         /\ Ascending(Append(s, p))
         /\ Range(Append(s, p)) = Range(s) \cup {p}
         /\ \A k \in DOMAIN Append(s, p) : Append(s, p)[k] <= p
<1> DEFINE t == Append(s, p)
<1>1. /\ t \in Seq(Nat) /\ Len(t) = Len(s) + 1 /\ Len(s) \in Nat
      /\ DOMAIN t = 1..(Len(s) + 1) /\ DOMAIN s = 1..Len(s)
      /\ t[Len(s) + 1] = p /\ \A k \in 1..Len(s) : t[k] = s[k] /\ s[k] \in Nat
  OBVIOUS
<1> HIDE DEF t
<1>a. \A j, k \in 1..Len(s) : j < k => s[j] < s[k]
  BY <1>1 DEF Ascending
<1>2. t # << >>
  BY <1>1
<1>3. \A j, k \in DOMAIN t : j < k => t[j] < t[k]
  <2> SUFFICES ASSUME NEW j \in DOMAIN t, NEW k \in DOMAIN t, j < k PROVE t[j] < t[k]
    OBVIOUS
  <2>1. CASE k = Len(s) + 1
    BY <1>1, <2>1
  <2>2. CASE k # Len(s) + 1
    <3>1. j \in 1..Len(s) /\ k \in 1..Len(s)
      BY <1>1, <2>2
    <3> QED BY <1>1, <1>a, <3>1
  <2> QED BY <2>1, <2>2
<1>4. Range(t) = Range(s) \cup {p}
  BY <1>1 DEF Range
<1>5. \A k \in DOMAIN t : t[k] <= p
  BY <1>1
<1> QED BY <1>1, <1>2, <1>3, <1>4, <1>5 DEF t, Ascending

\* A prefix of an ascending sequence is ascending, and disjoint from the rest.
LEMMA PrefixAscending ==
  ASSUME NEW s \in Seq(Nat), NEW t \in Seq(Nat), Ascending(s),
         Len(t) \in 1..Len(s), \A i \in 1..Len(t) : t[i] = s[i]
  PROVE  /\ Ascending(t) /\ Range(t) \subseteq Range(s)
         /\ \A j \in 1..Len(s) : j > Len(t) => s[j] \notin Range(t)
<1>1. /\ DOMAIN s = 1..Len(s) /\ DOMAIN t = 1..Len(t) /\ Len(s) \in Nat /\ Len(t) \in Nat
      /\ \A i \in 1..Len(s) : s[i] \in Nat
  OBVIOUS
<1>2. Ascending(t) /\ Range(t) \subseteq Range(s)
  BY <1>1 DEF Ascending, Range
<1>3. ASSUME NEW j \in 1..Len(s), j > Len(t), NEW i \in 1..Len(t)
      PROVE  t[i] # s[j]
  <2>1. i \in 1..Len(s) /\ i < j
    BY <1>1, <1>3
  <2>2. s[i] < s[j] /\ s[i] \in Nat /\ s[j] \in Nat
    BY <1>1, <2>1 DEF Ascending
  <2> QED BY <1>3, <2>2
<1> QED BY <1>1, <1>2, <1>3 DEF Range

\* What follows a prefix of an ascending sequence is ascending and ends alike.
LEMMA SuffixAscending ==
  ASSUME NEW s \in Seq(Nat), Ascending(s), NEW d \in Nat, d < Len(s)
  PROVE  LET t == SubSeq(s, d + 1, Len(s))
         IN  /\ t \in Seq(Nat) /\ t # << >> /\ Ascending(t)
             /\ t[1] = s[d + 1] /\ t[Len(t)] = s[Len(s)]
             /\ \A k \in DOMAIN t : s[d + 1] <= t[k]
<1> DEFINE t == SubSeq(s, d + 1, Len(s))
<1>1. /\ t \in Seq(Nat) /\ t # << >> /\ Len(t) = Len(s) - d
      /\ \A i \in 1..(Len(s) - d) : t[i] = s[d + i]
  BY SplitAt
<1>2. Len(s) \in Nat /\ DOMAIN s = 1..Len(s) /\ DOMAIN t = 1..(Len(s) - d)
  BY <1>1
<1> HIDE DEF t
<1>3. ASSUME NEW i \in DOMAIN t PROVE d + i \in DOMAIN s /\ t[i] = s[d + i] /\ s[d + i] \in Nat
  BY <1>1, <1>2, SMTT(30)
<1>4. Ascending(t)
  <2> SUFFICES ASSUME NEW i \in DOMAIN t, NEW k \in DOMAIN t, i < k PROVE t[i] < t[k]
    BY DEF Ascending
  <2>1. i \in Nat /\ k \in Nat
    BY <1>2
  <2>2. d + i < d + k
    BY <2>1
  <2> QED BY <1>3, <2>2 DEF Ascending
<1>5. t[1] = s[d + 1] /\ t[Len(t)] = s[Len(s)]
  <2>1. 1 \in 1..(Len(s) - d) /\ Len(s) - d \in 1..(Len(s) - d) /\ d + (Len(s) - d) = Len(s)
    BY <1>2
  <2> QED BY <1>1, <2>1
<1>6. ASSUME NEW k \in DOMAIN t PROVE s[d + 1] <= t[k]
  <2>1. 1 \in DOMAIN t /\ k \in Nat /\ k >= 1
    BY <1>2
  <2>2. CASE k = 1
    BY <1>3, <1>5, <2>1, <2>2
  <2>3. CASE 1 < k
    BY <1>3, <1>4, <1>5, <2>1, <2>3 DEF Ascending
  <2> QED BY <2>1, <2>2, <2>3
<1> QED BY <1>1, <1>4, <1>5, <1>6 DEF t

\* Putting a smaller element in front keeps a sequence ascending.
LEMMA PrependAscending ==
  ASSUME NEW c \in Nat, NEW t \in Seq(Nat), Ascending(t),
         \A k \in DOMAIN t : c < t[k]
  PROVE  LET u == <<c>> \o t
         IN  /\ u \in Seq(Nat) /\ Ascending(u) /\ u[1] = c /\ Len(u) = Len(t) + 1
             /\ t # << >> => u[Len(u)] = t[Len(t)]
<1> DEFINE u == <<c>> \o t
<1>1. /\ u \in Seq(Nat) /\ Len(u) = Len(t) + 1 /\ u[1] = c /\ Len(t) \in Nat
      /\ DOMAIN t = 1..Len(t) /\ DOMAIN u = 1..(Len(t) + 1)
      /\ \A k \in 1..Len(t) : u[k + 1] = t[k]
  OBVIOUS
<1> HIDE DEF u
<1>2. Ascending(u)
  <2> SUFFICES ASSUME NEW i \in DOMAIN u, NEW k \in DOMAIN u, i < k PROVE u[i] < u[k]
    BY DEF Ascending
  <2>1. k - 1 \in 1..Len(t) /\ k = (k - 1) + 1 /\ i \in Nat
    BY <1>1
  <2>2. u[k] = t[k - 1]
    BY <1>1, <2>1
  <2>3. CASE i = 1
    BY <1>1, <2>1, <2>2, <2>3
  <2>4. CASE i # 1
    <3>1. i - 1 \in 1..Len(t) /\ i = (i - 1) + 1 /\ i - 1 < k - 1
      BY <1>1, <2>4, SMTT(30)
    <3> QED BY <1>1, <2>1, <2>2, <3>1 DEF Ascending
  <2> QED BY <2>3, <2>4
<1>3. t # << >> => u[Len(u)] = t[Len(t)]
  <2>1. t # << >> => Len(t) \in 1..Len(t)
    BY <1>1, LastElement
  <2> QED BY <1>1, <2>1
<1> QED BY <1>1, <1>2, <1>3 DEF u

(***************************************************************************)
(* Truncate never deletes the last segment.                                *)
(***************************************************************************)
LEMMA DeletableType ==
  ASSUME NEW s \in Seq(Nat), s # << >>, NEW upTo
  PROVE  Deletable(s, upTo) \in Nat /\ Deletable(s, upTo) < Len(s)
<1> DEFINE d == Deletable(s, upTo)
<1>1. Len(s) \in Nat /\ Len(s) > 0
  OBVIOUS
<1>2. {i \in 2..Len(s) : s[i] <= upTo} \in SUBSET (2..Len(s))
  OBVIOUS
<1>3. d \in Nat /\ d <= (IF 2 > Len(s) THEN 0 ELSE Len(s) - 2 + 1)
  BY <1>1, <1>2, CountInInterval, Zenon DEF Deletable
<1> HIDE DEF d
<1>4. d \in Nat /\ d < Len(s)
  BY <1>1, <1>3
<1> QED BY <1>4 DEF d

(***************************************************************************)
(* The segments that doTruncate may delete are those whose successor       *)
(* starts at or below the bound.                                           *)
(***************************************************************************)
LEMMA DeletableRight ==
  ASSUME NEW s \in Seq(Nat), s # << >>, Ascending(s), NEW upTo \in Nat
  PROVE  LET d == Deletable(s, upTo)
         IN  /\ d \in Nat /\ d < Len(s)
             /\ \A k \in 2..Len(s) : s[k] <= upTo <=> k <= d + 1
<1> DEFINE S == {i \in 2..Len(s) : s[i] <= upTo}
           T == S \cup {1}
           n == Len(s)
<1>1. n \in Nat /\ n > 0 /\ DOMAIN s = 1..n /\ \A k \in 1..n : s[k] \in Nat
  BY LastElement
<1>2. \A i \in S : i \in 2..n /\ s[i] <= upTo
  OBVIOUS
<1>3. \A k \in 2..n : s[k] <= upTo <=> k \in T
  OBVIOUS
<1>4. Deletable(s, upTo) = Cardinality(S)
  BY DEF Deletable
<1>5. \A i \in S, j \in 2..n : j <= i => j \in S
  <2> SUFFICES ASSUME NEW i \in S, NEW j \in 2..n, j < i PROVE s[j] <= upTo
    BY <1>2
  <2>1. i \in 1..n /\ j \in 1..n /\ s[i] <= upTo
    BY <1>2
  <2>2. s[j] < s[i] /\ s[i] \in Nat /\ s[j] \in Nat
    BY <1>1, <2>1 DEF Ascending
  <2> QED BY <2>1, <2>2
<1> HIDE DEF S, n
<1>6. T \in SUBSET (1..n) /\ 1 \in T
  BY <1>1, <1>2
<1>7. \A i \in T : \A j \in 1..n : j <= i => j \in T
  <2> SUFFICES ASSUME NEW i \in T, NEW j \in 1..n, j <= i, j # 1 PROVE j \in S
    OBVIOUS
  <2>1. i # 1 /\ i \in S /\ j \in 2..n
    BY <1>1, <1>6
  <2> QED BY <1>5, <2>1
<1>8. Cardinality(T) = Cardinality(S) + 1 /\ Cardinality(S) \in Nat
  <2>1. IsFiniteSet(1..n) /\ S \subseteq 1..n
    BY <1>1, <1>6, FS_Interval
  <2>2. IsFiniteSet(S)
    BY <2>1, FS_Subset, Zenon
  <2>3. 1 \notin S
    BY <1>2
  <2> QED BY <2>2, <2>3, FS_AddElement, FS_CardinalityType
<1> HIDE DEF T
<1>9. Cardinality(T) \in 0..n /\ T = 1..Cardinality(T)
  BY <1>1, <1>6, <1>7, DownwardClosed
<1>10. \A k \in 2..n : k \in T <=> k <= Cardinality(S) + 1
  BY <1>1, <1>8, <1>9
<1>11. Cardinality(S) < n
  BY <1>1, <1>8, <1>9
<1> QED BY <1>3, <1>4, <1>8, <1>10, <1>11 DEF n

\* The elements of the two parts of a sequence.
LEMMA RangeOfSplit ==
  ASSUME NEW s \in Seq(Nat), NEW d \in Nat, d <= Len(s)
  PROVE  /\ \A x : x \in Range(SubSeq(s, 1, d)) <=> \E k \in 1..d : x = s[k]
         /\ \A x : x \in Range(SubSeq(s, d + 1, Len(s)))
                     <=> \E k \in (d + 1)..Len(s) : x = s[k]
<1> DEFINE n == Len(s)
           t == SubSeq(s, 1, d)
           u == SubSeq(s, d + 1, n)
<1>1. /\ n \in Nat /\ t \in Seq(Nat) /\ u \in Seq(Nat) /\ Len(t) = d /\ Len(u) = n - d
      /\ \A i \in 1..d : t[i] = s[i]
      /\ \A i \in 1..(n - d) : u[i] = s[d + i]
  BY SplitAt
<1>2. DOMAIN t = 1..d /\ DOMAIN u = 1..(n - d) /\ d <= n
  BY <1>1
<1> HIDE DEF n, t, u
<1>3. \A x : x \in Range(t) <=> \E k \in 1..d : x = s[k]
  BY <1>1, <1>2, ZenonT(30) DEF Range
<1>4. ASSUME NEW x PROVE x \in Range(u) <=> \E k \in (d + 1)..n : x = s[k]
  <2>1. ASSUME x \in Range(u) PROVE \E k \in (d + 1)..n : x = s[k]
    <3>1. PICK i \in 1..(n - d) : x = u[i]
      BY <1>2, <2>1 DEF Range
    <3>2. PICK m \in Nat : m = d + i
      OBVIOUS
    <3>3. m \in (d + 1)..n /\ x = s[m]
      BY <1>1, <1>2, <3>1, <3>2
    <3> QED BY <3>3
  <2>2. ASSUME NEW k \in (d + 1)..n, x = s[k] PROVE x \in Range(u)
    <3>1. PICK i \in 1..(n - d) : k = d + i
      <4>1. k - d \in 1..(n - d) /\ k = d + (k - d)
        BY <1>1, <1>2
      <4> QED BY <4>1
    <3>2. x = u[i]
      BY <1>1, <2>2, <3>1
    <3> QED BY <1>2, <3>2 DEF Range
  <2> QED BY <2>1, <2>2
<1> QED BY <1>3, <1>4 DEF n, t, u

(***************************************************************************)
(* boundaryIndex: the segment it yields starts at or below the cut, and    *)
(* the next one above it.                                                  *)
(***************************************************************************)
LEMMA BoundaryRight ==
  ASSUME NEW s \in Seq(Nat), s # << >>, Ascending(s), NEW cut \in Nat, s[1] <= cut
  PROVE  /\ Boundary(s, cut) \in 1..Len(s)
         /\ s[Boundary(s, cut)] <= cut
         /\ \A k \in DOMAIN s : k > Boundary(s, cut) => cut < s[k]
<1> DEFINE S == {i \in DOMAIN s : s[i] <= cut}
           n == Cardinality(S)
<1>1. /\ Len(s) \in Nat /\ Len(s) > 0 /\ DOMAIN s = 1..Len(s)
      /\ \A k \in DOMAIN s : s[k] \in Nat
  BY LastElement
<1>2. S \in SUBSET (1..Len(s)) /\ 1 \in S
  BY <1>1
<1>3. \A i \in S : \A j \in 1..Len(s) : j <= i => j \in S
  <2> SUFFICES ASSUME NEW i \in S, NEW j \in 1..Len(s), j <= i PROVE s[j] <= cut
    BY <1>1
  <2>1. s[i] <= cut /\ i \in 1..Len(s) /\ s[i] \in Nat /\ s[j] \in Nat
    BY <1>1
  <2>2. j = i \/ j < i
    BY <2>1
  <2>3. j < i => s[j] < s[i]
    BY <1>1, <2>1 DEF Ascending
  <2> QED BY <2>1, <2>2, <2>3
<1>4. n \in 0..Len(s) /\ S = 1..n
  <2> HIDE DEF S
  <2> QED BY <1>1, <1>2, <1>3, DownwardClosed
<1>5. Boundary(s, cut) = MaxOf(1, n)
  BY DEF Boundary
<1> HIDE DEF n
<1>6. n \in 1..Len(s) /\ Boundary(s, cut) = n /\ n \in S
  <2>1. n \in 1..Len(s)
    <3>1. 1 \in 1..n
      BY <1>2, <1>4
    <3> HIDE DEF S
    <3> QED BY <1>4, <3>1
  <2> QED BY <1>4, <1>5, <2>1 DEF MaxOf
<1>7. ASSUME NEW k \in DOMAIN s, k > n PROVE cut < s[k]
  <2>1. k \notin S
    <3> HIDE DEF S
    <3> QED BY <1>1, <1>4, <1>7
  <2> QED BY <1>1, <2>1
<1> QED BY <1>6, <1>7

-----------------------------------------------------------------------------
(* Files.                                                                  *)

\* A new file has no record.
LEMMA NewFileType == NewFile \in File /\ NewFile.data = << >>
<1>1. << >> \in Seq(Rec) OBVIOUS
<1> QED BY <1>1 DEF NewFile, File

\* An fsync keeps the records of a file.
LEMMA FsyncedType ==
  ASSUME NEW f \in File
  PROVE  Fsynced(f) \in File /\ Fsynced(f).data = f.data
<1>1. Len(f.data) \in Nat BY DEF File
<1> QED BY <1>1 DEF File, Fsynced

\* Segment.Append adds one record at the end.
LEMMA AppendedType ==
  ASSUME NEW f \in File, NEW r \in Rec
  PROVE  Appended(f, r) \in File /\ Appended(f, r).data = Append(f.data, r)
<1>1. r.size \in Nat BY DEF Rec
<1>2. Append(f.data, r) \in Seq(Rec) BY DEF File
<1>3. f.junk > r.size => f.junk - r.size \in Nat BY <1>1 DEF File
<1> QED BY <1>1, <1>2, <1>3 DEF File, Appended

\* A write that fails adds no record.
LEMMA PartlyWrittenType ==
  ASSUME NEW f \in File, NEW n \in Nat
  PROVE  PartlyWritten(f, n) \in File /\ PartlyWritten(f, n).data = f.data
BY DEF File, PartlyWritten

\* Cutting the torn tail off keeps the records.
LEMMA TruncatedType ==
  ASSUME NEW f \in File
  PROVE  /\ TruncatedToValidEnd(f) \in File /\ TruncatedToValidEnd(f).data = f.data
         /\ [f EXCEPT !.junk = 0] \in File
<1>1. [f EXCEPT !.junk = 0] \in File /\ [f EXCEPT !.junk = 0].data = f.data
  BY DEF File
<1> QED BY <1>1, FsyncedType DEF TruncatedToValidEnd

\* A power loss leaves a prefix of the records.
LEMMA AfterPowerLossType ==
  ASSUME NEW f \in File, NEW keep, NEW torn \in BOOLEAN, MaySurvive(f, keep, torn)
  PROVE  /\ AfterPowerLoss(f, keep, torn) \in File
         /\ AfterPowerLoss(f, keep, torn).data = SubSeq(f.data, 1, keep)
         /\ keep \in 0..Len(f.data)
<1>1. keep \in 0..Len(f.data) /\ f.data \in Seq(Rec)
  BY DEF MaySurvive, File
<1>2. SubSeq(f.data, 1, keep) \in Seq(Rec)
  BY <1>1, SubSeqType
<1>3. Fsynced(f).hdr \in {"absent", "cached", "durable"}
  BY FsyncedType DEF File
<1> QED BY <1>1, <1>2, <1>3 DEF File, AfterPowerLoss

\* RewriteFrom yields a file, and starts copying inside the old one or at its
\* end.
LEMMA RewrittenType ==
  ASSUME NEW f \in File, NEW lsn \in Nat
  PROVE  /\ Rewritten(f, lsn) \in File
         /\ FirstKept(f.data, lsn) \in 1..(Len(f.data) + 1)
<1> DEFINE B == {i \in DOMAIN f.data : f.data[i].lsn < lsn}
<1>1. Len(f.data) \in Nat /\ DOMAIN f.data = 1..Len(f.data) /\ f.data \in Seq(Rec)
  BY DEF File
<1>2. Cardinality(B) \in Nat /\ Cardinality(B) <= Len(f.data)
  <2>1. B \in SUBSET (1..Len(f.data))
    BY <1>1
  <2> HIDE DEF B
  <2>2. /\ Cardinality(B) \in Nat
        /\ Cardinality(B) <= (IF 1 > Len(f.data) THEN 0 ELSE Len(f.data) - 1 + 1)
    BY <1>1, <2>1, CountInInterval, Zenon
  <2> QED BY <1>1, <2>2
<1>3. FirstKept(f.data, lsn) \in 1..(Len(f.data) + 1)
  <2>1. FirstKept(f.data, lsn) = Cardinality(B) + 1
    BY DEF FirstKept
  <2> HIDE DEF B
  <2> QED BY <1>1, <1>2, <2>1
<1>4. SubSeq(f.data, FirstKept(f.data, lsn), Len(f.data)) \in Seq(Rec)
  BY <1>1, <1>3, SubSeqType
<1> QED BY <1>3, <1>4 DEF Rewritten, File

(***************************************************************************)
(* RewriteFrom moves the records to keep to the front of a segment that    *)
(* starts with the first of them.                                          *)
(***************************************************************************)
LEMMA RewrittenInPlace ==
  ASSUME NEW f \in File, NEW old \in Nat, NEW base \in Nat, old < base,
         \A k \in DOMAIN f.data : f.data[k].lsn = old + k - 1
  PROVE  LET g == Rewritten(f, base)
         IN  /\ \A k \in DOMAIN g.data : g.data[k].lsn = base + k - 1
             /\ base < old + Len(f.data) => Len(g.data) = old + Len(f.data) - base
<1> DEFINE n == Len(f.data)
           S == {i \in DOMAIN f.data : f.data[i].lsn < base}
           c == Cardinality(S)
           kept == SubSeq(f.data, c + 1, n)
<1>1. n \in Nat /\ DOMAIN f.data = 1..n /\ f.data \in Seq(Rec)
  BY DEF File
<1>2. S = {i \in 1..n : old + i - 1 < base}
  BY <1>1
<1>3. c \in 0..n /\ S = 1..c
  <2> HIDE DEF S, n
  <2>1. S \in SUBSET (1..n) /\ \A i \in S : \A j \in 1..n : j <= i => j \in S
    BY <1>1, <1>2
  <2> QED BY <1>1, <2>1, DownwardClosed
<1>4. Rewritten(f, base).data = kept
  BY DEF Rewritten, FirstKept
<1>5. \/ c = n
      \/ c < n /\ c = base - old
  <2> HIDE DEF S, c, n
  <2> SUFFICES ASSUME c < n PROVE c = base - old
    BY <1>1, <1>3
  <2>1. c + 1 \in 1..n /\ c + 1 \notin S
    BY <1>1, <1>3
  <2>2. old + (c + 1) - 1 >= base
    BY <1>1, <1>2, <1>3, <2>1
  <2>3. c > 0
    BY <1>3, <2>2
  <2>4. c \in S /\ old + c - 1 < base
    <3>1. c \in 1..c
      BY <1>3, <2>3
    <3> QED BY <1>2, <1>3, <3>1
  <2> QED BY <1>3, <2>2, <2>4
<1>6. base < old + n => c < n
  <2> HIDE DEF S, c
  <2> SUFFICES ASSUME base < old + n, c = n PROVE FALSE
    BY <1>3
  <2>1. n \in 1..n \/ n = 0
    BY <1>1
  <2>2. n \in S \/ n = 0
    BY <1>3, <2>1
  <2> QED BY <1>1, <1>2, <2>2
<1>7. /\ Len(kept) = n - c /\ DOMAIN kept = 1..(n - c)
      /\ \A k \in 1..(n - c) : kept[k] = f.data[c + k]
  <2> HIDE DEF c
  <2>1. kept \in Seq(Rec) /\ Len(kept) = n - c
        /\ \A k \in 1..(n - c) : kept[k] = f.data[c + k]
    BY <1>1, <1>3, SplitAt
  <2> QED BY <2>1
<1> HIDE DEF kept, c, S, n
<1>8. ASSUME NEW k \in DOMAIN kept PROVE kept[k].lsn = base + k - 1
  <2>1. k \in 1..(n - c) /\ c < n /\ c = base - old /\ c + k \in 1..n
    BY <1>1, <1>3, <1>5, <1>7
  <2>2. kept[k].lsn = old + (c + k) - 1
    BY <1>1, <1>7, <2>1
  <2> QED BY <1>3, <2>1, <2>2
<1>9. base < old + n => Len(kept) = old + n - base
  BY <1>3, <1>1, <1>5, <1>6, <1>7
<1> QED BY <1>4, <1>8, <1>9 DEF n

-----------------------------------------------------------------------------
(* Directories and the files they keep alive.                              *)

(***************************************************************************)
(* Collecting dead files keeps the type and the live files.                *)
(***************************************************************************)
LEMMA CollectedType ==
  ASSUME NEW fs \in [Inodes -> File], NEW live
  PROVE  /\ Collected(fs, live) \in [Inodes -> File]
         /\ \A i \in Inodes \cap live : Collected(fs, live)[i] = fs[i]
BY NewFileType DEF Collected

(***************************************************************************)
(* Linking and unlinking a name changes that name only.                    *)
(***************************************************************************)
LEMMA LinkType ==
  ASSUME NEW d, DOMAIN d \subseteq Nat, Range(d) \subseteq Inodes,
         NEW base \in Nat, NEW i \in Inodes
  PROVE  /\ DOMAIN Link(d, base, i) = DOMAIN d \cup {base}
         /\ Range(Link(d, base, i)) \subseteq Inodes
         /\ Link(d, base, i)[base] = i
         /\ \A b \in DOMAIN d : b # base => Link(d, base, i)[b] = d[b]
BY DEF Link, Range

\* Unlinking a name drops that name only.
LEMMA UnlinkType ==
  ASSUME NEW d, DOMAIN d \subseteq Nat, Range(d) \subseteq Inodes, NEW base
  PROVE  /\ DOMAIN Unlink(d, base) = DOMAIN d \ {base}
         /\ DOMAIN Unlink(d, base) \subseteq Nat
         /\ Range(Unlink(d, base)) \subseteq Inodes
         /\ \A b \in DOMAIN Unlink(d, base) : Unlink(d, base)[b] = d[b]
BY DEF Unlink, Restrict, Range


USE WalStateAssumption DEF ControlOK, TypeOK

-----------------------------------------------------------------------------
(* What every step may rely on.                                            *)

\* While the log is open the active segment is a file.
LEMMA ActiveType ==
  ASSUME ControlOK, Opened
  PROVE  active \in Inodes /\ ActiveFile \in File
BY DEF StepsOK, DiskTypeOK, ActiveFile

\* The steps of the writer are those of an open log.
LEMMA WriterOpened ==
  ASSUME ControlOK,
         \/ pc \in {"idle", "write", "installRoll", "clearLeftover", "rewrite",
                    "publish", "publishSync", "remove"}
         \/ job.kind \in {"roll", "cutAll"}
  PROVE  Opened
BY DEF StepsOK, Opened, Kinds, ControlTypeOK, PCs

\* The file under construction exists.
LEMMA FreshType ==
  ASSUME ControlOK, HasFresh
  PROVE  fresh \in Inodes /\ files[fresh] \in File
BY DEF StepsOK, DiskTypeOK

\* What a directory names are files.
LEMMA NamedType ==
  ASSUME ControlOK, NEW d \in {dir, durableDir}, NEW b \in DOMAIN d
  PROVE  d[b] \in Inodes /\ files[d[b]] \in File /\ b \in Nat
BY DEF DiskTypeOK, Range

\* Collecting dead files keeps files files.
LEMMA CollectedFiles ==
  ASSUME ControlOK
  PROVE  \A live : Collected(files, live) \in [Inodes -> File]
BY CollectedType DEF DiskTypeOK

\* A failed call is recorded with the step and the job it failed in.
LEMMA FaultType ==
  ASSUME ControlOK, NEW call, Fault(call)
  PROVE  faults' \in Seq([call : FaultKinds, at : PCs, kind : JobKinds])
<1>1. [call |-> call, at |-> pc, kind |-> job.kind]
        \in [call : FaultKinds, at : PCs, kind : JobKinds]
  BY DEF Fault, ControlTypeOK
<1> QED BY <1>1 DEF Fault, HistTypeOK

\* Only recovery has obligations towards the directory.
LEMMA NotRecovering ==
  ASSUME pc' \notin {"scan", "reconcile", "prune"}
  PROVE  RecoveryOK'
BY DEF RecoveryOK, ScanOK, ReconcileOK, PruneOK

\* A new control state that has no job.
LEMMA NoJobType ==
  NoJob \in [kind : JobKinds, base : Nat, names : Seq(Nat), unlinked : BOOLEAN,
             idx : Seq(Nat), paths : SUBSET Nat, expected : Nat]
<1>1. << >> \in Seq(Nat) OBVIOUS
<1> QED BY <1>1 DEF NoJob, JobKinds

\* The fields of the job under way.
LEMMA JobType ==
  ASSUME ControlOK
  PROVE  /\ job.base \in Nat /\ job.paths \subseteq Nat
         /\ job.names \in Seq(Nat) /\ \A k \in DOMAIN job.names : job.names[k] \in Nat
         /\ job.idx \in Seq(Nat) /\ \A k \in DOMAIN job.idx : job.idx[k] \in Nat
<1>1. job.base \in Nat /\ job.paths \subseteq Nat /\ job.names \in Seq(Nat)
      /\ job.idx \in Seq(Nat)
  BY DEF ControlTypeOK
<1> QED BY <1>1

\* Failing the request under way leaves the rest of the batch.
LEMMA RequestFailsType ==
  ASSUME ControlOK, RequestFails, batch.reqs # << >>
  PROVE  /\ pc' = "write"
         /\ batch' \in [reqs : Seq(Seq(Nat)), cur : SUBSET Rec, done : SUBSET Rec,
                        wrote : BOOLEAN]
<1>1. Tail(batch.reqs) \in Seq(Seq(Nat))
  BY DEF ControlTypeOK
<1> QED BY <1>1 DEF RequestFails, ControlTypeOK

-----------------------------------------------------------------------------
(* Group commits.                                                          *)

\* The record to write is the first of the first request.
LEMMA PayloadType ==
  ASSUME ControlOK, Writing
  PROVE  /\ Head(batch.reqs) \in Seq(Nat) /\ Tail(batch.reqs) \in Seq(Seq(Nat))
         /\ Tail(Head(batch.reqs)) \in Seq(Nat)
         /\ PayloadSize \in Nat /\ NewRec \in Rec
<1>1. Head(batch.reqs) \in Seq(Nat) /\ Tail(batch.reqs) \in Seq(Seq(Nat))
  BY DEF ControlTypeOK, Writing
<1>2. PayloadSize \in Nat /\ Tail(Head(batch.reqs)) \in Seq(Nat)
  <2>1. Head(batch.reqs) # << >>
    BY DEF Writing
  <2> QED BY <1>1, <2>1, HeadTailType, Zenon DEF PayloadSize
<1>3. nextLSN \in Nat /\ gen \in Nat
  BY DEF MemTypeOK, HistTypeOK
<1> QED BY <1>1, <1>2, <1>3 DEF NewRec, Rec

\* The steps of commit, finishBatch and roll.
LEMMA CommitControl ==
  ASSUME ControlOK, Commit
  PROVE  ControlOK'
<1> USE DEF disk, mem, hist, DiskTypeOK, MemTypeOK, HistTypeOK
<1>1. ASSUME NEW b \in Batches, BeginCommit(b) PROVE ControlOK'
  <2>1. TypeOK'
    BY <1>1 DEF BeginCommit, ControlTypeOK, NoBatch, PCs
  <2>2. StepsOK' /\ RecoveryOK'
    BY <1>1, NotRecovering DEF BeginCommit, StepsOK, Opened, HasFresh, Kinds, DropKinds
  <2> QED BY <2>1, <2>2
<1>2. ASSUME WriteRecord PROVE ControlOK'
  <2> USE <1>2 DEF WriteRecord, Writing
  <2>1. active \in Inodes /\ ActiveFile \in File
    BY ActiveType, WriterOpened
  <2>2. /\ Head(batch.reqs) \in Seq(Nat) /\ Tail(batch.reqs) \in Seq(Seq(Nat))
        /\ Tail(Head(batch.reqs)) \in Seq(Nat)
    BY PayloadType
  <2>3. NewRec \in Rec
    BY PayloadType
  <2>4. <<Tail(Head(batch.reqs))>> \o Tail(batch.reqs) \in Seq(Seq(Nat))
    BY <2>2
  <2>5. DiskTypeOK' /\ MemTypeOK' /\ HistTypeOK'
    BY <2>1, <2>3, AppendedType
  <2>6. ControlTypeOK'
    BY <2>3, <2>4 DEF ControlTypeOK
  <2>7. StepsOK' /\ RecoveryOK'
    BY NotRecovering DEF StepsOK, Opened, HasFresh, Kinds, DropKinds
  <2> QED BY <2>5, <2>6, <2>7
<1>3. ASSUME WriteRecordFails PROVE ControlOK'
  <2> USE <1>3 DEF WriteRecordFails, Writing
  <2>1. active \in Inodes /\ ActiveFile \in File
    BY ActiveType, WriterOpened
  <2>2. \A n \in 0..PayloadSize : PartlyWritten(ActiveFile, n) \in File
    BY <2>1, PartlyWrittenType
  <2>3. DiskTypeOK' /\ MemTypeOK' /\ HistTypeOK'
    BY <2>1, <2>2, FaultType
  <2>4. ControlTypeOK'
    BY RequestFailsType DEF ControlTypeOK, PCs
  <2>5. StepsOK' /\ RecoveryOK'
    BY NotRecovering DEF RequestFails, StepsOK, Opened, HasFresh, Kinds, DropKinds
  <2> QED BY <2>3, <2>4, <2>5
<1>4. ASSUME CompleteRequest PROVE ControlOK'
  <2> USE <1>4 DEF CompleteRequest
  <2>1. Tail(batch.reqs) \in Seq(Seq(Nat))
    BY DEF ControlTypeOK
  <2>2. TypeOK'
    BY <2>1 DEF ControlTypeOK
  <2>3. StepsOK' /\ RecoveryOK'
    BY NotRecovering DEF StepsOK, Opened, HasFresh, Kinds, DropKinds
  <2> QED BY <2>2, <2>3
<1>5. ASSUME FinishBatch PROVE ControlOK'
  <2> USE <1>5 DEF FinishBatch
  <2>1. /\ active \in Inodes /\ Fsynced(ActiveFile) \in File
        /\ index[1] \in Nat /\ PublishedFirst \in Nat /\ nextLSN - 1 \in Nat
    BY ActiveType, WriterOpened, FsyncedType DEF StepsOK, PublishedFirst
  <2>2. DiskTypeOK' /\ HistTypeOK'
    BY <2>1 DEF ControlTypeOK
  <2>3. MemTypeOK'
    BY <2>1
  <2>4. ControlTypeOK'
    BY DEF ControlTypeOK, NoBatch, PCs
  <2>5. StepsOK' /\ RecoveryOK'
    BY NotRecovering DEF StepsOK, Opened, HasFresh, Kinds, DropKinds
  <2> QED BY <2>2, <2>3, <2>4, <2>5
<1>6. ASSUME FinishBatchFails PROVE ControlOK'
  <2> USE <1>6 DEF FinishBatchFails
  <2>1. TypeOK'
    BY FaultType DEF ControlTypeOK, NoBatch, PCs
  <2>2. StepsOK' /\ RecoveryOK'
    BY NotRecovering DEF StepsOK, Opened, HasFresh, Kinds, DropKinds
  <2> QED BY <2>1, <2>2
<1>7. ASSUME StartRoll PROVE ControlOK'
  <2> USE <1>7 DEF StartRoll, Writing
  <2>1. active \in Inodes /\ Sealed \in File
    BY ActiveType, WriterOpened, FsyncedType DEF Sealed
  <2>2. DiskTypeOK' /\ MemTypeOK' /\ HistTypeOK'
    BY <2>1
  <2>3. ControlTypeOK'
    BY NoJobType DEF ControlTypeOK, PCs, JobKinds
  <2>4. StepsOK' /\ RecoveryOK'
    BY NotRecovering DEF StepsOK, Opened, HasFresh, Kinds, DropKinds, NoJob
  <2> QED BY <2>2, <2>3, <2>4
<1>8. ASSUME StartRollFails PROVE ControlOK'
  <2> USE <1>8 DEF StartRollFails, Writing
  <2>1. DiskTypeOK' /\ MemTypeOK' /\ HistTypeOK'
    BY FaultType
  <2>2. ControlTypeOK'
    BY RequestFailsType DEF ControlTypeOK, PCs
  <2>3. StepsOK' /\ RecoveryOK'
    BY NotRecovering DEF RequestFails, StepsOK, Opened, HasFresh, Kinds, DropKinds
  <2> QED BY <2>1, <2>2, <2>3
<1>9. ASSUME InstallRoll PROVE ControlOK'
  <2> USE <1>9 DEF InstallRoll
  <2>1. fresh \in Inodes /\ batch.reqs # << >> /\ pc' = "write"
    BY FreshType DEF HasFresh, StepsOK, Kinds, RequestFails
  <2>2. faults' \in Seq([call : FaultKinds, at : PCs, kind : JobKinds])
    BY FaultType
  <2>3. Append(index, job.base) \in Seq(Nat) /\ Append(index, job.base) # << >>
    <3>1. index \in Seq(Nat) /\ job.base \in Nat
      BY DEF ControlTypeOK
    <3> QED BY <3>1, AppendProperties
  <2>4. DiskTypeOK' /\ MemTypeOK' /\ HistTypeOK'
    BY <2>1, <2>2, <2>3, CollectedType
  <2>5. ControlTypeOK'
    BY <2>1, RequestFailsType, NoJobType DEF ControlTypeOK, PCs
  <2>6. StepsOK' /\ RecoveryOK'
    BY <2>1, <2>3, NotRecovering
    DEF StepsOK, Opened, HasFresh, Kinds, DropKinds, NoJob
  <2> QED BY <2>4, <2>5, <2>6
<1> QED
  BY <1>1, <1>2, <1>3, <1>4, <1>5, <1>6, <1>7, <1>8, <1>9 DEF Commit

-----------------------------------------------------------------------------
(* The creation of a segment.                                              *)

\* A failed Create ends the roll of a request, the cut or Open.
LEMMA CreateFailsControl ==
  ASSUME ControlOK, CreateFails, job.kind \in {"init", "roll", "cutAll"},
         job.kind \in {"roll", "cutAll"} <=> Opened,
         UNCHANGED <<disk, mem, gen, hist>>,
         faults' \in Seq([call : FaultKinds, at : PCs, kind : JobKinds])
  PROVE  ControlOK'
<1> USE DEF disk, mem, hist, DiskTypeOK, MemTypeOK, HistTypeOK, CreateFails
<1>1. DiskTypeOK' /\ MemTypeOK' /\ HistTypeOK'
  OBVIOUS
<1>2. ControlTypeOK'
  BY RequestFailsType, NoJobType DEF StepsOK, ControlTypeOK, PCs
<1>3. StepsOK' /\ RecoveryOK'
  BY NotRecovering
  DEF RequestFails, StepsOK, Opened, HasFresh, Kinds, DropKinds, NoJob
<1> QED BY <1>1, <1>2, <1>3

\* The steps of segment.Create, with each of its failures.
LEMMA CreateControl ==
  ASSUME ControlOK, Create
  PROVE  ControlOK'
<1> USE DEF disk, mem, hist, DiskTypeOK, MemTypeOK, HistTypeOK
<1>1. ASSUME CreateOpen PROVE ControlOK'
  <2> USE <1>1 DEF CreateOpen
  <2>1. PICK i \in FreeInodes : /\ files' = [files EXCEPT ![i] = NewFile]
                                /\ dir' = Link(dir, job.base, i)
                                /\ fresh' = i
    OBVIOUS
  <2>2. i \in Inodes /\ job.base \in Nat
    BY DEF FreeInodes, ControlTypeOK
  <2>3. DOMAIN dir' \subseteq Nat /\ Range(dir') \subseteq Inodes
    <3>1. DOMAIN dir \subseteq Nat /\ Range(dir) \subseteq Inodes
      OBVIOUS
    <3>2. /\ DOMAIN Link(dir, job.base, i) = DOMAIN dir \cup {job.base}
          /\ Range(Link(dir, job.base, i)) \subseteq Inodes
      BY <2>2, <3>1, LinkType
    <3> QED BY <2>1, <2>2, <3>1, <3>2
  <2>4. DiskTypeOK' /\ MemTypeOK' /\ HistTypeOK'
    BY <2>1, <2>2, <2>3, NewFileType
  <2>5. ControlTypeOK'
    BY <2>1, <2>2 DEF ControlTypeOK, PCs
  <2>6. StepsOK' /\ RecoveryOK'
    BY <2>1, <2>2, NotRecovering DEF StepsOK, Opened, HasFresh, Kinds, DropKinds
  <2> QED BY <2>4, <2>5, <2>6
<1>2. ASSUME CreateHeader \/ CreateSync PROVE ControlOK'
  <2> USE <1>2 DEF CreateHeader, CreateSync
  <2>1. fresh \in Inodes /\ files[fresh] \in File
    BY FreshType DEF HasFresh
  <2>2. files' \in [Inodes -> File]
    <3>1. [files[fresh] EXCEPT !.hdr = "cached"] \in File
      BY <2>1 DEF File
    <3>2. Fsynced(files[fresh]) \in File
      BY <2>1, FsyncedType
    <3> QED BY <2>1, <3>1, <3>2
  <2>3. DiskTypeOK' /\ MemTypeOK' /\ HistTypeOK'
    BY <2>2
  <2>4. ControlTypeOK'
    BY DEF ControlTypeOK, PCs
  <2>5. StepsOK' /\ RecoveryOK'
    BY NotRecovering DEF StepsOK, Opened, HasFresh, Kinds, DropKinds
  <2> QED BY <2>3, <2>4, <2>5
<1>3. ASSUME CreateSyncDir PROVE ControlOK'
  <2> USE <1>3 DEF CreateSyncDir
  <2>1. DiskTypeOK' /\ MemTypeOK' /\ HistTypeOK'
    BY CollectedType
  <2>2. job.kind \in {"init", "roll", "cutAll"}
    BY DEF StepsOK, Kinds
  <2>3. ControlTypeOK'
    BY <2>2 DEF ControlTypeOK, PCs
  <2>4. StepsOK' /\ RecoveryOK'
    BY <2>2, NotRecovering DEF StepsOK, Opened, HasFresh, Kinds, DropKinds
  <2> QED BY <2>1, <2>3, <2>4
<1>4. ASSUME CreateOpenFails \/ CreateHeaderFails \/ CreateSyncDirFails
      PROVE  ControlOK'
  <2> USE <1>4 DEF CreateOpenFails, CreateHeaderFails, CreateSyncDirFails
  <2>1. /\ job.kind \in {"init", "roll", "cutAll"}
        /\ job.kind \in {"roll", "cutAll"} <=> Opened
    BY DEF StepsOK, Kinds, Opened
  <2>2. faults' \in Seq([call : FaultKinds, at : PCs, kind : JobKinds])
    BY FaultType
  <2> QED BY <2>1, <2>2, CreateFailsControl
<1> QED BY <1>1, <1>2, <1>3, <1>4 DEF Create

-----------------------------------------------------------------------------
(* Truncate and CutOffset.                                                 *)

\* An operation that starts changes only the job, the step and the floor.
LEMMA StartDropControl ==
  ASSUME ControlOK, pc = "idle", NEW upTo \in Nat, NEW newJob, NEW step,
         StartDrop(upTo, newJob, step),
         newJob \in [kind : JobKinds, base : Nat, names : Seq(Nat),
                     unlinked : BOOLEAN, idx : Seq(Nat), paths : SUBSET Nat,
                     expected : Nat],
         newJob.kind \in DropKinds, newJob.idx # << >>,
         \/ step = "remove" /\ newJob.kind \in {"truncate", "cutBelow"}
         \/ step = "clearLeftover" /\ newJob.kind = "cutAll"
         \/ step = "rewrite" /\ newJob.kind = "cutRewrite"
  PROVE  ControlOK'
<1> USE DEF disk, mem, hist, DiskTypeOK, MemTypeOK, HistTypeOK, StartDrop
<1>1. DiskTypeOK' /\ MemTypeOK' /\ HistTypeOK'
  BY DEF MaxOf, MinOf, Reach
<1>2. ControlTypeOK'
  BY DEF ControlTypeOK, PCs
<1>3. StepsOK' /\ RecoveryOK'
  BY NotRecovering DEF StepsOK, Opened, HasFresh, Kinds, DropKinds
<1> QED BY <1>1, <1>2, <1>3

\* An operation that fails leaves the log open.
LEMMA JobFailsControl ==
  ASSUME ControlOK, JobFails, Opened,
         UNCHANGED <<dir, durableDir, mem, batch, gen, hist>>,
         files' \in [Inodes -> File], temps' \subseteq Nat,
         faults' \in Seq([call : FaultKinds, at : PCs, kind : JobKinds])
  PROVE  ControlOK'
<1> USE DEF mem, hist, DiskTypeOK, MemTypeOK, HistTypeOK, JobFails
<1>1. DiskTypeOK' /\ MemTypeOK' /\ HistTypeOK'
  OBVIOUS
<1>2. ControlTypeOK'
  BY NoJobType DEF ControlTypeOK, PCs
<1>3. StepsOK' /\ RecoveryOK'
  BY NotRecovering DEF StepsOK, Opened, HasFresh, Kinds, DropKinds, NoJob
<1> QED BY <1>1, <1>2, <1>3

\* An operation that succeeds installs a nonempty index.
LEMMA InstalledControl ==
  ASSUME ControlOK, pc = "remove", NEW newActive \in Inodes, NEW newFirst \in Nat,
         Installed(newActive, newFirst), cutDone' \in Nat
  PROVE  ControlOK'
<1> USE DEF hist, DiskTypeOK, MemTypeOK, HistTypeOK, Installed
<1>1. job.kind \in DropKinds /\ job.idx # << >> /\ job.idx \in Seq(Nat)
  BY DEF StepsOK, Kinds, DropKinds, ControlTypeOK
<1>2. DiskTypeOK' /\ MemTypeOK' /\ HistTypeOK'
  BY <1>1, CollectedType
<1>3. ControlTypeOK'
  BY NoJobType DEF ControlTypeOK, PCs
<1>4. StepsOK' /\ RecoveryOK'
  BY <1>1, NotRecovering DEF StepsOK, Opened, HasFresh, Kinds, DropKinds, NoJob
<1> QED BY <1>2, <1>3, <1>4

\* The steps of doTruncate and doCut other than the deletions.
LEMMA DropControl ==
  ASSUME ControlOK, Drop
  PROVE  ControlOK'
<1> USE DEF disk, mem, hist, DiskTypeOK, MemTypeOK, HistTypeOK
<1>a. ASSUME NEW upTo \in Bounds PROVE upTo \in Nat /\ Reach(upTo) \in Nat
  BY <1>a DEF Bounds, Reach, MinOf
<1>1. ASSUME NEW upTo \in Bounds, Truncate(upTo) PROVE ControlOK'
  <2> DEFINE d == Deletable(index, upTo)
             j == [NoJob EXCEPT !.kind = "truncate",
                                !.names = DeletedByTruncate(d),
                                !.idx = SubSeq(index, d + 1, Len(index))]
  <2>1. pc = "idle" /\ d > 0 /\ StartDrop(upTo, j, "remove") /\ Opened
    BY <1>1, WriterOpened DEF Truncate
  <2>2. d \in Nat /\ d < Len(index)
    BY <2>1, DeletableType DEF StepsOK
  <2> HIDE DEF d
  <2>3. /\ SubSeq(index, 1, d) \in Seq(Nat)
        /\ SubSeq(index, d + 1, Len(index)) \in Seq(Nat)
        /\ SubSeq(index, d + 1, Len(index)) # << >>
    BY <2>2, SplitAt
  <2>4. /\ j \in [kind : JobKinds, base : Nat, names : Seq(Nat), unlinked : BOOLEAN,
                  idx : Seq(Nat), paths : SUBSET Nat, expected : Nat]
        /\ j.kind = "truncate" /\ j.idx # << >>
    BY <2>3, NoJobType DEF JobKinds, DeletedByTruncate, NoJob
  <2> HIDE DEF j
  <2> QED BY <1>a, <2>1, <2>4, StartDropControl DEF DropKinds
<1>2. ASSUME NEW upTo \in Bounds, CutNoop(upTo) PROVE ControlOK'
  <2>1. TypeOK'
    BY <1>2, <1>a DEF CutNoop, ControlTypeOK, MaxOf
  <2>2. StepsOK' /\ RecoveryOK'
    BY <1>2, NotRecovering DEF CutNoop, StepsOK, Opened, HasFresh, Kinds, DropKinds
  <2> QED BY <2>1, <2>2
<1>3. ASSUME NEW upTo \in Bounds, CutEverything(upTo) PROVE ControlOK'
  <2> DEFINE j == [NoJob EXCEPT !.kind = "cutAll", !.base = nextLSN,
                     !.names = DeletedByCutEverything, !.idx = <<nextLSN>>]
  <2>1. pc = "idle" /\ StartDrop(upTo, j, "clearLeftover")
    BY <1>3 DEF CutEverything
  <2>2. <<nextLSN>> \in Seq(Nat) /\ <<nextLSN>> # << >>
    OBVIOUS
  <2>3. /\ j \in [kind : JobKinds, base : Nat, names : Seq(Nat), unlinked : BOOLEAN,
                  idx : Seq(Nat), paths : SUBSET Nat, expected : Nat]
        /\ j.kind = "cutAll" /\ j.idx # << >>
    BY <2>2, NoJobType DEF JobKinds, DeletedByCutEverything, NoJob
  <2> HIDE DEF j
  <2> QED BY <1>a, <2>1, <2>3, StartDropControl DEF DropKinds
<1>4. ASSUME NEW upTo \in Bounds, CutInside(upTo) PROVE ControlOK'
  <2> DEFINE cut == Reach(upTo)
             b == Boundary(index, cut)
             above == SubSeq(index, b + 1, Len(index))
             j == [NoJob EXCEPT !.kind = "cutBelow", !.base = cut,
                                !.names = SubSeq(index, 1, b - 1),
                                !.idx = <<cut>> \o above]
             k == [NoJob EXCEPT !.kind = "cutRewrite", !.base = cut,
                                !.names = SubSeq(index, 1, b),
                                !.idx = <<cut>> \o above]
  <2>1. /\ pc = "idle" /\ Opened
        /\ StartDrop(upTo, j, "remove") \/ StartDrop(upTo, k, "rewrite")
    BY <1>4, WriterOpened DEF CutInside
  <2>2. cut \in Nat /\ b \in 1..Len(index)
    <3>1. index # << >> /\ Len(index) \in Nat /\ DOMAIN index = 1..Len(index)
      BY <2>1 DEF StepsOK
    <3> DEFINE S == {i \in DOMAIN index : index[i] <= cut}
    <3>2. S \in SUBSET (1..Len(index))
      BY <3>1
    <3>3. b = MaxOf(1, Cardinality(S))
      BY DEF Boundary
    <3> HIDE DEF S, b
    <3>4. /\ Cardinality(S) \in Nat
          /\ Cardinality(S) <= (IF 1 > Len(index) THEN 0 ELSE Len(index) - 1 + 1)
      BY <3>1, <3>2, CountInInterval, Zenon
    <3> QED BY <1>a, <3>1, <3>3, <3>4 DEF MaxOf
  <2> HIDE DEF cut, b
  <2>3. /\ SubSeq(index, 1, b - 1) \in Seq(Nat) /\ SubSeq(index, 1, b) \in Seq(Nat)
        /\ above \in Seq(Nat)
    BY <2>2, SubSeqType
  <2> HIDE DEF above
  <2>4. <<cut>> \o above \in Seq(Nat) /\ <<cut>> \o above # << >>
    BY <2>2, <2>3
  <2>5. /\ {j, k} \subseteq
             [kind : JobKinds, base : Nat, names : Seq(Nat), unlinked : BOOLEAN,
              idx : Seq(Nat), paths : SUBSET Nat, expected : Nat]
        /\ j.kind = "cutBelow" /\ j.idx # << >>
        /\ k.kind = "cutRewrite" /\ k.idx # << >>
    BY <2>2, <2>3, <2>4, NoJobType, ZenonT(30) DEF JobKinds, NoJob
  <2> HIDE DEF j, k
  <2> QED BY <1>a, <2>1, <2>5, StartDropControl DEF DropKinds
<1>5. ASSUME ClearLeftover PROVE ControlOK'
  <2> USE <1>5 DEF ClearLeftover
  <2>1. DOMAIN dir' \subseteq Nat /\ Range(dir') \subseteq Inodes
    BY UnlinkType
  <2>2. DiskTypeOK' /\ MemTypeOK' /\ HistTypeOK'
    BY <2>1, CollectedType
  <2>3. ControlTypeOK'
    BY DEF ControlTypeOK, PCs
  <2>4. StepsOK' /\ RecoveryOK'
    BY NotRecovering DEF StepsOK, Opened, HasFresh, Kinds, DropKinds
  <2> QED BY <2>2, <2>3, <2>4
<1>6. ASSUME RewriteTemp PROVE ControlOK'
  <2> USE <1>6 DEF RewriteTemp
  <2>1. Source \in File /\ job.base \in Nat
    BY ActiveType, WriterOpened, NamedType DEF Source, SourceReadable, ControlTypeOK
  <2>2. PICK i \in FreeInodes : /\ files' = [files EXCEPT ![i] = Rewritten(Source, job.base)]
                                /\ fresh' = i
    OBVIOUS
  <2>3. i \in Inodes /\ Rewritten(Source, job.base) \in File
    BY <2>1, RewrittenType DEF FreeInodes
  <2>4. DiskTypeOK' /\ MemTypeOK' /\ HistTypeOK'
    BY <2>1, <2>2, <2>3
  <2>5. ControlTypeOK'
    BY <2>2, <2>3 DEF ControlTypeOK, PCs
  <2>6. StepsOK' /\ RecoveryOK'
    BY <2>2, <2>3, NotRecovering DEF StepsOK, Opened, HasFresh, Kinds, DropKinds
  <2> QED BY <2>4, <2>5, <2>6
<1>7. ASSUME ClearLeftoverFails \/ RewriteTempFails \/ PublishFails PROVE ControlOK'
  <2> USE <1>7 DEF ClearLeftoverFails, RewriteTempFails, PublishFails
  <2>1. JobFails /\ Opened
    BY WriterOpened
  <2>2. files' \in [Inodes -> File]
    BY CollectedFiles
  <2>3. temps' \subseteq Nat /\ UNCHANGED <<dir, durableDir, mem, batch, gen, hist>>
    OBVIOUS
  <2>4. faults' \in Seq([call : FaultKinds, at : PCs, kind : JobKinds])
    BY FaultType
  <2> QED BY <2>1, <2>2, <2>3, <2>4, JobFailsControl
<1>8. ASSUME PublishRewrite \/ PublishSync PROVE ControlOK'
  <2> USE <1>8 DEF PublishRewrite, PublishSync
  <2>1. fresh \in Inodes /\ job.base \in Nat
    BY FreshType DEF HasFresh, ControlTypeOK
  <2>2. DOMAIN dir \subseteq Nat /\ Range(dir) \subseteq Inodes
    OBVIOUS
  <2>3. /\ DOMAIN Link(dir, job.base, fresh) = DOMAIN dir \cup {job.base}
        /\ Range(Link(dir, job.base, fresh)) \subseteq Inodes
    BY <2>1, <2>2, LinkType
  <2>4. DOMAIN dir' \subseteq Nat /\ Range(dir') \subseteq Inodes
    BY <2>1, <2>2, <2>3
  <2>5. DiskTypeOK' /\ MemTypeOK' /\ HistTypeOK'
    BY <2>2, <2>4, CollectedFiles
  <2>6. ControlTypeOK'
    BY DEF ControlTypeOK, PCs
  <2>7. StepsOK' /\ RecoveryOK'
    BY NotRecovering DEF StepsOK, Opened, HasFresh, Kinds, DropKinds
  <2> QED BY <2>5, <2>6, <2>7
<1>9. ASSUME FinishTruncate \/ FinishCutBelow \/ FinishCutRewrite \/ FinishCutEverything
      PROVE  ControlOK'
  <2> USE <1>9 DEF FinishTruncate, FinishCutBelow, FinishCutRewrite,
                   FinishCutEverything, Removed
  <2>1. pc = "remove" /\ active \in Inodes /\ job.base \in Nat
    BY ActiveType, WriterOpened DEF ControlTypeOK
  <2>2. job.idx[1] \in Nat
    <3>1. job.idx \in Seq(Nat) /\ job.idx # << >>
      BY DEF StepsOK, Kinds, DropKinds, ControlTypeOK
    <3> QED BY <3>1
  <2>3. job.kind \in {"cutRewrite", "cutAll"} => fresh \in Inodes
    BY FreshType DEF HasFresh
  <2>4. cutDone' \in Nat
    BY <2>1 DEF MaxOf
  <2> QED BY <2>1, <2>2, <2>3, <2>4, InstalledControl
<1> QED
  BY <1>1, <1>2, <1>3, <1>4, <1>5, <1>6, <1>7, <1>8, <1>9 DEF Drop

-----------------------------------------------------------------------------
(* Deletions.                                                              *)

\* The deletions of a cut, a truncation or a recovery.
LEMMA DeleteControl ==
  ASSUME ControlOK, Delete
  PROVE  ControlOK'
<1> USE DEF mem, hist, DiskTypeOK, MemTypeOK, HistTypeOK, Deleting
<1>1. ASSUME RemoveFile PROVE ControlOK'
  <2> USE <1>1 DEF RemoveFile
  <2>1. job.names # << >> /\ Head(job.names) \in Range(job.names)
        /\ job.names[1] = Head(job.names) /\ 1 \in DOMAIN job.names
    BY SMTT(30) DEF ControlTypeOK, Range
  <2>2. /\ DOMAIN dir' = DOMAIN dir \ {Head(job.names)}
        /\ DOMAIN dir' \subseteq Nat /\ Range(dir') \subseteq Inodes
    BY UnlinkType
  <2>3. DiskTypeOK' /\ MemTypeOK' /\ HistTypeOK'
    BY <2>2, CollectedType
  <2>4. ControlTypeOK'
    BY DEF ControlTypeOK
  <2>5. StepsOK'
    BY DEF StepsOK, Opened, HasFresh, DropKinds, ControlTypeOK
  <2>6. ReconcileOK'
    <3>1. job.paths \subseteq Nat /\ \A k \in DOMAIN job.names : job.names[k] \in Nat
      BY JobType
    <3>2. pc = "reconcile" => Head(job.names) \notin job.paths
      BY <2>1, <3>1 DEF RecoveryOK, ReconcileOK
    <3> QED BY <2>2, <3>2 DEF RecoveryOK, ReconcileOK, ControlTypeOK
  <2>7. PruneOK'
    BY <2>1, <2>2 DEF RecoveryOK, PruneOK, ControlTypeOK
  <2>8. ScanOK'
    BY DEF ScanOK
  <2> QED BY <2>3, <2>4, <2>5, <2>6, <2>7, <2>8 DEF RecoveryOK
<1>2. ASSUME SyncRemoval PROVE ControlOK'
  <2> USE <1>2 DEF SyncRemoval
  <2>1. /\ Tail(job.names) \in Seq(Nat)
        /\ \A k \in DOMAIN Tail(job.names) :
             k + 1 \in DOMAIN job.names /\ Tail(job.names)[k] = job.names[k + 1]
    BY SMTT(30) DEF ControlTypeOK
  <2>2. DiskTypeOK' /\ MemTypeOK' /\ HistTypeOK'
    BY CollectedType
  <2>3. ControlTypeOK'
    BY <2>1 DEF ControlTypeOK
  <2>4. StepsOK'
    BY DEF StepsOK, Opened, HasFresh, DropKinds, ControlTypeOK
  <2>5. ReconcileOK'
    BY <2>1 DEF RecoveryOK, ReconcileOK, ControlTypeOK
  <2>6. PruneOK'
    <3>1. Range(Tail(job.names)) \subseteq Range(job.names)
      BY <2>1 DEF Range
    <3> QED BY <3>1 DEF RecoveryOK, PruneOK, ControlTypeOK
  <2>7. ScanOK'
    BY DEF ScanOK
  <2> QED BY <2>2, <2>3, <2>4, <2>5, <2>6, <2>7 DEF RecoveryOK
<1>3. ASSUME RemovalFails PROVE ControlOK'
  <2> USE <1>3 DEF RemovalFails
  <2>1. faults' \in Seq([call : FaultKinds, at : PCs, kind : JobKinds])
    BY FaultType
  <2>2. DiskTypeOK' /\ MemTypeOK' /\ HistTypeOK'
    BY <2>1, CollectedType
  <2>3. ControlTypeOK'
    BY NoJobType DEF ControlTypeOK, PCs
  <2>4. StepsOK' /\ RecoveryOK'
    BY NotRecovering DEF StepsOK, Opened, HasFresh, Kinds, DropKinds, NoJob
  <2> QED BY <2>2, <2>3, <2>4
<1> QED BY <1>1, <1>2, <1>3 DEF Delete

-----------------------------------------------------------------------------
(* Recovery.                                                               *)

\* The segment to scan next exists, and lies below all those after it.
LEMMA PathType ==
  ASSUME ControlOK, Scanning
  PROVE  /\ Path \in job.paths /\ \A p \in job.paths : Path <= p
         /\ Path \in DOMAIN dir /\ Path \in Nat /\ OnDisk(Path) \in File
<1>1. Path \in job.paths /\ \A p \in job.paths : Path <= p
  BY JobType, MinOfNaturals DEF Scanning, Path
<1>2. Path \in DOMAIN dir
  BY <1>1 DEF Scanning, RecoveryOK, ScanOK
<1> HIDE DEF Path
<1> QED BY <1>1, <1>2, NamedType DEF OnDisk

\* What recovery has collected exists.
LEMMA CollectedSegments ==
  ASSUME ControlOK, pc \in {"scan", "prune"}, NEW k \in DOMAIN job.idx
  PROVE  job.idx[k] \in DOMAIN dir /\ OnDisk(job.idx[k]) \in File
<1>1. job.idx[k] \in DOMAIN dir
  BY DEF RecoveryOK, ScanOK, PruneOK, Range
<1> QED BY <1>1, NamedType DEF OnDisk

\* The last segment collected is where a torn tail is cut off.
LEMMA LastCollectedType ==
  ASSUME ControlOK, (pc = "scan" /\ job.paths = {}) \/ pc = "prune"
  PROVE  /\ job.idx # << >> /\ job.idx \in Seq(Nat)
         /\ Len(job.idx) \in DOMAIN job.idx
         /\ LastCollected \in DOMAIN dir /\ LastCollected \in Nat
<1>1. job.idx # << >> /\ job.idx \in Seq(Nat)
  BY JobType DEF RecoveryOK, ScanOK, PruneOK
<1>2. Len(job.idx) \in DOMAIN job.idx /\ job.idx[Len(job.idx)] \in Nat
  BY <1>1, LastElement
<1> QED BY <1>1, <1>2, CollectedSegments DEF LastCollected

\* The active segment of a recovered log is one of those collected.
LEMMA ActiveIdxType ==
  ASSUME ControlOK, job.idx # << >>
  PROVE  /\ Len(job.idx) \in Nat /\ DOMAIN job.idx = 1..Len(job.idx)
         /\ WithRecords \in SUBSET (1..Len(job.idx))
         /\ ActiveIdx \in 1..Len(job.idx)
         /\ WithRecords # {} => ActiveIdx \in WithRecords
<1>1. Len(job.idx) \in Nat /\ DOMAIN job.idx = 1..Len(job.idx) /\ Len(job.idx) > 0
  BY JobType
<1>2. WithRecords \in SUBSET (1..Len(job.idx))
  BY <1>1 DEF WithRecords
<1>3. WithRecords # {} => Max(WithRecords) \in WithRecords
  BY <1>1, <1>2, MaxOfInterval
<1>4. CASE WithRecords = {}
  <2>1. ActiveIdx = Len(job.idx)
    BY <1>4 DEF ActiveIdx
  <2> QED BY <1>1, <1>2, <1>4, <2>1
<1>5. CASE WithRecords # {}
  <2>1. ActiveIdx = Max(WithRecords)
    BY <1>5 DEF ActiveIdx
  <2> QED BY <1>1, <1>2, <1>3, <1>5, <2>1
<1> QED BY <1>4, <1>5

\* Recovery splits what it has collected into a prefix, which it keeps, and
\* the rest, which it deletes.
LEMMA SurvivorsType ==
  ASSUME ControlOK, pc = "scan", job.paths = {}
  PROVE  /\ Survivors \in Seq(Nat) /\ Survivors # << >>
         /\ Len(Survivors) = (IF WithRecords = {} THEN 1 ELSE ActiveIdx)
         /\ Len(Survivors) \in 1..Len(job.idx)
         /\ \A i \in 1..Len(Survivors) : Survivors[i] = job.idx[i]
<1>1. job.idx # << >> /\ job.idx \in Seq(Nat)
  BY JobType DEF RecoveryOK, ScanOK
<1>2. ActiveIdx \in 1..Len(job.idx) /\ Len(job.idx) \in Nat
  BY <1>1, ActiveIdxType
<1>3. CASE WithRecords = {}
  <2>1. Survivors = <<job.idx[1]>> /\ job.idx[1] \in Nat /\ 1 \in 1..Len(job.idx)
    BY <1>1, <1>3 DEF Survivors
  <2> QED BY <1>3, <2>1
<1>4. CASE WithRecords # {}
  <2>1. Survivors = SubSeq(job.idx, 1, ActiveIdx)
    BY <1>4 DEF Survivors
  <2>2. /\ SubSeq(job.idx, 1, ActiveIdx) \in Seq(Nat)
        /\ Len(SubSeq(job.idx, 1, ActiveIdx)) = ActiveIdx
        /\ \A i \in 1..ActiveIdx : SubSeq(job.idx, 1, ActiveIdx)[i] = job.idx[i]
    BY <1>1, <1>2, SplitAt
  <2> HIDE DEF Survivors
  <2>3. Survivors # << >>
    BY <1>2, <2>1, <2>2
  <2> QED BY <1>2, <1>4, <2>1, <2>2, <2>3
<1> QED BY <1>3, <1>4

\* pruneEmptyTrailing deletes segments behind the survivors only.
LEMMA PrunableType ==
  ASSUME ControlOK, pc = "scan", job.paths = {}
  PROVE  /\ Prunable \in Seq(Nat)
         /\ \A x \in Range(Prunable) :
              \E j \in 1..Len(job.idx) : j > Len(Survivors) /\ x = job.idx[j]
<1> DEFINE n == Len(job.idx)
           a == ActiveIdx
           above == SubSeq(job.idx, a + 1, n)
           rest == IF WithRecords = {} THEN SubSeq(job.idx, 2, n) ELSE << >>
<1>1. job.idx # << >> /\ job.idx \in Seq(Nat) /\ n \in Nat
  BY JobType DEF RecoveryOK, ScanOK
<1>2. a \in 1..n /\ Len(Survivors) = (IF WithRecords = {} THEN 1 ELSE a)
  BY <1>1, ActiveIdxType, SurvivorsType
<1>3. WithRecords = {} => a = n
  BY DEF ActiveIdx
<1> HIDE DEF a
<1>4. /\ above \in Seq(Nat) /\ Len(above) = n - a
      /\ \A i \in 1..(n - a) : above[i] = job.idx[a + i]
  BY <1>1, <1>2, SplitAt, SMTT(30)
<1>5. /\ SubSeq(job.idx, 2, n) \in Seq(Nat) /\ Len(SubSeq(job.idx, 2, n)) = n - 1
      /\ \A i \in 1..(n - 1) : SubSeq(job.idx, 2, n)[i] = job.idx[1 + i]
  <2>1. 1 \in Nat /\ 1 <= n /\ 1 + 1 = 2
    BY <1>2
  <2> QED BY <1>1, <2>1, SplitAt
<1>6. \A x \in Range(above) :
        \E j \in 1..n : j > Len(Survivors) /\ x = job.idx[j]
  <2> SUFFICES ASSUME NEW i \in DOMAIN above
               PROVE  \E j \in 1..n : j > Len(Survivors) /\ above[i] = job.idx[j]
    BY DEF Range
  <2>1. i \in 1..(n - a)
    BY <1>4
  <2>2. WithRecords # {} /\ Len(Survivors) = a
    BY <1>1, <1>2, <1>3, <2>1
  <2>3. a + i \in 1..n /\ a + i > a
    BY <1>1, <1>2, <2>1
  <2>4. above[i] = job.idx[a + i]
    BY <1>4, <2>1
  <2> QED BY <2>2, <2>3, <2>4
<1>7. /\ rest \in Seq(Nat)
      /\ \A x \in Range(rest) :
           \E j \in 1..n : j > Len(Survivors) /\ x = job.idx[j]
  <2>1. CASE WithRecords = {}
    <3>1. rest = SubSeq(job.idx, 2, n)
      BY <2>1
    <3> SUFFICES ASSUME NEW i \in DOMAIN rest
                 PROVE  \E j \in 1..n : j > Len(Survivors) /\ rest[i] = job.idx[j]
      BY <1>5, <3>1 DEF Range
    <3>2. i \in 1..(n - 1)
      BY <1>5, <3>1
    <3>3. 1 + i \in 1..n /\ 1 + i > Len(Survivors) /\ rest[i] = job.idx[1 + i]
      BY <1>1, <1>2, <1>5, <2>1, <3>1, <3>2, SMTT(30)
    <3> QED BY <3>3
  <2>2. CASE WithRecords # {}
    BY <2>2 DEF Range
  <2> QED BY <2>1, <2>2
<1>8. Prunable = Reverse(above) \o rest
  BY DEF Prunable, a
<1> HIDE DEF above, rest
<1>9. Reverse(above) \in Seq(Nat) /\ Range(Reverse(above)) \subseteq Range(above)
  BY <1>4, ReverseType
<1>10. /\ Reverse(above) \o rest \in Seq(Nat)
       /\ Range(Reverse(above) \o rest) = Range(Reverse(above)) \cup Range(rest)
  BY <1>7, <1>9, RangeConcatenation, ConcatProperties
<1> QED BY <1>6, <1>7, <1>8, <1>9, <1>10

\* Open returns an error: there is no log, as before.
LEMMA OpenFailsControl ==
  ASSUME ControlOK, OpenFails, pc \in {"scan", "prune"},
         UNCHANGED <<dir, durableDir, temps, mem, batch, fresh, gen>>,
         files' \in [Inodes -> File], HistTypeOK'
  PROVE  ControlOK'
<1> USE DEF mem, DiskTypeOK, MemTypeOK, OpenFails
<1>1. DiskTypeOK' /\ MemTypeOK'
  OBVIOUS
<1>2. ControlTypeOK'
  BY NoJobType DEF ControlTypeOK, PCs
<1>3. StepsOK' /\ RecoveryOK'
  BY NotRecovering DEF StepsOK, Opened, HasFresh, Kinds, DropKinds, NoJob
<1> QED BY <1>1, <1>2, <1>3

\* The steps of Open.
LEMMA RecoverControl ==
  ASSUME ControlOK, Recover
  PROVE  ControlOK'
<1> USE DEF disk, mem, hist, DiskTypeOK, MemTypeOK, HistTypeOK
<1>1. ASSUME OpenDir PROVE ControlOK'
  <2> USE <1>1 DEF OpenDir, Closed
  <2>1. DiskTypeOK' /\ MemTypeOK' /\ HistTypeOK'
    <3>1. files' \in [Inodes -> File]
      BY CollectedType
    <3>2. DOMAIN durableDir' \subseteq Nat /\ Range(durableDir') \subseteq Inodes
      OBVIOUS
    <3> QED BY <3>1, <3>2
  <2>2. CASE DOMAIN dir = {}
    <3>1. /\ job' = [NoJob EXCEPT !.kind = "init", !.base = 1] /\ pc' = "createOpen"
          /\ UNCHANGED <<batch, fresh>>
      BY <2>2
    <3>2. ControlTypeOK'
      BY <3>1, NoJobType DEF ControlTypeOK, PCs, JobKinds
    <3>3. StepsOK' /\ RecoveryOK'
      BY <2>2, NotRecovering DEF StepsOK, Opened, HasFresh, Kinds, DropKinds, NoJob
    <3> QED BY <2>1, <3>2, <3>3
  <2>3. CASE DOMAIN dir # {}
    <3>1. ControlTypeOK'
      BY <2>3, NoJobType, ZenonT(30) DEF ControlTypeOK, PCs, JobKinds, Listed
    <3>2. StepsOK'
      BY <2>3 DEF StepsOK, Opened, HasFresh, Kinds, DropKinds, NoJob
    <3>3. /\ pc' = "scan" /\ job'.idx = << >> /\ job'.paths = DOMAIN dir
          /\ UNCHANGED dir
      BY <2>3 DEF NoJob, Listed
    <3>4. Ascending(<< >>) /\ Range(<< >>) = {} /\ DOMAIN << >> = {}
      BY DEF Ascending, Range
    <3>5. RecoveryOK'
      BY <2>3, <3>3, <3>4 DEF RecoveryOK, ScanOK, ReconcileOK, PruneOK
    <3> QED BY <2>1, <3>1, <3>2, <3>5
  <2> QED BY <2>2, <2>3
<1>2. ASSUME InstallEmpty PROVE ControlOK'
  <2> USE <1>2 DEF InstallEmpty
  <2>1. fresh \in Inodes
    BY FreshType DEF HasFresh
  <2>2. <<1>> \in Seq(Nat) /\ <<1>> # << >>
    OBVIOUS
  <2>3. DiskTypeOK' /\ MemTypeOK' /\ HistTypeOK'
    BY <2>1, <2>2
  <2>4. ControlTypeOK'
    BY NoJobType DEF ControlTypeOK, PCs
  <2>5. StepsOK' /\ RecoveryOK'
    BY <2>1, <2>2, NotRecovering DEF StepsOK, Opened, HasFresh, Kinds, DropKinds, NoJob
  <2> QED BY <2>3, <2>4, <2>5
<1>3. ASSUME ScanSegment PROVE ControlOK'
  <2> DEFINE idx == Append(job.idx, Path)
             expected == Path + ScanRecords(OnDisk(Path))
  <2>1. /\ pc = "scan" /\ Scanning
        /\ job' = [job EXCEPT !.paths = job.paths \ {Path}, !.idx = idx,
                              !.expected = expected]
        /\ UNCHANGED <<files, dir, durableDir, temps, active, index, nextLSN, firstLSN,
                       lastLSN, pc, batch, fresh, gen, faults, hist>>
    BY <1>3 DEF ScanSegment, Scanning
  <2>2. /\ Path \in job.paths /\ \A p \in job.paths : Path <= p
        /\ Path \in DOMAIN dir /\ Path \in Nat /\ OnDisk(Path) \in File
    BY <2>1, PathType
  <2>3. expected \in Nat
    BY <2>2 DEF ScanRecords, File
  <2>4. /\ Range(job.idx) \cup job.paths \subseteq DOMAIN dir
        /\ Ascending(job.idx) /\ job.idx \in Seq(Nat) /\ job.paths \subseteq Nat
        /\ \A k \in DOMAIN job.idx, p \in job.paths : job.idx[k] < p
    BY <2>1, JobType DEF RecoveryOK, ScanOK
  <2> HIDE DEF Path, expected
  <2>5. /\ idx \in Seq(Nat) /\ idx # << >> /\ Ascending(idx)
        /\ Range(idx) = Range(job.idx) \cup {Path}
        /\ \A k \in DOMAIN idx : idx[k] <= Path /\ idx[k] \in Nat
    <3>1. \A k \in DOMAIN job.idx : job.idx[k] < Path
      BY <2>2, <2>4
    <3>2. /\ idx \in Seq(Nat) /\ idx # << >> /\ Ascending(idx)
          /\ Range(idx) = Range(job.idx) \cup {Path}
          /\ \A k \in DOMAIN idx : idx[k] <= Path
      BY <2>2, <2>4, <3>1, AppendAscending
    <3> HIDE DEF idx
    <3> QED BY <3>2
  <2> HIDE DEF idx
  <2>6. TypeOK'
    <3>1. DiskTypeOK' /\ MemTypeOK' /\ HistTypeOK'
      BY <2>1
    <3>2. ControlTypeOK'
      BY <2>1, <2>3, <2>5 DEF ControlTypeOK
    <3> QED BY <3>1, <3>2
  <2>7. job'.idx = idx /\ job'.paths = job.paths \ {Path} /\ job'.kind = job.kind
    BY <2>1 DEF ControlTypeOK
  <2>8. StepsOK'
    BY <2>1, <2>5, <2>7 DEF StepsOK, Opened, HasFresh, Kinds, DropKinds
  <2>9. \A k \in DOMAIN idx, p \in job.paths \ {Path} : idx[k] < p
    BY <2>2, <2>4, <2>5
  <2>10. RecoveryOK'
    BY <2>1, <2>2, <2>4, <2>5, <2>7, <2>9 DEF RecoveryOK, ScanOK, ReconcileOK, PruneOK
  <2> QED BY <2>6, <2>8, <2>10
<1>4. ASSUME OpenCorrupt PROVE ControlOK'
  <2> USE <1>4 DEF OpenCorrupt, Scanning
  <2>1. HistTypeOK' OBVIOUS
  <2> QED BY <2>1, OpenFailsControl
<1>5. ASSUME Reconcile PROVE ControlOK'
  <2> USE <1>5 DEF Reconcile, Scanning
  <2>1. << >> \in Seq(Nat) OBVIOUS
  <2>2. DiskTypeOK' /\ MemTypeOK' /\ HistTypeOK'
    OBVIOUS
  <2>3. ControlTypeOK'
    BY <2>1 DEF ControlTypeOK, PCs
  <2>4. StepsOK'
    BY DEF StepsOK, Opened, HasFresh, Kinds, DropKinds, ControlTypeOK
  <2>5. RecoveryOK'
    BY DEF RecoveryOK, ScanOK, ReconcileOK, PruneOK, ControlTypeOK
  <2> QED BY <2>2, <2>3, <2>4, <2>5
<1>6. ASSUME Reconciled PROVE ControlOK'
  <2> USE <1>6 DEF Reconciled
  <2>1. DiskTypeOK' /\ MemTypeOK' /\ HistTypeOK'
    OBVIOUS
  <2>2. ControlTypeOK'
    BY DEF ControlTypeOK, PCs
  <2>3. StepsOK'
    BY DEF StepsOK, Opened, HasFresh, Kinds, DropKinds
  <2>4. RecoveryOK'
    BY DEF RecoveryOK, ScanOK, ReconcileOK, PruneOK, Ascending, Range
  <2> QED BY <2>1, <2>2, <2>3, <2>4
<1>7. ASSUME TruncateTornTail PROVE ControlOK'
  <2> USE <1>7 DEF TruncateTornTail
  <2>1. LastCollected \in DOMAIN dir
    BY LastCollectedType
  <2>2. files' \in [Inodes -> File]
    BY <2>1, NamedType, TruncatedType DEF OnDisk
  <2>3. DiskTypeOK' /\ MemTypeOK' /\ HistTypeOK'
    BY <2>2
  <2>4. ControlTypeOK'
    BY SurvivorsType, PrunableType DEF ControlTypeOK, PCs
  <2>5. StepsOK'
    BY DEF StepsOK, Opened, HasFresh, Kinds, DropKinds, ControlTypeOK
  <2>6. job'.idx = Survivors /\ job'.names = Prunable
    BY DEF ControlTypeOK
  <2>7. /\ Ascending(Survivors) /\ Range(Survivors) \subseteq DOMAIN dir
        /\ Survivors # << >>
        /\ Range(Prunable) \cap Range(Survivors) = {}
    <3>1. Ascending(job.idx) /\ Range(job.idx) \subseteq DOMAIN dir
      BY DEF RecoveryOK, ScanOK
    <3>2. /\ Ascending(Survivors) /\ Range(Survivors) \subseteq Range(job.idx)
          /\ \A j \in 1..Len(job.idx) : j > Len(Survivors) => job.idx[j] \notin Range(Survivors)
      BY <3>1, JobType, SurvivorsType, PrefixAscending
    <3>3. Range(Prunable) \cap Range(Survivors) = {}
      <4> SUFFICES ASSUME NEW x \in Range(Prunable) PROVE x \notin Range(Survivors)
        OBVIOUS
      <4>1. PICK j \in 1..Len(job.idx) : j > Len(Survivors) /\ x = job.idx[j]
        BY PrunableType
      <4> QED BY <3>2, <4>1
    <3> QED BY <3>1, <3>2, <3>3, SurvivorsType
  <2>8. RecoveryOK'
    BY <2>6, <2>7 DEF RecoveryOK, ScanOK, ReconcileOK, PruneOK
  <2> QED BY <2>3, <2>4, <2>5, <2>8
<1>8. ASSUME TruncateTornTailFails PROVE ControlOK'
  <2> USE <1>8 DEF TruncateTornTailFails
  <2>1. LastCollected \in DOMAIN dir
    BY LastCollectedType
  <2>2. files' \in [Inodes -> File]
    <3>1. /\ dir[LastCollected] \in Inodes
          /\ [files[dir[LastCollected]] EXCEPT !.junk = 0] \in File
      BY <2>1, NamedType, TruncatedType
    <3> QED BY <3>1
  <2>3. HistTypeOK'
    BY FaultType
  <2> QED BY <2>2, <2>3, OpenFailsControl
<1>9. ASSUME InstallState PROVE ControlOK'
  <2> USE <1>9 DEF InstallState
  <2>1. /\ job.idx # << >> /\ job.idx \in Seq(Nat)
        /\ LastCollected \in DOMAIN dir /\ LastCollected \in Nat
    BY LastCollectedType
  <2>2. dir[LastCollected] \in Inodes
    BY <2>1, NamedType
  <2>3. FirstRecovered \in Nat
    <3>1. /\ WithRecords \in SUBSET (1..Len(job.idx)) /\ WithRecords \in SUBSET Nat
          /\ DOMAIN job.idx = 1..Len(job.idx)
      BY <2>1, ActiveIdxType
    <3>2. WithRecords # {} => Min(WithRecords) \in DOMAIN job.idx
      BY <3>1, MinOfNaturals
    <3> QED BY <3>2, JobType DEF FirstRecovered
  <2>4. LastRecovered \in Nat
    <3>1. ASSUME WithRecords # {} PROVE Max(WithRecords) \in DOMAIN job.idx
      BY <2>1, <3>1, ActiveIdxType, MaxOfInterval
    <3>2. ASSUME NEW f \in File PROVE ScanLastLSN(f) \in Nat
      <4>1. f.data \in Seq(Rec) BY DEF File
      <4>2. f.data # << >> => f.data[Len(f.data)] \in Rec BY <4>1
      <4> QED BY <4>2 DEF ScanLastLSN, Rec
    <3> QED BY <3>1, <3>2, CollectedSegments DEF LastRecovered
  <2>5. LastInstalled \in Nat /\ NextInstalled \in Nat /\ NextInstalled > 0
    BY <2>1, <2>4 DEF LastInstalled, NextInstalled, MaxOf
  <2>6. DiskTypeOK' /\ MemTypeOK' /\ HistTypeOK'
    BY <2>1, <2>2, <2>3, <2>5
  <2>7. ControlTypeOK'
    BY NoJobType DEF ControlTypeOK, PCs
  <2>8. StepsOK' /\ RecoveryOK'
    BY <2>1, <2>2, <2>5, NotRecovering
    DEF StepsOK, Opened, HasFresh, Kinds, DropKinds, NoJob
  <2> QED BY <2>6, <2>7, <2>8
<1> QED
  BY <1>1, <1>2, <1>3, <1>4, <1>5, <1>6, <1>7, <1>8, <1>9 DEF Recover

-----------------------------------------------------------------------------
(* The ways to stop.                                                       *)

\* Without memory there is no log.
LEMMA MemoryLostControl ==
  ASSUME ControlOK, MemoryLost, DiskTypeOK', HistTypeOK'
  PROVE  ControlOK'
<1> USE DEF MemoryLost, MemTypeOK
<1>1. << >> \in Seq(Nat) /\ << >> \in Seq(Seq(Nat))
  OBVIOUS
<1>2. MemTypeOK'
  BY <1>1
<1>3. ControlTypeOK'
  BY <1>1, NoJobType DEF ControlTypeOK, PCs, NoBatch
<1>4. StepsOK' /\ RecoveryOK'
  BY NotRecovering DEF StepsOK, Opened, HasFresh, Kinds, DropKinds, NoJob
<1> QED BY <1>2, <1>3, <1>4

\* A power loss leaves a part of each directory.
LEMMA PowerLossDir ==
  ASSUME ControlOK, PowerLoss
  PROVE  /\ DOMAIN dir' \subseteq Nat /\ Range(dir') \subseteq Inodes
         /\ \A b \in DOMAIN dir' :
              \/ b \in DOMAIN dir /\ dir'[b] = dir[b]
              \/ b \in DOMAIN durableDir /\ dir'[b] = durableDir[b]
<1>1. PICK lost \in SUBSET Linked, kept \in SUBSET Unlinked :
        dir' = DirAfterPowerLoss(lost, kept)
  BY DEF PowerLoss
<1>2. \A b \in DOMAIN dir' :
        \/ b \in DOMAIN dir /\ dir'[b] = dir[b]
        \/ b \in DOMAIN durableDir /\ dir'[b] = durableDir[b]
  <2> TAKE b \in DOMAIN dir'
  <2>1. /\ b \in (DOMAIN dir \ lost) \cup kept
        /\ dir'[b] = IF b \in kept THEN durableDir[b] ELSE dir[b]
    BY <1>1, Zenon DEF DirAfterPowerLoss
  <2>2. kept \subseteq DOMAIN durableDir
    BY DEF Unlinked
  <2>3. CASE b \in kept
    BY <2>1, <2>2, <2>3, Zenon
  <2>4. CASE b \notin kept
    BY <2>1, <2>4, Zenon
  <2> QED BY <2>3, <2>4, Zenon
<1>3. \A b \in DOMAIN dir' : b \in Nat /\ dir'[b] \in Inodes
  BY <1>2, NamedType
<1> QED BY <1>2, <1>3 DEF Range

\* An orderly Close, a kill and a power loss, at any step.
LEMMA StopControl ==
  ASSUME ControlOK, Close \/ CloseUnflushed \/ Kill \/ PowerLoss
  PROVE  ControlOK'
<1> USE DEF HistTypeOK, Stop
<1>1. Interrupted \subseteq [at : PCs, kind : JobKinds]
  BY DEF Interrupted, ControlTypeOK
<1>2. ASSUME Close PROVE ControlOK'
  <2>1. files' \in [Inodes -> File]
    BY <1>2, FsyncedType, NewFileType DEF Close, DiskTypeOK
  <2>2. DiskTypeOK' /\ HistTypeOK'
    BY <1>2, <2>1 DEF Close, DiskTypeOK
  <2> QED BY <1>2, <2>2, MemoryLostControl DEF Close
<1>3. ASSUME CloseUnflushed \/ Kill PROVE ControlOK'
  <2>1. files' \in [Inodes -> File] /\ MemoryLost
    BY <1>3, CollectedFiles DEF CloseUnflushed, Kill
  <2>2. faults' \in Seq([call : FaultKinds, at : PCs, kind : JobKinds])
    BY <1>3, FaultType DEF CloseUnflushed, Kill
  <2>3. DiskTypeOK'
    BY <1>3, <2>1 DEF CloseUnflushed, Kill, DiskTypeOK
  <2>4. HistTypeOK'
    BY <1>1, <1>3, <2>2 DEF CloseUnflushed, Kill
  <2> QED BY <2>1, <2>3, <2>4, MemoryLostControl
<1>4. ASSUME PowerLoss PROVE ControlOK'
  <2>1. PICK keep \in [Unsynced -> 0..MaxLSN], torn \in [Unsynced -> BOOLEAN] :
          /\ \A i \in Unsynced : MaySurvive(files[i], keep[i], torn[i])
          /\ files' = [i \in Inodes |->
               CASE i \notin Range(dir') -> NewFile
                 [] i \in Range(dir') \cap Unsynced ->
                      AfterPowerLoss(files[i], keep[i], torn[i])
                 [] OTHER -> files[i]]
    BY <1>4 DEF PowerLoss
  <2>2. DOMAIN dir' \subseteq Nat /\ Range(dir') \subseteq Inodes
    BY <1>4, PowerLossDir
  <2>3. \A i \in Unsynced : AfterPowerLoss(files[i], keep[i], torn[i]) \in File
    <3> SUFFICES ASSUME NEW i \in Unsynced
                 PROVE  AfterPowerLoss(files[i], keep[i], torn[i]) \in File
      OBVIOUS
    <3>1. files[i] \in File /\ torn[i] \in BOOLEAN
      BY DEF Unsynced, DiskTypeOK
    <3> QED BY <2>1, <3>1, AfterPowerLossType
  <2>4. files' \in [Inodes -> File]
    BY <2>1, <2>3, NewFileType DEF DiskTypeOK
  <2>5. DiskTypeOK' /\ HistTypeOK' /\ MemoryLost
    BY <1>1, <1>4, <2>1, <2>2, <2>4 DEF PowerLoss, DiskTypeOK
  <2> QED BY <2>5, MemoryLostControl
<1> QED BY <1>2, <1>3, <1>4

-----------------------------------------------------------------------------
(* The theorem.                                                            *)

\* Sync and the tick of the interval flusher.
LEMMA SyncActiveControl ==
  ASSUME ControlOK, SyncActive
  PROVE  ControlOK'
<1> USE DEF SyncActive, mem, DiskTypeOK, MemTypeOK, HistTypeOK
<1>1. active \in Inodes /\ Flushed \in File
  BY ActiveType, WriterOpened, FsyncedType DEF Flushed
<1>2. TypeOK'
  BY <1>1 DEF ControlTypeOK
<1>3. StepsOK' /\ RecoveryOK'
  BY NotRecovering DEF StepsOK, Opened, HasFresh, Kinds, DropKinds
<1> QED BY <1>2, <1>3

\* A directory without a log.
LEMMA InitControl == Init => ControlOK
<1> SUFFICES ASSUME Init PROVE ControlOK
  OBVIOUS
<1> USE DEF Init
<1>1. << >> \in Seq(Nat) /\ << >> \in Seq(Seq(Nat)) /\ DOMAIN << >> = {}
  OBVIOUS
<1>2. DiskTypeOK
  BY <1>1, NewFileType DEF DiskTypeOK, Range
<1>3. MemTypeOK
  BY <1>1 DEF MemTypeOK
<1>4. ControlTypeOK
  BY <1>1, NoJobType DEF ControlTypeOK, PCs, NoBatch
<1>5. HistTypeOK
  <2>1. << >> \in Seq([call : FaultKinds, at : PCs, kind : JobKinds])
    OBVIOUS
  <2> QED BY <2>1 DEF HistTypeOK
<1>6. StepsOK /\ RecoveryOK
  BY DEF StepsOK, Opened, HasFresh, Kinds, DropKinds, NoJob, RecoveryOK, ScanOK,
         ReconcileOK, PruneOK
<1> QED BY <1>2, <1>3, <1>4, <1>5, <1>6

\* Every step preserves the control invariant.
LEMMA NextControl == ControlOK /\ [Next]_vars => ControlOK'
<1> SUFFICES ASSUME ControlOK, [Next]_vars PROVE ControlOK'
  OBVIOUS
<1>1. CASE UNCHANGED vars
  <2> USE <1>1 DEF vars, disk, mem, hist
  <2>1. TypeOK'
    BY DEF DiskTypeOK, MemTypeOK, ControlTypeOK, HistTypeOK
  <2>2. StepsOK'
    BY DEF StepsOK, Opened, HasFresh
  <2>3. RecoveryOK'
    BY DEF RecoveryOK, ScanOK, ReconcileOK, PruneOK
  <2> QED BY <2>1, <2>2, <2>3
<1>2. CASE Next
  BY <1>2, CommitControl, SyncActiveControl, CreateControl, DropControl,
     DeleteControl, RecoverControl, StopControl DEF Next
<1> QED BY <1>1, <1>2

(***************************************************************************)
(* The control invariant holds in every reachable state.                   *)
(***************************************************************************)
THEOREM Control == Spec => []ControlOK
BY InitControl, NextControl, PTL DEF Spec

(***************************************************************************)
(* Type correctness, with any number of segments, requests, crashes and    *)
(* failed system calls.                                                    *)
(***************************************************************************)
THEOREM TypeCorrectness == Spec => []TypeOK
<1>1. ControlOK => TypeOK
  OBVIOUS
<1> QED BY Control, <1>1, PTL
=============================================================================

---------------------------- MODULE MCWalStore ----------------------------
(***************************************************************************)
(* Instances of WalStore for TLC: the workloads and the symmetry.          *)
(***************************************************************************)
EXTENDS WalSurvival

\* Files differ in what they hold, not in their identity.
InodeSymmetry == Permutations(Inodes)

\* One record; two requests in a group commit, the second of two records.
OneRecord == <<<<1>>>>
GroupOfThree == <<<<1>>, <<1, 1>>>>
SmallBatches == {OneRecord}
GroupBatches == {OneRecord, GroupOfThree}

\* A record that fills a segment, after a smaller one in the same commit.
MixedGroup == {OneRecord, <<<<1>>, <<2>>>>}

\* Sizes that do and do not fit into what is left of a segment.
MixedBatches == {<<<<1>>>>, <<<<2>>>>}
=============================================================================

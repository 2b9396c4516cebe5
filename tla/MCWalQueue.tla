---------------------------- MODULE MCWalQueue ----------------------------
(***************************************************************************)
(* Instances of WalQueue for TLC.                                          *)
(***************************************************************************)
EXTENDS WalQueue, TLC

\* Appenders do the same; only runs without liveness may use this.
AppenderSymmetry == Permutations(Appenders)
=============================================================================

---------------------------- MODULE MCLogBuffer -----------------------------
(* LogBuffer on a small instance. *)
EXTENDS LogBuffer, TLC

KindSymmetry == Permutations(Kinds)
=============================================================================

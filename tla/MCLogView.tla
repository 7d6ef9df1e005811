----------------------------- MODULE MCLogView ------------------------------
(* LogView on a small instance: the user tries package a, for and against. *)
EXTENDS LogView, TLC

CONSTANTS a, b

MCPackages == {a, b}
MCTerms == [package : {a}, negate : BOOLEAN]

PidSymmetry == Permutations(Pids)
=============================================================================

---------------------------- MODULE MCLogCapture ----------------------------
(* LogCapture on small instances.                                          *)
EXTENDS LogCapture, TLC

StreamSymmetry == Permutations(Streams)

\* No action and no property tells one line from another.
LineSymmetry == StreamSymmetry \cup Permutations(Lines)
=============================================================================

---------------------------- MODULE MCIosBackend -----------------------------
(***************************************************************************)
(* The instance of IosBackend: two log tabs or one screenshot stream with  *)
(* two captures; three forwards over two ports; an app with an extension   *)
(* and a process listed without an executable; and a tree two directories  *)
(* deep with two reports of one name.                                      *)
(***************************************************************************)
EXTENDS IosBackend, TLC

CONSTANTS s1, s2, documents, caches, tmp, root, retired, r1, r2, f1, report, other_name

MCMixes == {[i \in Id |-> "syslog"], (s1 :> "screens") @@ (s2 :> "unused")}

MCDirectories == <<{documents}, {caches}, {tmp}>>

MCFileName == [n \in Node |-> IF n \in {r1, r2} THEN report ELSE other_name]

MCMoving == {{p} : p \in Parts}

MCParent == (retired :> root) @@ (r1 :> root) @@ (r2 :> retired) @@ (f1 :> retired)
=============================================================================

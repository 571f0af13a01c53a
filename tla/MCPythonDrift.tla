--------------------------- MODULE MCPythonDrift ---------------------------
(***************************************************************************)
(* PythonDrift for TLC: a uv workspace with a member, a project of its own *)
(* and a symbolic link to that. Either long sequences of set-ups, or one   *)
(* set-up among several evaluations.                                       *)
(***************************************************************************)
EXTENDS PythonDrift, TLC

MCFolders == {"root", "member", "plain", "link"}
MCReal == [f \in MCFolders |-> IF f = "link" THEN "plain" ELSE f]
MCRoot == [f \in MCFolders |-> IF f = "member" THEN "root" ELSE MCReal[f]]
MCBounds == {[runs |-> 3, checks |-> 0], [runs |-> 1, checks |-> 3]}

Symmetry == Permutations(Computes)
============================================================================

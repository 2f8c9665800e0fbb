-------------------------- MODULE MCRootfsPrepare --------------------------
(* Two releases of Alpine whose archives have different names, as the      *)
(* versions in the names of the manifest make them.                        *)
EXTENDS RootfsPrepare
CONSTANTS r1, r2, n1, n2
MCFileName == [r \in {r1, r2} |-> IF r = r1 THEN n1 ELSE n2]
=============================================================================

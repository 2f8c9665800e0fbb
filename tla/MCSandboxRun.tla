---------------------------- MODULE MCSandboxRun ----------------------------
(* Instances of SandboxRun for TLC.                                        *)
EXTENDS SandboxRun, TLC

CONSTANTS a, ab, d, internal

\* A file or directory a, a file a/b, a file d that callers also write.
MCPaths == {a, ab, d, internal}
MCAncestor == {<<a, ab>>}

Symmetry == Permutations(Runs)
=============================================================================

------------------------------ MODULE MCVmPool ------------------------------
(* Instances of VmPool for TLC.                                            *)
EXTENDS VmPool, TLC

\* VM ids are interchangeable: the code's order of ids only breaks ties, which
\* the model leaves open.
Symmetry == Permutations(Vms)
=============================================================================

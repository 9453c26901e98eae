------------------------------ MODULE MCHaSync ------------------------------
(* Symmetry of HaSync for TLC: processes, nodes and contents are            *)
(* interchangeable, the overrides being a fixed set.                        *)
EXTENDS HaSync, TLC

ProcSymmetry == Permutations(Procs)
=============================================================================

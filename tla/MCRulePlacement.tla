-------------------------- MODULE MCRulePlacement --------------------------
(* Small instances of RulePlacement for TLC.                               *)
EXTENDS PlacementRefinement, TLC

CONSTANTS n1, n2, a1, a2, b1, b2, keep

\* Overrides that pause the rule on a node, move it to another address, or
\* give it another destination.
NoneOv == {[addr |-> keep, body |-> keep, off |-> FALSE]}
PauseOv == NoneOv \union {[addr |-> keep, body |-> keep, off |-> TRUE]}
MoveOv == PauseOv \union {[addr |-> a2, body |-> keep, off |-> FALSE]}
AllOv == MoveOv \union {[addr |-> a2, body |-> b2, off |-> FALSE]}

NodeSymmetry == Permutations(Nodes)
=============================================================================

----------------------------- MODULE MCSession -----------------------------
(* Constants of Session for TLC. *)
EXTENDS Session, TLC

RequestSymmetry == Permutations(Requests)

\* Requests and roles are each alike.
Symmetry == {f @@ g : f \in Permutations(Requests), g \in Permutations(Roles)}
=============================================================================

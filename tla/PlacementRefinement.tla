------------------------ MODULE PlacementRefinement ------------------------
(***************************************************************************)
(* RulePlacement keeps the promise of GroupRule.  While a transaction is   *)
(* under way the listeners count as they were before; its commit is the    *)
(* step in which the operation takes effect.  Listeners touched by a fault *)
(* (suspect, or about to be changed by the undo after a failed COMMIT) are *)
(* lost.                                                                   *)
(***************************************************************************)
EXTENDS RulePlacement

CONSTANT Lost

ASSUME LostAssumption == Lost \notin Live

Promised ==
    [s \in Slots |->
       IF s \in suspect \union SlotsOf(tail) THEN Lost
       ELSE IF tx = NoTx \/ live[s] \in Foreign THEN live[s]
       ELSE Expected(row, ovs, s)]

Promise == INSTANCE GroupRule WITH live <- Promised, Disturbed <- Faults # {}

\* Every step of an operation's transaction, its fan-out, its undo and its end
\* is invisible, or one whole operation on all listeners.
KeepsPromise == Promise!Spec
=============================================================================

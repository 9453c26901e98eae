-------------------------- MODULE MCPlacementGroup --------------------------
(* Two instances of RulePlacement in one run, one of which moves: the one   *)
(* this module extends has faults, and F none but more addresses, contents  *)
(* and overrides.                                                           *)
EXTENDS MCRulePlacement

VARIABLES rowF, ovsF, liveF, txF, callF, undoF, tailF, orphansF, suspectF, racedF

varsF == <<rowF, ovsF, liveF, txF, callF, undoF, tailF, orphansF, suspectF, racedF>>

F == INSTANCE RulePlacement WITH
       Addrs <- {a1, a2}, Bodies <- {b1, b2}, Overrides <- AllOv, Faults <- {}, MaxOrphans <- 0,
       row <- rowF, ovs <- ovsF, live <- liveF, tx <- txF, call <- callF, undo <- undoF,
       tail <- tailF, orphans <- orphansF, suspect <- suspectF, raced <- racedF

AtRest ==
    /\ row = NoRow /\ tx = NoTx /\ live = [s \in Slots |-> Empty]
    /\ tail = {} /\ orphans = {} /\ suspect = {}
AtRestF == rowF = F!NoRow /\ txF = F!NoTx /\ liveF = [s \in F!Slots |-> Empty]

BothInit == Init /\ F!Init /\ (AtRest \/ AtRestF)

BothNext ==
    \/ AtRestF /\ UNCHANGED varsF /\ Next
    \/ AtRest /\ UNCHANGED vars /\ F!Next

BothSpec == BothInit /\ [][BothNext]_<<vars, varsF>>

\* Without faults nothing ever diverges: refused calls, shadowing API rules and
\* static rules alone never leave the group split or off the database
\* (applyToNodes and the undo of every operation).
FaultlessAllOrNothing == F!AllOrNothing
=============================================================================

-------------------------- MODULE MCPlacementEnds --------------------------
(* Two instances of RulePlacement and a page in one run, one of which moves: *)
(* the one this module extends has one node, moves and every fault, G two  *)
(* nodes whose calls and undo calls are awaited together.                  *)
EXTENDS MCRulePlacement, Screen

CONSTANT n3

VARIABLES rowG, ovsG, liveG, txG, callG, undoG, tailG, orphansG, suspectG, racedG

varsG == <<rowG, ovsG, liveG, txG, callG, undoG, tailG, orphansG, suspectG, racedG>>

G == INSTANCE RulePlacement WITH
       Nodes <- {n2, n3}, Addrs <- {a1}, Overrides <- PauseOv,
       Faults <- {"timeout", "undo", "commit", "crash"}, MaxOrphans <- 1,
       row <- rowG, ovs <- ovsG, live <- liveG, tx <- txG, call <- callG, undo <- undoG,
       tail <- tailG, orphans <- orphansG, suspect <- suspectG, raced <- racedG

AtRest ==
    /\ row = NoRow /\ tx = NoTx /\ live = [s \in Slots |-> Empty]
    /\ tail = {} /\ orphans = {} /\ suspect = {}
AtRestG ==
    /\ rowG = G!NoRow /\ txG = G!NoTx /\ liveG = [s \in G!Slots |-> Empty]
    /\ tailG = {} /\ orphansG = {} /\ suspectG = {}

\* Closed, with nothing that goes on by itself.
AtRestS == page = "closed"
Closed ==
    /\ page = "closed" /\ url = "here" /\ there = [k \in Urls |-> 0]
    /\ shown = {} /\ notFound = FALSE /\ loads = {} /\ acting = "no" /\ happened = 0
    /\ switches = [auto |-> FALSE, visible |-> FALSE, asking |-> FALSE]

EndsInit ==
    /\ Init /\ G!Init
    /\ \/ (AtRest \/ AtRestG) /\ Closed
       \/ AtRest /\ AtRestG /\ ScreenInit

EndsNext ==
    \/ AtRestG /\ AtRestS /\ UNCHANGED <<varsG, screenVars>> /\ Next
    \/ AtRest /\ AtRestS /\ UNCHANGED <<vars, screenVars>> /\ G!Next
    \/ ~AtRestS /\ UNCHANGED <<vars, varsG>> /\ ScreenNext
    \/ ~AtRestS /\ UNCHANGED <<vars, varsG, screenVars>>     \* a page may be left alone

EndsSpec == EndsInit /\ [][EndsNext]_<<vars, varsG, screenVars>> /\ G!Fairness /\ ScreenFairness

\* Every transaction over several nodes ends, through every fault, so that the
\* row lock is released (withTransaction, applyToNodes, the undo calls).
GroupLockReleased == G!LockReleased
=============================================================================

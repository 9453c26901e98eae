--------------------------- MODULE MCHaSyncRounds ---------------------------
(* Two instances of HaSync in one run, one of which moves: the one this     *)
(* module extends has the rounds of two processes, V the visits of one      *)
(* process to two nodes, whichever way they are started.                    *)
EXTENDS MCHaSync

CONSTANTS p1, n1, n2

VARIABLES rowV, draftV, lockV, namedV, liveV, workerV, failuresV, orphansV, eventsV, suspectV, streakV

varsV == <<rowV, draftV, lockV, namedV, liveV, workerV, failuresV, orphansV, eventsV, suspectV, streakV>>

V == INSTANCE HaSync WITH
       Procs <- {p1}, Kinds <- {"timer", "notify"}, Nodes <- {n1, n2}, Overrides <- {Keep},
       MaxEvents <- 1,
       row <- rowV, draft <- draftV, lock <- lockV, named <- namedV, live <- liveV,
       worker <- workerV, failures <- failuresV, orphans <- orphansV, events <- eventsV,
       suspect <- suspectV, streak <- streakV

AtRest == events = 0 /\ named = Nil /\ row = [r \in Rules |-> NoRow] /\ failures = streak
AtRestV ==
    /\ eventsV = 0 /\ rowV = [r \in Rules |-> NoRow]
    /\ workerV = [w \in V!Workers |-> V!Resting]

RoundsInit == Init /\ V!Init /\ (AtRest \/ AtRestV)

RoundsNext ==
    \/ AtRestV /\ UNCHANGED varsV /\ Next
    \/ AtRest /\ UNCHANGED vars /\ V!Next

RoundsSpec == RoundsInit /\ [][RoundsNext]_<<vars, varsV>> /\ Fairness

\* The inductive invariant, in the rounds and in the visits.
BothInv == IInv /\ V!IInv
=============================================================================

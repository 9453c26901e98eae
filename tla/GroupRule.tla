----------------------------- MODULE GroupRule -----------------------------
(***************************************************************************)
(* What the API of one rule promises: an operation takes effect on the     *)
(* row, on its overrides and on every listener of the group in one step,   *)
(* or not at all; rules of others stay as they are and keep their          *)
(* listeners.  Expected is what the database wants on a listener.          *)
(*                                                                         *)
(* Where faults are possible (Disturbed) a listener may become Lost: what  *)
(* runs there is not promised until it is found to be as wanted again.     *)
(***************************************************************************)
CONSTANTS Nodes, Slots, Rows, NoRow, Overrides, NoOvs,
          Empty, Foreign, Lost, Disturbed,
          Expected(_, _, _)

VARIABLES row, ovs, live

groupVars == <<row, ovs, live>>

Init ==
    /\ row = NoRow
    /\ ovs = NoOvs
    /\ live \in [Slots -> {Empty} \union Foreign]

\* What an undisturbed listener runs once the new row and overrides are in force.
After(s) ==
    LET want == Expected(row', ovs', s)
    IN  IF want = Empty /\ live[s] \in Foreign THEN live[s] ELSE want

\* A listener that is lost may stay so, or be lost in the operation.
TakesEffect ==
    \A s \in Slots :
        /\ live'[s] = After(s) \/ (Disturbed /\ live'[s] = Lost)
        /\ Expected(row', ovs', s) # Empty /\ live[s] \in Foreign => Disturbed

Add ==
    /\ row = NoRow
    /\ row' \in Rows \ {NoRow} /\ ovs' \in [Nodes -> Overrides]
    /\ TakesEffect

Edit ==
    /\ row # NoRow
    /\ row' \in Rows \ {NoRow} /\ row'.on = row.on /\ UNCHANGED ovs
    /\ TakesEffect

Delete == row # NoRow /\ row' = NoRow /\ ovs' = NoOvs /\ TakesEffect

Switch == row # NoRow /\ row' = [row EXCEPT !.on = ~row.on] /\ UNCHANGED ovs /\ TakesEffect

Override ==
    /\ row # NoRow
    /\ UNCHANGED row
    /\ \E n \in Nodes : ovs' \in {[ovs EXCEPT ![n] = o] : o \in Overrides}
    /\ TakesEffect

\* Faults and others: they take a listener away, or use one that is free.  One
\* that was lost, or used by others, is found to be free or as wanted.
Outside ==
    /\ Disturbed
    /\ UNCHANGED <<row, ovs>>
    /\ DOMAIN live' = Slots
    /\ \A s \in Slots :
         \/ live'[s] \in {live[s], Lost} \union Foreign
         \/ /\ live[s] \in {Lost} \union Foreign
            /\ live'[s] \in {Empty, Expected(row, ovs, s)}

Next == Outside \/ Add \/ Edit \/ Delete \/ Switch \/ Override

Spec == Init /\ [][Next]_groupVars
=============================================================================

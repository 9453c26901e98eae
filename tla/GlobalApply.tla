---------------------------- MODULE GlobalApply ----------------------------
(***************************************************************************)
(* Changing global settings of rproxy on a node or on all nodes of a group *)
(* (POST /api/forward/global, applyGlobal).  The nodes are asked in        *)
(* parallel.  When one refuses, or does not answer and cannot be judged by *)
(* reading it again, those that took the change are put back.  rproxy      *)
(* masks the API values of some items, and a masked value cannot be sent   *)
(* back: a group with one is asked first whether it would refuse.          *)
(*                                                                         *)
(* Other administrators change the same items meanwhile; requests and      *)
(* answers are lost, and a request that got no answer may be carried out   *)
(* later.  One change of one administrator is followed.                    *)
(***************************************************************************)
EXTENDS Naturals, FiniteSets

CONSTANTS
    Nodes, Readonly,
    Items, Hidden,      \* items of the settings; those whose API value is masked
    Values, Null, Mask,
    MaxTrouble          \* bound: what goes wrong, and changes by others

ASSUME GlobalAssumption ==
    /\ IsFiniteSet(Nodes) /\ Hidden \subseteq Items
    /\ Null # Mask /\ {Null, Mask} \intersect Values = {}

VARIABLES
    api,        \* rproxy: the API value of each item, per node
    refuses,    \* rproxy: would it refuse the change?
    late,       \* requests without an answer that a node still has to carry out
    change,     \* the request: its nodes and the values to set
    asked,      \* how far each node is, and what is known of it
    phase,      \* of the request
    trouble,    \* how often something went wrong, or another changed something
    old,        \* history: the values before the request
    meddled     \* history: did another change the node since the request began,
                \* or even since it was read to be put back?

globalVars == <<api, refuses, late, change, asked, phase, trouble, old, meddled>>
-----------------------------------------------------------------------------
Settings == [Items -> Values \union {Null}]
\* globalPatchBody: items not in it are left alone.
Patches == UNION {[S -> Values \union {Null}] : S \in SUBSET Items}
NoPatch == [i \in {} |-> Null]

Patched(s, patch) == [i \in Items |-> IF i \in DOMAIN patch THEN patch[i] ELSE s[i]]

\* What rproxy shows of its settings.
Shown(s) == [i \in Items |-> IF i \in Hidden /\ s[i] # Null THEN Mask ELSE s[i]]

Outcomes == {"none", "applied", "refused", "unknown"}
Unasked == [pc |-> "wait", before |-> [i \in Items |-> Null], changed |-> {},
            after |-> [i \in Items |-> Null], outcome |-> "none", undone |-> "none",
            back |-> NoPatch, risky |-> FALSE, sure |-> TRUE,
            useless |-> FALSE]  \* history: was the answer to its PATCH of no use?

Fault == trouble < MaxTrouble /\ trouble' = trouble + 1
Fine == UNCHANGED trouble
-----------------------------------------------------------------------------
GlobalInit ==
    /\ api \in [Nodes -> Settings]
    /\ refuses \in [Nodes -> BOOLEAN]
    /\ late = [n \in Nodes |-> NoPatch]
    /\ change = [nodes |-> {}, values |-> NoPatch]
    /\ asked = [n \in Nodes |-> Unasked]
    /\ phase = "idle"
    /\ trouble = 0
    /\ old = api
    /\ meddled = [n \in Nodes |-> "no"]

\* handler: no masked value, no readonly node.  A single node is not asked first.
Request(nodes, values) ==
    /\ phase = "idle"
    /\ nodes # {} /\ nodes \intersect Readonly = {}
    /\ DOMAIN values # {}
    /\ change' = [nodes |-> nodes, values |-> values]
    /\ phase' = IF Cardinality(nodes) > 1 THEN "look" ELSE "apply"
    /\ asked' = [n \in Nodes |-> [Unasked EXCEPT !.pc = IF n \in nodes THEN "read" ELSE "wait"]]
    /\ old' = api
    /\ meddled' = [n \in Nodes |-> "no"]
    /\ UNCHANGED <<api, refuses, late, trouble>>

Go(n, to) == asked' = [asked EXCEPT ![n] = to]
Rest == UNCHANGED <<change, phase, old, meddled>>

\* Mutant: a node that cannot be put back is not asked first.
LookNot(n) ==
    /\ phase = "look" /\ asked[n].pc = "read"
    /\ Fine
    /\ Go(n, [asked[n] EXCEPT !.pc = "done"])
    /\ Rest /\ UNCHANGED <<api, refuses, late>>

\* preflight, 1: can the node be put back?  One that cannot be read is taken not to.
Look(n) ==
    /\ phase = "look" /\ asked[n].pc = "read"
    /\ \/ /\ Fine
          /\ Go(n, [asked[n] EXCEPT !.pc = "done",
                 !.risky = \E i \in DOMAIN change.values : Shown(api[n])[i] = Mask])
       \/ /\ Fault
          /\ Go(n, [asked[n] EXCEPT !.pc = "done", !.risky = TRUE])
    /\ Rest /\ UNCHANGED <<api, refuses, late>>

Together(pc) == \A n \in change.nodes : asked[n].pc = pc
All(pc, from) == [n \in Nodes |-> IF n \in change.nodes THEN [from[n] EXCEPT !.pc = pc] ELSE from[n]]

Looked ==
    /\ phase = "look" /\ Together("done")
    /\ LET risky == \E n \in change.nodes : asked[n].risky
       IN  /\ phase' = IF risky THEN "dry" ELSE "apply"
           /\ asked' = All("read", asked)
    /\ UNCHANGED <<api, refuses, late, change, trouble, old, meddled>>

\* preflight, 2: a dry run on every node.
DryRun(n) ==
    /\ phase = "dry" /\ asked[n].pc = "read"
    /\ \/ /\ Fine
          /\ Go(n, [asked[n] EXCEPT !.pc = "done",
                                      !.outcome = IF refuses[n] THEN "refused" ELSE "none"])
       \/ Fault /\ Go(n, [asked[n] EXCEPT !.pc = "done", !.outcome = "refused"])
    /\ Rest /\ UNCHANGED <<api, refuses, late>>

\* One refusal, and nothing is sent: every node counts as refused.
DriedOut ==
    /\ phase = "dry" /\ Together("done")
    /\ IF \E n \in change.nodes : asked[n].outcome = "refused"
       THEN /\ phase' = "answered"
            /\ asked' = [n \in Nodes |-> IF n \in change.nodes
                                         THEN [asked[n] EXCEPT !.outcome = "refused"] ELSE asked[n]]
       ELSE phase' = "apply" /\ asked' = All("read", asked)
    /\ UNCHANGED <<api, refuses, late, change, trouble, old, meddled>>
-----------------------------------------------------------------------------
Refused(n) == [asked[n] EXCEPT !.pc = "done", !.outcome = "refused"]

\* applyOne: the values before.
ReadBefore(n) ==
    /\ phase = "apply" /\ asked[n].pc = "read"
    /\ \/ Fine /\ Go(n, [asked[n] EXCEPT !.pc = "patch", !.before = Shown(api[n])])
       \/ Fault /\ Go(n, Refused(n))
    /\ Rest /\ UNCHANGED <<api, refuses, late>>

\* One patch carried out after another.
After(first, then) == [i \in DOMAIN first \union DOMAIN then |->
                         IF i \in DOMAIN then THEN then[i] ELSE first[i]]

Differing(a, b) == {i \in Items : a[i] # b[i]}

\* patchResult: the answer names the items that changed.
Applied(n, now, changed) ==
    [asked[n] EXCEPT !.pc = "done", !.outcome = "applied", !.after = Shown(now), !.changed = changed]

\* An answer of the PATCH that is there but of no use: cut off in its body or not to be read, which
\* applyOne takes for a refusal; or empty, which it takes for a PATCH that changed nothing.
Useless(n) ==
    {[asked[n] EXCEPT !.pc = "done", !.outcome = out, !.changed = {}, !.useless = TRUE] :
        out \in {"refused", "applied"}}

\* The PATCH: carried out or refused; or without an answer (status 0), carried
\* out, not carried out, or to be carried out later; or carried out and answered, but to no use.
Patch(n) ==
    LET new == Patched(api[n], change.values) IN
    /\ phase = "apply" /\ asked[n].pc = "patch"
    /\ \/ /\ Fine /\ ~refuses[n]
          /\ api' = [api EXCEPT ![n] = new]
          /\ Go(n, Applied(n, new, Differing(new, api[n])))
          /\ UNCHANGED late
       \/ Fine /\ refuses[n] /\ Go(n, Refused(n)) /\ UNCHANGED <<api, late>>
       \/ /\ Fault
          /\ Go(n, [asked[n] EXCEPT !.pc = "reread", !.sure = FALSE])
          /\ \/ UNCHANGED <<api, late>>
             \/ ~refuses[n] /\ api' = [api EXCEPT ![n] = new] /\ UNCHANGED late
             \/ ~refuses[n] /\ late' = [late EXCEPT ![n] = change.values] /\ UNCHANGED api
       \/ /\ Fault /\ ~refuses[n]
          /\ api' = [api EXCEPT ![n] = new]
          /\ \E to \in Useless(n) : Go(n, to)
          /\ UNCHANGED late
    /\ Rest /\ UNCHANGED refuses

\* Mutant: no change to be seen is taken for a change that was not made.
JudgedRefused(n, now) ==
    LET changed == {i \in DOMAIN change.values : now[i] # asked[n].before[i]}
    IN  [asked[n] EXCEPT !.pc = "done", !.outcome = IF changed = {} THEN "refused" ELSE "applied",
                         !.after = now, !.changed = changed]

\* Read again: changed since, or as wanted already before, counts as applied.
Judged(n, now) ==
    LET changed == {i \in DOMAIN change.values : now[i] # asked[n].before[i]}
        noop == \A i \in DOMAIN change.values : asked[n].before[i] = change.values[i]
    IN  [asked[n] EXCEPT !.pc = "done", !.after = now, !.changed = changed,
                         !.outcome = IF changed = {} /\ ~noop THEN "unknown" ELSE "applied"]

Reread(n) ==
    /\ phase = "apply" /\ asked[n].pc = "reread"
    /\ \/ Fine /\ Go(n, Judged(n, Shown(api[n])))
       \/ Fault /\ Go(n, [asked[n] EXCEPT !.pc = "done", !.outcome = "unknown"])
    /\ Rest /\ UNCHANGED <<api, refuses, late>>

Bad == \E n \in change.nodes : asked[n].outcome \in {"refused", "unknown"}

\* applyGlobal: all of them are heard before any is put back; one alone never is.
Heard ==
    /\ phase = "apply" /\ Together("done")
    /\ IF Bad /\ Cardinality(change.nodes) > 1
       THEN /\ phase' = "undo"
            /\ asked' = [n \in Nodes |->
                 CASE asked[n].outcome = "applied" ->
                        [asked[n] EXCEPT !.pc = IF asked[n].changed = {} THEN "done" ELSE "undo",
                                         !.undone = IF asked[n].changed = {} THEN "yes" ELSE "none"]
                   [] asked[n].outcome = "unknown" -> [asked[n] EXCEPT !.undone = "no"]
                   [] OTHER -> asked[n]]
       ELSE phase' = "answered" /\ UNCHANGED asked
    /\ UNCHANGED <<api, refuses, late, change, trouble, old, meddled>>
-----------------------------------------------------------------------------
NotUndone(n) == [asked[n] EXCEPT !.pc = "done", !.undone = "no"]

\* What undoOne puts back, when now is what the node shows.
Masked(n) == {i \in asked[n].changed : asked[n].before[i] = Mask}

\* Mutant: whatever the item is by now.
BackAlways(n, now) == [i \in asked[n].changed \ Masked(n) |-> asked[n].before[i]]

\* Only what is still as the change left it.
Back(n, now) ==
    [i \in {j \in asked[n].changed \ Masked(n) : now[j] = asked[n].after[j]} |-> asked[n].before[i]]

ReadUndo(n) ==
    /\ phase = "undo" /\ asked[n].pc = "undo"
    /\ \/ Fine /\ Go(n, [asked[n] EXCEPT !.pc = "putback", !.back = Back(n, Shown(api[n]))])
       \/ Fault /\ Go(n, NotUndone(n))
    /\ Rest /\ UNCHANGED <<api, refuses, late>>

\* Mutant: a masked value counts as put back.
UndoneAll(n) == [asked[n] EXCEPT !.pc = "done", !.undone = "yes"]

Undone(n) == [asked[n] EXCEPT !.pc = "done", !.undone = IF Masked(n) = {} THEN "yes" ELSE "no"]

PutBack(n) ==
    /\ phase = "undo" /\ asked[n].pc = "putback"
    /\ \/ /\ Fine
          /\ api' = [api EXCEPT ![n] = Patched(@, asked[n].back)]
          /\ Go(n, Undone(n)) /\ UNCHANGED late
       \/ /\ asked[n].back # NoPatch /\ Fault
          /\ Go(n, NotUndone(n))
          /\ \/ UNCHANGED <<api, late>>
             \/ api' = [api EXCEPT ![n] = Patched(@, asked[n].back)] /\ UNCHANGED late
             \/ late' = [late EXCEPT ![n] = After(@, asked[n].back)] /\ UNCHANGED api
    /\ Rest /\ UNCHANGED refuses

PutBackAll ==
    /\ phase = "undo" /\ Together("done")
    /\ phase' = "answered"
    /\ UNCHANGED <<api, refuses, late, change, asked, trouble, old, meddled>>
-----------------------------------------------------------------------------
\* rproxy carries out a request nobody waits for any more.
Late(n) ==
    /\ late[n] # NoPatch
    /\ api' = [api EXCEPT ![n] = Patched(@, late[n])]
    /\ late' = [late EXCEPT ![n] = NoPatch]
    /\ UNCHANGED <<refuses, change, asked, phase, trouble, old, meddled>>

\* Another administrator changes an item of a node.
Meddle(n, i, v) ==
    /\ Fault
    /\ api[n][i] # v
    /\ api' = [api EXCEPT ![n][i] = v]
    /\ meddled' = [meddled EXCEPT ![n] = IF asked[n].pc = "putback" \/ @ = "late" THEN "late" ELSE "yes"]
    /\ UNCHANGED <<refuses, late, change, asked, phase, old>>

\* A node begins or ceases to refuse (in_use, not_loaded, ...).
ChangeMind(n) ==
    /\ Fault
    /\ refuses' = [refuses EXCEPT ![n] = ~@]
    /\ UNCHANGED <<api, late, change, asked, phase, old, meddled>>

GlobalNext ==
    \/ \E nodes \in SUBSET Nodes, values \in Patches : Request(nodes, values)
    \/ \E n \in change.nodes : \/ Look(n) \/ DryRun(n) \/ ReadBefore(n) \/ Patch(n) \/ Reread(n)
                               \/ ReadUndo(n) \/ PutBack(n)
    \/ Looked \/ DriedOut \/ Heard \/ PutBackAll
    \/ \E n \in Nodes : Late(n) \/ ChangeMind(n)
    \/ \E n \in Nodes, i \in Items, v \in Values \union {Null} : Meddle(n, i, v)

GlobalSpec == GlobalInit /\ [][GlobalNext]_globalVars
-----------------------------------------------------------------------------
\* Unless another changed the node meanwhile, what the answer says of it is so:
\* applied, and the values are in place; refused or put back, and the node is as
\* it was before, and stays so.  After an answer that was lost only the items
\* that are not masked can be spoken of (globalapi.ts:70, :103, :140).  The code
\* has one exception: a node whose answer came, but cut off, not to be read or
\* empty, has the change in place and keeps it, though it counts as refused with
\* nothing changed, or as put back (globalapi.ts:117, :140; rproxy.ts:410, :428).
AnswerIsTrue ==
    phase = "answered" => \A n \in {m \in change.nodes : meddled[m] = "no"} :
        LET Stays(s, S) == \A i \in S : api[n][i] = s[i] /\ (i \in DOMAIN late[n] => late[n][i] = s[i])
        IN  /\ asked[n].useless \/ (asked[n].outcome = "applied" /\ asked[n].undone = "none") =>
                 Stays(Patched(old[n], change.values), Items)
            /\ asked[n].outcome = "refused" /\ ~asked[n].useless => Stays(old[n], Items)
            /\ asked[n].undone = "yes" /\ ~asked[n].useless =>
                 Stays(old[n], IF asked[n].sure THEN Items ELSE Items \ Hidden)

\* When nothing is lost and nobody else interferes, a group takes the change as
\* a whole or is left as it was, masked values included (globalapi.ts:164).
GroupAllOrNone ==
    phase = "answered" /\ trouble = 0 =>
        \/ \A n \in change.nodes : api[n] = Patched(old[n], change.values)
        \/ \A n \in change.nodes : api[n] = old[n]

\* What another set on a node before it was read again to be put back stays, if
\* the node's answer had come and the item is not masked (globalapi.ts:138).
UndoSparesOthers ==
    [][\A n \in Nodes, i \in Items \ Hidden :
         asked[n].pc = "putback" /\ asked'[n].pc = "done" /\ asked[n].sure
         /\ meddled[n] # "late" /\ api'[n][i] # api[n][i] => api[n][i] = change.values[i]]_globalVars
=============================================================================

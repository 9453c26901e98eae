--------------------------- MODULE RulePlacement ---------------------------
(***************************************************************************)
(* One UI rule (one key at one node or group) from the database row to the *)
(* rproxy nodes it is placed on.  Every change runs as                     *)
(*                                                                         *)
(*   BEGIN; lock the row; write the DB; fan out to the nodes; COMMIT       *)
(*                                                                         *)
(* (withTransaction and applyToNodes).  The row lock admits one such       *)
(* transaction at a time, so tx is a single record; each node of the       *)
(* place runs its own little program of rproxy calls, interleaved with the *)
(* others.  Around the transaction the model has what the lock does not    *)
(* stop: calls that timed out and land later, undo calls that run after a  *)
(* failed COMMIT has already released the lock, crashes of the UI, and     *)
(* rproxy nodes that are restarted or changed by somebody else.            *)
(*                                                                         *)
(* suspect and raced are history variables.  suspect holds the listeners   *)
(* (node and address) whose content may differ from the database, and      *)
(* raced those that somebody else changed while a transaction or the undo  *)
(* after its failed COMMIT was under way.                                  *)
(***************************************************************************)
EXTENDS Naturals, FiniteSets

CONSTANTS
    Nodes,      \* the nodes of the place (place.nodes)
    Addrs,      \* listen addresses a node may use for the rule
    BaseAddr,   \* srcAddr of the row: part of the key
    Bodies,     \* everything else a rule says (destination, TLS, options)
    Overrides,  \* the per-node overrides users set
    Keep,       \* an item an override leaves to the row
    NoBody, NoNode,
    Faults,     \* which of FaultKinds may happen
    MaxOrphans  \* bound: calls the UI no longer waits for that may still land

FaultKinds == {"timeout", "undo", "commit", "crash", "restart", "external"}

NoOverride == [addr |-> Keep, body |-> Keep, off |-> FALSE]

ASSUME PlacementAssumption ==
    /\ BaseAddr \in Addrs
    /\ Keep \notin Addrs \union Bodies
    /\ NoBody \notin Bodies
    /\ NoNode \notin Nodes
    /\ NoOverride \in Overrides
    /\ Overrides \subseteq
         [addr : Addrs \union {Keep}, body : Bodies \union {Keep}, off : BOOLEAN]
    /\ Faults \subseteq FaultKinds

VARIABLES
    row,      \* the committed forward_rules row
    ovs,      \* its committed forward_rule_overrides rows
    live,     \* what each listener of each node runs
    tx,       \* the transaction holding the row lock
    call,     \* per node: the rproxy call it will make next, or how it ended
    undo,     \* per node: the calls that take its change back
    tail,     \* undo calls still to make after a failed COMMIT
    orphans,  \* calls that timed out: they may be carried out later
    suspect, raced

vars == <<row, ovs, live, tx, call, undo, tail, orphans, suspect, raced>>
-----------------------------------------------------------------------------
Slots == Nodes \X Addrs

\* A rule in rproxy.  "ui" is origin dynamic (made by this UI), "api" a rule of
\* an API client or of a ruleset, "static" one of the configuration file.
Empty == [origin |-> "none", body |-> NoBody]
Ui(b) == [origin |-> "ui", body |-> b]
Foreign == [origin : {"api"}, body : Bodies] \union {[origin |-> "static", body |-> NoBody]}
Wanted == {Empty} \union {Ui(b) : b \in Bodies}
Live == Wanted \union Foreign

NoRow == [body |-> NoBody, on |-> FALSE]
Rows == {NoRow} \union [body : Bodies, on : BOOLEAN]
NoOvs == [n \in Nodes |-> NoOverride]

\* A call to one listener; was is the content a PATCH takes the rule to have.
Calls ==
    [verb : {"GET", "DELETE"}, slot : Slots, body : {NoBody}, was : {NoBody}]
    \union [verb : {"POST"}, slot : Slots, body : Bodies, was : {NoBody}]
    \union [verb : {"PATCH"}, slot : Slots, body : Bodies, was : Bodies]
Done == [verb |-> "done"]
Failed == [verb |-> "failed"]

Ops == {"add", "edit", "delete", "pause", "resume", "override", "resend"}
NoTx == [op |-> "none", row |-> NoRow, ovs |-> NoOvs, node |-> NoNode]
Txs == {NoTx} \union
       [op : Ops, row : Rows, ovs : [Nodes -> Overrides], node : Nodes \union {NoNode}]

TypeOK ==
    /\ row \in Rows
    /\ ovs \in [Nodes -> Overrides]
    /\ live \in [Slots -> Live]
    /\ tx \in Txs
    /\ call \in [Nodes -> Calls \union {Done, Failed}]
    /\ undo \in [Nodes -> SUBSET Calls]
    /\ tail \in SUBSET Calls
    /\ orphans \in SUBSET Calls
    /\ suspect \in SUBSET Slots
    /\ raced \in SUBSET Slots
-----------------------------------------------------------------------------
(* What the database says                                                  *)

\* The rule a node runs: the row with the node's override laid over it.
Effective(r, o) ==
    [addr |-> IF o.addr = Keep THEN BaseAddr ELSE o.addr,
     body |-> IF o.body = Keep THEN r.body ELSE o.body,
     on   |-> r.on /\ ~o.off]

\* What listener s runs when row r and overrides os are in force.
Expected(r, os, s) ==
    LET e == Effective(r, os[s[1]])
    IN  IF e.on /\ e.addr = s[2] THEN Ui(e.body) ELSE Empty

\* A listener the UI wants nothing on may still run somebody else's rule.
Agrees(v, want) == IF want = Empty THEN v.origin # "ui" ELSE v = want

Matches(s) == Agrees(live[s], Expected(row, ovs, s))

\* The listeners the current transaction changes.
InFlight == {s \in Slots : Expected(row, ovs, s) # Expected(tx.row, tx.ovs, s)}

SlotsOf(C) == {c.slot : c \in C}
-----------------------------------------------------------------------------
(* rproxy: what a call does to a listener                                  *)

At(n, e) == <<n, e.addr>>
Get(n, e) == [verb |-> "GET", slot |-> At(n, e), body |-> NoBody, was |-> NoBody]
Post(n, e) == [verb |-> "POST", slot |-> At(n, e), body |-> e.body, was |-> NoBody]
Delete(n, e) == [verb |-> "DELETE", slot |-> At(n, e), body |-> NoBody, was |-> NoBody]
Patch(n, e, was) == [verb |-> "PATCH", slot |-> At(n, e), body |-> e.body, was |-> was]

\* A PATCH drops the items of the old content the UI knows and sets those of the
\* new one; laid over anything else it may leave items the UI does not know of.
Patched(c, v) ==
    {[v EXCEPT !.body = b] :
        b \in IF v.body \in {c.was, c.body} THEN {c.body} ELSE Bodies}

\* The answers rproxy gives to c when the listener holds v, with what the
\* listener holds afterwards.
Answers(c, v) ==
    CASE c.verb = "GET" -> {[code |-> "ok", now |-> v]}
      [] c.verb = "POST" ->
           {IF v = Empty THEN [code |-> "ok", now |-> Ui(c.body)]
                         ELSE [code |-> "refused", now |-> v]}
      [] c.verb \in {"DELETE", "PATCH"} ->
           IF v = Empty THEN {[code |-> "missing", now |-> v]}
           ELSE IF v.origin = "static" THEN {[code |-> "static", now |-> v]}
           ELSE {[code |-> "ok", now |-> w] :
                   w \in IF c.verb = "DELETE" THEN {Empty} ELSE Patched(c, v)}

\* The answer of a call rproxy never carried out, or carried out too late.
NoAnswer(v) == [code |-> "refused", now |-> v]

Shadowing(v) == v.origin = "api"
-----------------------------------------------------------------------------
Init ==
    /\ row = NoRow
    /\ ovs = NoOvs
    /\ live \in [Slots -> {Empty} \union Foreign]
    /\ tx = NoTx
    /\ call = [n \in Nodes |-> Done]
    /\ undo = [n \in Nodes |-> {}]
    /\ tail = {}
    /\ orphans = {}
    /\ suspect = {}
    /\ raced = {}

(* The programs the nodes run.  e is the node's rule before the change and *)
(* f the one after it.                                                     *)

Before(n) == Effective(row, ovs[n])
After(n) == Effective(tx.row, tx.ovs[n])

\* The first call of node n in operation op on node m (NoNode: all of them).
\* A rule the row keeps paused is changed in the database alone.
FirstCall(op, m, n, e, f) ==
    IF m \notin {n, NoNode} THEN Done
    ELSE CASE op = "add" -> IF f.on THEN Post(n, f) ELSE Done
           [] op \in {"edit", "resume"} -> IF f.on THEN Get(n, f) ELSE Done
           [] op \in {"delete", "pause"} -> IF e.on THEN Get(n, e) ELSE Done
           [] op = "override" ->
                IF e.on THEN Get(n, e) ELSE IF f.on THEN Get(n, f) ELSE Done
           [] op = "resend" -> Get(n, e)

\* A transaction may begin while the undo after another's failed COMMIT is still
\* going on: what is left of that undo may then land at any time.
Start(op, r, os, m) ==
    /\ tx = NoTx
    /\ Cardinality(orphans \union tail) <= MaxOrphans
    /\ tx' = [op |-> op, row |-> r, ovs |-> os, node |-> m]
    /\ call' = [n \in Nodes |->
                  FirstCall(op, m, n, Before(n), Effective(r, os[n]))]
    /\ undo' = [n \in Nodes |-> {}]
    /\ orphans' = orphans \union tail
    /\ tail' = {}
    /\ suspect' = suspect \union SlotsOf(tail)
    /\ raced' = {}
    /\ UNCHANGED <<row, ovs, live>>

BeginAdd ==
    /\ row = NoRow
    /\ \E b \in Bodies, on \in BOOLEAN, os \in [Nodes -> Overrides] :
         Start("add", [body |-> b, on |-> on], os, NoNode)

BeginEdit ==
    /\ row # NoRow
    /\ \E b \in Bodies : Start("edit", [row EXCEPT !.body = b], ovs, NoNode)

BeginDelete ==
    /\ row # NoRow
    /\ Start("delete", NoRow, NoOvs, NoNode)

BeginPause ==
    /\ row.on
    /\ Start("pause", [row EXCEPT !.on = FALSE], ovs, NoNode)

\* Mutant: resuming does not ask for the row.
BeginResumeAny ==
    /\ ~row.on
    /\ Start("resume", [row EXCEPT !.on = TRUE], ovs, NoNode)

BeginResume ==
    /\ row # NoRow /\ ~row.on
    /\ Start("resume", [row EXCEPT !.on = TRUE], ovs, NoNode)

BeginOverride ==
    /\ row # NoRow
    /\ \E n \in Nodes : \E o \in Overrides \ {ovs[n]} :
         Start("override", row, [ovs EXCEPT ![n] = o], n)

BeginResend ==
    /\ row # NoRow
    /\ \E n \in Nodes : Start("resend", row, ovs, n)

Begin ==
    \/ BeginAdd \/ BeginEdit \/ BeginDelete \/ BeginPause
    \/ BeginResume \/ BeginOverride \/ BeginResend
-----------------------------------------------------------------------------
(* How a node goes on from the answer a to its call c.                     *)

Settle(n, s, u) ==
    /\ call' = [call EXCEPT ![n] = s]
    /\ undo' = [undo EXCEPT ![n] = u]
Then(n, c) == Settle(n, c, {})
Fail(n) == Settle(n, Failed, {})

\* Mutant: an add gives no way to take it back.
AddReplyNoUndo(n, c, a) ==
    \/ a.code = "ok" /\ Then(n, Done)
    \/ a.code # "ok" /\ Fail(n)

\* Mutant: a refused add is never reported to the fan-out.
AddReplyHangs(n, c, a) ==
    LET f == After(n) IN
    a.code = "ok" /\ Settle(n, Done, {Delete(n, f)})

AddReply(n, c, a) ==
    LET f == After(n) IN
    \/ a.code = "ok" /\ Settle(n, Done, {Delete(n, f)})
    \/ a.code # "ok" /\ Fail(n)

\* Mutant: the undo of an edit takes the rule to have the old content still.
EditReplyOldUndo(n, c, a) ==
    LET e == Before(n)
        f == After(n) IN
    \/ /\ c.verb = "GET" /\ a.code = "ok"
       /\ IF Shadowing(a.now) THEN Fail(n) ELSE Then(n, Patch(n, f, e.body))
    \/ c.verb = "PATCH" /\ a.code = "ok" /\ Settle(n, Done, {Patch(n, e, e.body)})
    \/ c.verb = "PATCH" /\ a.code = "missing" /\ Then(n, Post(n, f))
    \/ c.verb = "POST" /\ a.code = "ok" /\ Settle(n, Done, {Delete(n, f)})
    \/ a.code \in {"refused", "static"} /\ Fail(n)

EditReply(n, c, a) ==
    LET e == Before(n)
        f == After(n) IN
    \/ /\ c.verb = "GET" /\ a.code = "ok"
       /\ IF Shadowing(a.now) THEN Fail(n) ELSE Then(n, Patch(n, f, e.body))
    \/ c.verb = "PATCH" /\ a.code = "ok" /\ Settle(n, Done, {Patch(n, e, f.body)})
    \/ c.verb = "PATCH" /\ a.code = "missing" /\ Then(n, Post(n, f))
    \/ c.verb = "POST" /\ a.code = "ok" /\ Settle(n, Done, {Delete(n, f)})
    \/ a.code \in {"refused", "static"} /\ Fail(n)

\* Mutant: a pause or a delete does not look for a rule of the API.
RemoveReplyBlind(n, c, a) ==
    LET e == Before(n) IN
    \/ c.verb = "GET" /\ a.code = "ok" /\ Then(n, Delete(n, e))
    \/ c.verb = "DELETE" /\ a.code = "ok" /\ Settle(n, Done, {Post(n, e)})
    \/ a.code = "missing" /\ Then(n, Done)
    \/ a.code = "static" /\ Then(n, IF tx.op = "delete" THEN Done ELSE Failed)
    \/ a.code = "refused" /\ Fail(n)

\* Mutant: a pause or a delete gives no way to take it back.
RemoveReplyNoUndo(n, c, a) ==
    LET e == Before(n) IN
    \/ /\ c.verb = "GET" /\ a.code = "ok"
       /\ Then(n, IF Shadowing(a.now) THEN Done ELSE Delete(n, e))
    \/ c.verb = "DELETE" /\ a.code \in {"ok", "missing"} /\ Then(n, Done)
    \/ a.code = "static" /\ Then(n, IF tx.op = "delete" THEN Done ELSE Failed)
    \/ a.code = "refused" /\ Fail(n)

\* A static rule hiding the row stops a pause but not a delete.
RemoveReply(n, c, a) ==
    LET e == Before(n) IN
    \/ /\ c.verb = "GET" /\ a.code = "ok"
       /\ Then(n, IF Shadowing(a.now) THEN Done ELSE Delete(n, e))
    \/ c.verb = "DELETE" /\ a.code = "ok" /\ Settle(n, Done, {Post(n, e)})
    \/ a.code = "missing" /\ Then(n, Done)
    \/ a.code = "static" /\ Then(n, IF tx.op = "delete" THEN Done ELSE Failed)
    \/ a.code = "refused" /\ Fail(n)

ResumeReply(n, c, a) ==
    LET f == After(n) IN
    \/ /\ c.verb = "GET" /\ a.code = "ok"
       /\ IF Shadowing(a.now) THEN Fail(n) ELSE Then(n, Post(n, f))
    \/ c.verb = "POST" /\ a.code = "ok" /\ Settle(n, Done, {Delete(n, f)})
    \/ a.code # "ok" /\ Fail(n)

\* applyNodeChange once its guards have passed.
ChangeCall(n) ==
    LET e == Before(n)
        f == After(n)
    IN  CASE ~e.on -> Post(n, f)
          [] e.on /\ (~f.on \/ e.addr # f.addr) -> Delete(n, e)
          [] OTHER -> Patch(n, f, e.body)

\* Mutant: a move that cannot make the new rule does not put the old one back.
OverrideReplyNoRestore(n, c, a) ==
    LET e == Before(n)
        f == After(n)
        moving == e.on /\ f.on /\ e.addr # f.addr IN
    \/ /\ c.verb = "GET" /\ a.code = "ok" /\ Shadowing(a.now)
       /\ Then(n, IF f.on THEN Failed ELSE Done)
    \/ /\ c.verb = "GET" /\ a.code = "ok" /\ ~Shadowing(a.now)
       /\ Then(n, IF moving /\ c.slot = At(n, e) THEN Get(n, f) ELSE ChangeCall(n))
    \/ /\ c.verb = "DELETE" /\ a.code \in {"ok", "missing"}
       /\ IF moving THEN Then(n, Post(n, f)) ELSE Settle(n, Done, {Post(n, e)})
    \/ c.verb = "PATCH" /\ a.code = "ok" /\ Settle(n, Done, {Patch(n, e, f.body)})
    \/ c.verb = "PATCH" /\ a.code = "missing" /\ Then(n, Post(n, f))
    \/ /\ c.verb = "POST" /\ a.code = "ok"
       /\ Settle(n, Done, {Delete(n, f)} \union IF moving THEN {Post(n, e)} ELSE {})
    \/ c.verb = "POST" /\ a.code # "ok" /\ Fail(n)
    \/ c.verb # "POST" /\ a.code \in {"refused", "static"} /\ Fail(n)

\* The check of the old listener, the check of the new one where it differs,
\* then the change: stop, start, move (DELETE the old, POST the new, POST the
\* old again if that fails) or PATCH.
OverrideReply(n, c, a) ==
    LET e == Before(n)
        f == After(n)
        moving == e.on /\ f.on /\ e.addr # f.addr IN
    \/ /\ c.verb = "GET" /\ a.code = "ok" /\ Shadowing(a.now)
       /\ Then(n, IF f.on THEN Failed ELSE Done)
    \/ /\ c.verb = "GET" /\ a.code = "ok" /\ ~Shadowing(a.now)
       /\ Then(n, IF moving /\ c.slot = At(n, e) THEN Get(n, f) ELSE ChangeCall(n))
    \/ /\ c.verb = "DELETE" /\ a.code \in {"ok", "missing"}
       /\ IF moving THEN Then(n, Post(n, f)) ELSE Settle(n, Done, {Post(n, e)})
    \/ c.verb = "PATCH" /\ a.code = "ok" /\ Settle(n, Done, {Patch(n, e, f.body)})
    \/ c.verb = "PATCH" /\ a.code = "missing" /\ Then(n, Post(n, f))
    \/ /\ c.verb = "POST" /\ c.slot = At(n, f) /\ a.code = "ok"
       /\ Settle(n, Done, {Delete(n, f)} \union IF moving THEN {Post(n, e)} ELSE {})
    \/ /\ c.verb = "POST" /\ c.slot = At(n, f) /\ a.code # "ok"
       /\ Then(n, IF moving THEN Post(n, e) ELSE Failed)
    \/ c.verb = "POST" /\ c.slot # At(n, f) /\ Fail(n)
    \/ c.verb # "POST" /\ a.code \in {"refused", "static"} /\ Fail(n)

\* resendOne: bring the listener to what the row says.  Some differences need
\* the rule to be made anew; whether this is one of them is left open.
ResendReply(n, c, a) ==
    LET e == Before(n) IN
    \/ /\ c.verb = "GET" /\ a.code = "ok"
       /\ \/ a.now.origin \in {"static", "api"} /\ Fail(n)
          \/ ~e.on /\ a.now.origin = "ui" /\ Then(n, Delete(n, e))
          \/ ~e.on /\ a.now = Empty /\ Then(n, Done)
          \/ e.on /\ a.now = Ui(e.body) /\ Then(n, Done)
          \/ e.on /\ a.now = Empty /\ Then(n, Post(n, e))
          \/ /\ e.on /\ a.now.origin = "ui" /\ a.now # Ui(e.body)
             /\ \/ Then(n, Delete(n, e))
                \/ Then(n, Patch(n, e, a.now.body))
    \/ c.verb = "DELETE" /\ a.code = "ok" /\ Then(n, IF e.on THEN Post(n, e) ELSE Done)
    \/ c.verb \in {"POST", "PATCH"} /\ a.code = "ok" /\ Then(n, Done)
    \/ a.code # "ok" /\ Fail(n)

Reply(n, c, a) ==
    \/ tx.op = "add" /\ AddReply(n, c, a)
    \/ tx.op = "edit" /\ EditReply(n, c, a)
    \/ tx.op \in {"delete", "pause"} /\ RemoveReply(n, c, a)
    \/ tx.op = "resume" /\ ResumeReply(n, c, a)
    \/ tx.op = "override" /\ OverrideReply(n, c, a)
    \/ tx.op = "resend" /\ ResendReply(n, c, a)
-----------------------------------------------------------------------------
(* Steps of the fan-out                                                    *)

\* The call that puts the old rule back after a move failed half way.
Restoring(n) ==
    /\ tx.op = "override" /\ call[n] \in Calls
    /\ call[n].verb = "POST" /\ call[n].slot # At(n, After(n))

\* A resend that ends well leaves the listener as the database says, unless an
\* abandoned call may still reach it or somebody changed it in between.
Resent(n) ==
    IF tx.op = "resend" /\ call'[n] = Done
    THEN {At(n, Before(n))} \ (SlotsOf(orphans) \union raced)
    ELSE {}

Answered(n) ==
    /\ tx # NoTx /\ call[n] \in Calls
    /\ LET c == call[n] IN
       \E a \in Answers(c, live[c.slot]) :
         /\ Reply(n, c, a)
         /\ live' = [live EXCEPT ![c.slot] = a.now]
         /\ suspect' = (suspect \union
                          IF Restoring(n) /\ a.code # "ok" THEN {c.slot} ELSE {})
                        \ Resent(n)
    /\ UNCHANGED <<row, ovs, tx, tail, orphans, raced>>

\* rproxy turns the call down (or cannot be reached at all) and does nothing.
Refused(n) ==
    /\ tx # NoTx /\ call[n] \in Calls
    /\ Restoring(n) => "undo" \in Faults
    /\ LET c == call[n] IN
       /\ Reply(n, c, NoAnswer(live[c.slot]))
       /\ suspect' = suspect \union IF Restoring(n) THEN {c.slot} ELSE {}
    /\ UNCHANGED <<row, ovs, live, tx, tail, orphans, raced>>

\* No answer in time.  The UI counts the call as failed; rproxy may have
\* carried it out, may do so later, or never.
TimedOut(n) ==
    /\ "timeout" \in Faults
    /\ tx # NoTx /\ call[n] \in Calls
    /\ LET c == call[n] IN
       /\ c.verb # "GET"
       /\ Cardinality(orphans) < MaxOrphans
       /\ Reply(n, c, NoAnswer(live[c.slot]))
       /\ orphans' = orphans \union {c}
       /\ suspect' = suspect \union {c.slot}
    /\ UNCHANGED <<row, ovs, live, tx, tail, raced>>

Settled == tx # NoTx /\ \A n \in Nodes : call[n] \in {Done, Failed}
SomeFailed == \E n \in Nodes : call[n] = Failed

\* Undo calls of one node go in order: a move is undone by DELETE, then POST.
Ready(U) ==
    {c \in U : c.verb = "POST" =>
                 ~\E d \in U : d.verb = "DELETE" /\ d.slot[1] = c.slot[1]}
OfNode(U, n) == {c \in U : c.slot[1] = n}

\* An undo call went through; the DELETE of a move may find nothing.
UndoOk(U, c, a) ==
    a.code = "ok" \/ (a.code = "missing" /\ c.verb = "DELETE" /\ OfNode(U, c.slot[1]) # {c})

\* Some node failed: the nodes that succeeded take their change back, with the
\* row lock still held.
Undo(n) ==
    /\ Settled /\ SomeFailed
    /\ \E c \in Ready(undo[n]) : \E a \in Answers(c, live[c.slot]) :
         /\ live' = [live EXCEPT ![c.slot] = a.now]
         /\ \/ /\ UndoOk(undo[n], c, a)
               /\ undo' = [undo EXCEPT ![n] = @ \ {c}]
               /\ UNCHANGED suspect
            \/ /\ ~UndoOk(undo[n], c, a)
               /\ undo' = [undo EXCEPT ![n] = {}]
               /\ suspect' = suspect \union SlotsOf(undo[n])
    /\ UNCHANGED <<row, ovs, tx, call, tail, orphans, raced>>

\* An undo call is refused or gets no answer: logged, and given up.
UndoLost(n) ==
    /\ "undo" \in Faults
    /\ Settled /\ SomeFailed
    /\ \E c \in Ready(undo[n]) :
         \/ UNCHANGED orphans
         \/ Cardinality(orphans) < MaxOrphans /\ orphans' = orphans \union {c}
    /\ undo' = [undo EXCEPT ![n] = {}]
    /\ suspect' = suspect \union SlotsOf(undo[n])
    /\ UNCHANGED <<row, ovs, live, tx, call, tail, raced>>

EndTx ==
    /\ tx' = NoTx
    /\ call' = [n \in Nodes |-> Done]
    /\ undo' = [n \in Nodes |-> {}]

Rollback ==
    /\ Settled /\ SomeFailed
    /\ \A n \in Nodes : undo[n] = {}
    /\ EndTx
    /\ raced' = {}
    /\ UNCHANGED <<row, ovs, live, tail, orphans, suspect>>

Commit ==
    /\ Settled /\ ~SomeFailed
    /\ row' = tx.row /\ ovs' = tx.ovs
    /\ EndTx
    /\ raced' = {}
    /\ UNCHANGED <<live, tail, orphans, suspect>>

\* COMMIT reports an error.  The change is undone on every node, but the row
\* lock may be gone by then; and the server may have committed all the same.
CommitFails ==
    /\ "commit" \in Faults
    /\ Settled /\ ~SomeFailed
    /\ tail' = UNION {undo[n] : n \in Nodes}
    /\ \/ /\ UNCHANGED <<row, ovs, suspect>>
       \/ /\ row' = tx.row /\ ovs' = tx.ovs
          /\ suspect' = suspect \union InFlight \union SlotsOf(tail')
    /\ EndTx
    /\ UNCHANGED <<live, orphans, raced>>

\* The undo that follows a failed COMMIT.
TailUndo ==
    /\ \E c \in Ready(tail) : \E a \in Answers(c, live[c.slot]) :
         /\ live' = [live EXCEPT ![c.slot] = a.now]
         /\ \/ /\ UndoOk(tail, c, a)
               /\ tail' = tail \ {c}
               /\ UNCHANGED suspect
            \/ /\ ~UndoOk(tail, c, a)
               /\ tail' = tail \ OfNode(tail, c.slot[1])
               /\ suspect' = suspect \union SlotsOf(OfNode(tail, c.slot[1]))
    /\ UNCHANGED <<row, ovs, tx, call, undo, orphans, raced>>

TailLost ==
    /\ "undo" \in Faults
    /\ \E c \in Ready(tail) :
         /\ \/ UNCHANGED orphans
            \/ Cardinality(orphans) < MaxOrphans /\ orphans' = orphans \union {c}
         /\ tail' = tail \ OfNode(tail, c.slot[1])
         /\ suspect' = suspect \union SlotsOf(OfNode(tail, c.slot[1]))
    /\ UNCHANGED <<row, ovs, live, tx, call, undo, raced>>
-----------------------------------------------------------------------------
(* What the UI does not control                                            *)

Race(S) == raced' = IF tx = NoTx /\ tail = {} THEN {} ELSE raced \union S

\* A call that timed out reaches rproxy after all.
OrphanLands ==
    /\ \E c \in orphans : \E a \in Answers(c, live[c.slot]) :
         /\ live' = [live EXCEPT ![c.slot] = a.now]
         /\ orphans' = orphans \ {c}
         /\ Race({c.slot})
    /\ UNCHANGED <<row, ovs, tx, call, undo, tail, suspect>>

\* The UI process dies: the server rolls the transaction back and the nodes
\* keep whatever they were told.
Crash ==
    /\ "crash" \in Faults
    /\ tx # NoTx \/ tail # {}
    /\ EndTx
    /\ tail' = {}
    /\ suspect' = suspect \union SlotsOf(tail) \union IF tx = NoTx THEN {} ELSE InFlight
    /\ raced' = {}
    /\ UNCHANGED <<row, ovs, live, orphans>>

\* rproxy on node n restarts and takes its UI rules from the database; rules
\* of the API and of the configuration file come first.
Restart(n) ==
    /\ "restart" \in Faults
    /\ live' = [s \in Slots |->
                  IF s[1] # n \/ live[s] \in Foreign THEN live[s]
                  ELSE Expected(row, ovs, s)]
    /\ suspect' =
         IF tx = NoTx /\ tail = {}
         THEN suspect \ {s \in Slots : s[1] = n /\ live[s] \notin Foreign
                                        /\ s \notin SlotsOf(orphans)}
         ELSE suspect \union {s \in InFlight \union SlotsOf(tail) : s[1] = n}
    /\ Race({s \in Slots : s[1] = n})
    /\ UNCHANGED <<row, ovs, tx, call, undo, tail, orphans>>

\* An API client or an edited configuration file changes a listener.
External(s) ==
    /\ "external" \in Faults
    /\ \E v \in ({Empty} \union Foreign) \ {live[s]} :
         live' = [live EXCEPT ![s] = v]
    /\ Race({s})
    /\ suspect' = suspect \union IF live[s].origin = "ui" THEN {s} ELSE {}
    /\ UNCHANGED <<row, ovs, tx, call, undo, tail, orphans>>

-----------------------------------------------------------------------------
NodeStep(n) == Answered(n) \/ Refused(n) \/ TimedOut(n) \/ Undo(n) \/ UndoLost(n)
TailStep == TailUndo \/ TailLost
EndStep == Rollback \/ Commit \/ CommitFails

Next ==
    \/ Begin
    \/ \E n \in Nodes : NodeStep(n)
    \/ EndStep
    \/ TailStep
    \/ OrphanLands
    \/ Crash
    \/ \E n \in Nodes : Restart(n)
    \/ \E s \in Slots : External(s)

\* Every rproxy call ends, by an answer or by its timeout, and so does COMMIT;
\* nothing obliges a user to begin, or the network to deliver an orphan.
Fairness ==
    /\ \A n \in Nodes : WF_vars(NodeStep(n))
    /\ WF_vars(EndStep)
    /\ WF_vars(TailStep)

Spec == Init /\ [][Next]_vars /\ Fairness
-----------------------------------------------------------------------------
(* Properties                                                              *)

\* Whenever no change is under way, every listener that no lost answer, lost
\* undo, failed COMMIT, crash, restart or outside change has touched runs
\* exactly what the database says: an operation that succeeded is on every node
\* of the place, one that failed is on none, and a paused or deleted rule runs
\* nowhere (withTransaction, applyToNodes and the undo of every operation).
DivergenceAccounted ==
    tx = NoTx /\ tail = {} => \A s \in Slots \ suspect : Matches(s)

\* Without such events nothing ever diverges: refused calls, shadowing API rules
\* and static rules alone never leave the group split or off the database, so
\* an operation takes effect on the row and on every node, or nowhere.
AllOrNothing == Faults = {} /\ tx = NoTx => \A s \in Slots : Matches(s)

\* An operation on a UI rule, its undo included, never changes or deletes a rule
\* of an API client or a ruleset that was there when the operation began
\* (isShadowing, ensureNotShadowed).  A call that lands after its timeout can.
ApiRulesSpared ==
    [][\A s \in Slots :
         /\ live[s].origin = "api" /\ s \notin raced
         /\ <<call, undo, tail>>' # <<call, undo, tail>>
         => live'[s] = live[s]]_vars

\* Every transaction ends, so the row lock, held during the rproxy calls, is
\* always released again.
LockReleased == tx # NoTx ~> tx = NoTx
-----------------------------------------------------------------------------
(* The inductive invariant                                                 *)

\* A call that may still land makes its listener suspect.
OrphansSuspect == SlotsOf(orphans) \subseteq suspect

\* What the transactions write.
TxShape ==
    CASE tx.op = "none" -> tx = NoTx
      [] tx.op = "add" -> row = NoRow /\ tx.node = NoNode
      [] tx.op = "edit" -> /\ row # NoRow /\ tx.row # NoRow /\ tx.row.on = row.on
                           /\ tx.ovs = ovs /\ tx.node = NoNode
      [] tx.op = "delete" -> tx.row = NoRow /\ tx.node = NoNode
      [] tx.op = "pause" -> /\ tx.row = [row EXCEPT !.on = FALSE]
                            /\ tx.ovs = ovs /\ tx.node = NoNode
      [] tx.op = "resume" -> /\ ~row.on /\ tx.row = [row EXCEPT !.on = TRUE]
                             /\ tx.ovs = ovs /\ tx.node = NoNode
      [] tx.op = "override" -> /\ tx.row = row /\ tx.node \in Nodes
                               /\ \A n \in Nodes \ {tx.node} : tx.ovs[n] = ovs[n]
      [] tx.op = "resend" -> tx.row = row /\ tx.ovs = ovs /\ tx.node \in Nodes

Moving(n) ==
    /\ tx.op = "override" /\ Before(n).on /\ After(n).on
    /\ Before(n).addr # After(n).addr

\* The calls a node makes, and what is already known when it makes them.
CallShape(n, c) ==
    LET e == Before(n)
        f == After(n)
    IN  /\ tx.node \in {n, NoNode}
        /\ CASE tx.op = "add" -> f.on /\ c = Post(n, f)
             [] tx.op = "edit" ->
                  /\ e.on /\ f.on /\ e.addr = f.addr
                  /\ \/ c \in {Get(n, f), Patch(n, f, e.body)}
                     \/ c = Post(n, f) /\ At(n, f) \in suspect
             [] tx.op \in {"delete", "pause"} -> e.on /\ c \in {Get(n, e), Delete(n, e)}
             [] tx.op = "resume" -> ~e.on /\ f.on /\ c \in {Get(n, f), Post(n, f)}
             [] tx.op = "override" ->
                  \/ e.on /\ c = Get(n, e)
                  \/ f.on /\ (~e.on \/ Moving(n)) /\ c = Get(n, f)
                  \/ ~e.on /\ f.on /\ c = Post(n, f)
                  \/ e.on /\ (~f.on \/ Moving(n)) /\ c = Delete(n, e)
                  \/ Moving(n) /\ c \in {Post(n, f), Post(n, e)}
                  \/ e.on /\ f.on /\ ~Moving(n) /\ c = Patch(n, f, e.body)
                  \/ /\ e.on /\ f.on /\ ~Moving(n)
                     /\ c = Post(n, f) /\ At(n, f) \in suspect
             [] tx.op = "resend" ->
                  \/ c = Get(n, e)
                  \/ /\ At(n, e) \in suspect
                     /\ \/ c = Delete(n, e)
                        \/ e.on /\ c = Post(n, e)
                        \/ /\ e.on /\ c.slot = At(n, e) /\ c.verb = "PATCH"
                           /\ c.body = e.body
                           /\ At(n, e) \notin raced => live[At(n, e)] = Ui(c.was)

\* c takes a listener from the rule `new` back to the rule `old`.
Reverses(c, old, new) ==
    CASE c.verb = "DELETE" -> old = Empty
      [] c.verb = "POST" -> old = Ui(c.body) /\ new = Empty
      [] c.verb = "PATCH" -> old = Ui(c.body) /\ new = Ui(c.was)
      [] OTHER -> FALSE

\* An undo call of a move is still possible: the listener it fills is free.
Possible(c) == c.verb = "POST" /\ c.slot \notin raced => live[c.slot] = Empty

UndoShape(U, n) ==
    /\ \A c \in U : c.slot[1] = n /\ c.verb # "GET"
    /\ \A c, d \in U : c.slot = d.slot => c = d

\* What listener s of a node that has ended well runs: the new rule where an
\* undo call is left, and otherwise a rule that is both the old and the new one
\* (only the old one once the undo has begun).
DoneAgrees(n, s) ==
    LET old == Expected(row, ovs, s)
        new == Expected(tx.row, tx.ovs, s)
        U == {c \in undo[n] : c.slot = s}
    IN  /\ \A c \in U : Reverses(c, old, new) /\ Agrees(live[s], new) /\ Possible(c)
        /\ U = {} => /\ Agrees(live[s], old)
                     /\ ~(Settled /\ SomeFailed) => Agrees(live[s], new)

\* In the middle of a move the old listener is already stopped.
HalfMoved(n) == Moving(n) /\ call[n] \in Calls /\ call[n].verb = "POST"

NodeInv(n) ==
    /\ UndoShape(undo[n], n)
    /\ call[n] # Done => undo[n] = {}
    /\ call[n] \in Calls => CallShape(n, call[n])
    /\ \A s \in Slots \ suspect : s[1] = n =>
         CASE call[n] = Done -> DoneAgrees(n, s)
           [] HalfMoved(n) /\ s = At(n, Before(n)) ->
                Agrees(live[s], Empty) /\ (s \notin raced => live[s] = Empty)
           [] OTHER -> Agrees(live[s], Expected(row, ovs, s))

TailInv ==
    /\ tail # {} => tx = NoTx
    /\ \A c \in tail : c.verb # "GET"
    /\ \A c, d \in tail : c.slot = d.slot => c = d
    /\ \A c \in tail : c.slot \notin suspect =>
         \E new \in Wanted : /\ Reverses(c, Expected(row, ovs, c.slot), new)
                             /\ Agrees(live[c.slot], new)

IdleInv ==
    tx = NoTx => /\ \A n \in Nodes : call[n] = Done /\ undo[n] = {}
                 /\ \A s \in Slots \ (suspect \union SlotsOf(tail)) : Matches(s)

IInv ==
    /\ TypeOK
    /\ OrphansSuspect
    /\ TxShape
    /\ tx # NoTx => \A n \in Nodes : NodeInv(n)
    /\ TailInv
    /\ IdleInv
=============================================================================

---------------------------- MODULE RuleCompound ----------------------------
(***************************************************************************)
(* Requests that are more than one transaction: import, revert, copy and   *)
(* move, stopping a node, and the changes of rules of the rproxy API.      *)
(* They read without a lock, decide, and then run the single operations    *)
(* (add, edit, delete, pause, ...), each of which takes effect on its row  *)
(* and on every node of its place, or nowhere (RulePlacement, GroupRule).  *)
(* In between, others change the same key at the same and other places.    *)
(*                                                                         *)
(* One key.  A place is a node or a group; a node runs at most one rule    *)
(* for the key, whatever place it is from.  An override can only stop the  *)
(* rule on a node here.  A refused transaction stands for a node that says *)
(* no or nothing, for a failed COMMIT and for the checks of a user's rule. *)
(***************************************************************************)
EXTENDS Naturals

CONSTANTS
    Nodes, Groups,
    Members,       \* the nodes of a place
    Hards, Softs,  \* what a PATCH cannot change, and what it can
    Barred,        \* of the former, port ranges that are not for users
    Actors, Admins,
    Kinds,         \* the requests there are
    Keep, Nobody,
    Apart,         \* whether the places of two rules have no node in common at first
    MaxRequests, MaxRefusals    \* bounds

Places == Nodes \union Groups
Bodies == [hard : Hards, soft : Softs]

ASSUME CompoundAssumption ==
    /\ Members \in [Places -> SUBSET Nodes]
    /\ \A n \in Nodes : Members[n] = {n}
    /\ Barred \subseteq Hards
    /\ Nobody \notin Actors
    /\ MaxRequests \in Nat /\ MaxRefusals \in Nat

VARIABLES
    rows,       \* forward_rules and forward_rule_overrides, per place
    live,       \* the rule each node runs for the key
    run,        \* the request of each actor
    was,        \* history: the rows when it began, until others interfere
    astray,     \* history: nodes where the rules of an API client came between
    left,       \* requests still to come
    refusals    \* refusals still to come

vars == <<rows, live, run, was, astray, left, refusals>>
-----------------------------------------------------------------------------
NoRow == [body |-> Keep, on |-> FALSE, owner |-> Nobody, off |-> {}]
Rows == [body : Bodies, on : BOOLEAN, owner : Actors, off : SUBSET Nodes]

None == [origin |-> "none", body |-> Keep]
Api == [origin |-> "api", body |-> Keep]
Ui(b) == [origin |-> "ui", body |-> b]

Overlap(p, q) == Members[p] \intersect Members[q] # {}

\* The nodes that run row r of place p.
At(p, r) == IF r.on THEN Members[p] \ r.off ELSE {}

\* Mutant: any row of the key will do.
OwnAny(a, p) == rows[p] # NoRow

\* ownerClause
Own(a, p) == rows[p] # NoRow /\ (a \in Admins \/ rows[p].owner = a)

\* checkPorts: a user may have a rule outside the range, from before it was set or made by an
\* administrator.
PortsOk(a, b) == a \in Admins \/ b.hard \notin Barred

\* Where a refusal means that a change is not taken back.
Undoing == {"recheck", "readd", "unmake"}

Request(op, pc, at, to, rule) ==
    [op |-> op, pc |-> pc, at |-> at, to |-> to, rule |-> rule,
     snap |-> NoRow, todo |-> {}, stuck |-> FALSE]
NoRun == Request("none", "idle", Nobody, Nobody, NoRow)
-----------------------------------------------------------------------------
(* The single operations: when they succeed, and what they then change.    *)

\* Mutant: a node that has a rule for the key already counts as done.
CanAddOver(p, r) == rows[p] = NoRow

CanAdd(p, r) == rows[p] = NoRow /\ \A n \in At(p, r) : live[n] = None
Added(p, r) ==
    /\ rows' = [rows EXCEPT ![p] = r]
    /\ live' = [n \in Nodes |-> IF n \in At(p, r) THEN Ui(r.body) ELSE live[n]]

\* mergeEdit: another http or port range is an error, another source_ip is not
\* taken over.
CanEdit(a, p) == Own(a, p) /\ PortsOk(a, rows[p].body) /\ \A n \in At(p, rows[p]) : live[n] # Api
Unmergeable(p, b) == rows[p] # NoRow /\ b.hard # rows[p].body.hard
Edited(p, b) ==
    LET new == [hard |-> rows[p].body.hard, soft |-> b.soft]
    IN  /\ rows' = [rows EXCEPT ![p].body = new]
        /\ live' = [n \in Nodes |-> IF n \in At(p, rows[p]) THEN Ui(new) ELSE live[n]]

Stopped(S) ==
    live' = [n \in Nodes |-> IF n \in S /\ live[n].origin = "ui" THEN None ELSE live[n]]

\* A rule of the API in its place is left alone.
Deleted(p) == rows' = [rows EXCEPT ![p] = NoRow] /\ Stopped(At(p, rows[p]))

CanSwitch(a, p, on) ==
    /\ Own(a, p) /\ PortsOk(a, rows[p].body) /\ rows[p].on # on
    /\ on => \A n \in Members[p] \ rows[p].off : live[n] = None
Switched(p, on) ==
    LET r == [rows[p] EXCEPT !.on = on]
    IN  /\ rows' = [rows EXCEPT ![p] = r]
        /\ IF on THEN live' = [n \in Nodes |-> IF n \in At(p, r) THEN Ui(r.body) ELSE live[n]]
           ELSE Stopped(At(p, rows[p]))

\* changeOverride on node n of a group
CanStop(a, p, n, on) ==
    /\ Own(a, p) /\ PortsOk(a, rows[p].body)
    /\ on /\ rows[p].on /\ n \in rows[p].off => live[n] = None
NodeStopped(p, n, on) ==
    LET r == [rows[p] EXCEPT !.off = IF on THEN @ \ {n} ELSE @ \union {n}]
    IN  /\ rows' = [rows EXCEPT ![p] = r]
        /\ IF on THEN live' = [live EXCEPT ![n] = IF n \in At(p, r) THEN Ui(r.body) ELSE @]
           ELSE Stopped(At(p, rows[p]) \intersect {n})
-----------------------------------------------------------------------------
To(a, pc) == [run[a] EXCEPT !.pc = pc]

\* A transaction of a, or a question to the database or the nodes: it succeeds and
\* leaves a's request in state ok, or changes nothing and leaves it in state bad.
Tx(a, can, effect, ok, bad) ==
    \/ /\ can /\ effect
       /\ run' = [run EXCEPT ![a] = ok] /\ UNCHANGED refusals
    \/ /\ ~can
       /\ run' = [run EXCEPT ![a] = bad] /\ UNCHANGED <<rows, live, refusals>>
    \/ /\ refusals > 0 /\ refusals' = refusals - 1
       /\ run' = [run EXCEPT ![a] = [bad EXCEPT !.stuck = @ \/ run[a].pc \in Undoing]]
       /\ UNCHANGED <<rows, live>>

Ask(a, can, ok, bad) == Tx(a, can, UNCHANGED <<rows, live>>, To(a, ok), To(a, bad))

\* A step that cannot go wrong.
Goes(a, r) == run' = [run EXCEPT ![a] = r] /\ UNCHANGED <<rows, live, refusals>>

Sketch(b, on, off) == [body |-> b, on |-> on, owner |-> Nobody, off |-> off]
\* parseRule: a rule that is added is not paused anywhere.
NewRule(b) == Sketch(b, TRUE, {})
AddRequests == {Request("add", "check", Nobody, p, NewRule(b)) : p \in Places, b \in Bodies}
\* importRules; what the file says of overrides, and nothing (Keep) in older files.
ImportRequests == {Request("import", "inspect", p, p, Sketch(b, on, off)) :
                     p \in Places, b \in Bodies, on \in BOOLEAN, off \in (SUBSET Nodes) \union {Keep}}
\* revertToVersion: an import of one rule, without overrides.
RevertRequests == {r \in ImportRequests : r.rule.off = Keep}
CopyRequests == {Request(op, "read", p, q, NoRow) : op \in {"copy", "move"}, p \in Places, q \in Places}
NodeRequests == {Request(op, "list", Nobody, n, NoRow) : op \in {"pauseNode", "resumeNode"}, n \in Nodes}
ApiRequests == {Request(op, "own", Nobody, n, NoRow) : op \in {"apiEdit", "apiDelete"}, n \in Nodes}

Requests ==
    AddRequests \union ImportRequests \union RevertRequests
        \union CopyRequests \union NodeRequests \union ApiRequests

\* placeForKey and placeForAdd choose the places, and a rule is not copied to where it
\* is.  Overrides are read in for a group only, and only administrators change rules of
\* the API.
Allowed(a, r) ==
    /\ r.op \in Kinds
    /\ r.op \in {"copy", "move"} => r.at # r.to
    /\ r.op = "import" /\ r.rule.off # Keep =>
         r.at \in Groups /\ r.rule.off \subseteq Members[r.at]
    /\ r.op \in {"apiEdit", "apiDelete"} => a \in Admins

Begin(a) ==
    /\ run[a] = NoRun
    /\ left > 0 /\ left' = left - 1
    /\ \E r \in Requests :
         /\ Allowed(a, r)
         /\ run' = [run EXCEPT ![a] = [r EXCEPT !.rule.owner = a]]
    /\ was' = [was EXCEPT ![a] = rows]
    /\ UNCHANGED <<rows, live, astray, refusals>>
-----------------------------------------------------------------------------
(* Requests of one transaction.  Those that fail change nothing.           *)

Single(a) ==
    /\ run[a] = NoRun
    /\ left > 0 /\ left' = left - 1
    /\ \E p \in Places :
         \/ "edit" \in Kinds /\ CanEdit(a, p) /\ \E b \in Bodies : Edited(p, b)
         \/ "delete" \in Kinds /\ Own(a, p) /\ Deleted(p)
         \/ \E on \in BOOLEAN : "pause" \in Kinds /\ CanSwitch(a, p, on) /\ Switched(p, on)
         \/ \E n \in Members[p], on \in BOOLEAN :
              "stop" \in Kinds /\ p \in Groups /\ CanStop(a, p, n, on) /\ NodeStopped(p, n, on)
    /\ UNCHANGED <<run, refusals>>
-----------------------------------------------------------------------------
(* Import, revert, copy and move                                           *)

\* Mutant: missing overrides are not taken for none.
InspectKeeps(a) ==
    /\ run[a].pc = "inspect"
    /\ IF rows[run[a].at] = NoRow THEN Ask(a, TRUE, "check", "failed")
       ELSE Ask(a, Own(a, run[a].at), "read", "failed")

\* inspectImport, revertToVersion: an old row is replaced, by its owner or an
\* administrator; otherwise the rule is added.  Only an import looks at the ports of the
\* new rule here.
Inspect(a) ==
    LET r == run[a] IN
    /\ r.pc = "inspect"
    /\ \/ /\ PortsOk(a, r.rule.body) \/ r.rule.off = Keep
          /\ IF rows[r.at] = NoRow
             THEN Tx(a, TRUE, UNCHANGED <<rows, live>>,
                     [r EXCEPT !.pc = "check", !.rule.off = IF @ = Keep THEN {} ELSE @],
                     To(a, "failed"))
             ELSE Ask(a, Own(a, r.at), "read", "failed")
       \/ ~PortsOk(a, r.rule.body) /\ Ask(a, FALSE, "check", "failed")

\* The row copied or moved to place p.
Placed(r, p) ==
    IF p \in Groups THEN [r EXCEPT !.off = @ \intersect Members[p]]
    ELSE [r EXCEPT !.off = {}, !.on = @ /\ p \notin r.off]

\* The row an import or a revert puts in the place of r.
Replaced(new, r) ==
    [body |-> new.body, on |-> r.on, owner |-> r.owner,
     off |-> IF new.off = Keep THEN r.off ELSE new.off]

\* needsRecreate, sameOverrides
Recreate(new, r) == Replaced(new, r).off # r.off \/ new.body.hard # r.body.hard

\* The first half of replaceForwardingRule and of copyRule: a row read, not locked.
Read(a) ==
    LET r == run[a]
        row == rows[r.at]
    IN  /\ r.pc = "read"
        /\ IF r.op = "import"
           THEN Tx(a, Own(a, r.at), UNCHANGED <<rows, live>>,
                   [r EXCEPT !.snap = row, !.rule = Replaced(@, row),
                             !.pc = IF Recreate(r.rule, row) THEN "shadow" ELSE "edit"],
                   To(a, "failed"))
           ELSE Tx(a, Own(a, r.at), UNCHANGED <<rows, live>>,
                   [r EXCEPT !.snap = row, !.rule = Placed(row, r.to),
                             !.pc = IF r.op = "move" /\ Overlap(r.at, r.to) THEN "shadow"
                                    ELSE "check"],
                   To(a, "failed"))

EditInPlace(a) ==
    LET r == run[a] IN
    /\ r.pc = "edit"
    /\ \/ Tx(a, CanEdit(a, r.at), Edited(r.at, r.rule.body), To(a, "ok"), To(a, "failed"))
       \/ Unmergeable(r.at, r.rule.body) /\ Ask(a, FALSE, "ok", "failed")

\* Mutant: nobody looks for a rule of the API before the old row is deleted.
ShadowSkipped(a) == run[a].pc = "shadow" /\ Ask(a, TRUE, "delete", "failed")

\* ensureNotShadowedOnNodes, ensureConnectTimeoutRestorable
Shadow(a) ==
    /\ run[a].pc = "shadow"
    /\ Ask(a, \A n \in At(run[a].at, run[a].snap) : live[n] # Api, "delete", "failed")

\* The old row goes first when old and new have a node in common.
Delete(a) ==
    /\ run[a].pc = "delete"
    /\ Tx(a, Own(a, run[a].at), Deleted(run[a].at), To(a, "check"), To(a, "failed"))

DeletedFirst(r) ==
    r.snap # NoRow /\ (r.op = "import" \/ (r.op = "move" /\ Overlap(r.at, r.to)))
Given(a) == IF DeletedFirst(run[a]) THEN "recheck" ELSE "failed"

\* checkPorts and checkOverlap, before the transaction that adds the row.
Free(p) == \A q \in Places \ {p} : rows[q] # NoRow => ~Overlap(p, q)
Addable(a, p, r) == PortsOk(a, r.body) /\ Free(p)
Check(a) == run[a].pc = "check" /\ Ask(a, Addable(a, run[a].to, run[a].rule), "add", Given(a))

Add(a) ==
    LET r == run[a] IN
    /\ r.pc = "add"
    /\ Tx(a, CanAdd(r.to, r.rule), Added(r.to, r.rule),
          To(a, IF r.op = "move" /\ ~DeletedFirst(r) THEN "remove" ELSE "ok"),
          To(a, Given(a)))

\* The new row could not be added: the old one is put back.
Recheck(a) ==
    run[a].pc = "recheck" /\ Ask(a, Addable(a, run[a].at, run[a].snap), "readd", "failed")

\* Mutant: the old row is put back without its overrides.
ReaddPlain(a) ==
    LET r == [run[a].snap EXCEPT !.off = {}] IN
    run[a].pc = "readd" /\ Tx(a, CanAdd(run[a].at, r), Added(run[a].at, r),
                              To(a, "failed"), To(a, "failed"))
Readd(a) ==
    LET r == run[a].snap IN
    run[a].pc = "readd" /\ Tx(a, CanAdd(run[a].at, r), Added(run[a].at, r),
                              To(a, "failed"), To(a, "failed"))

\* A move to a place that has no node in common with the old one.
Remove(a) ==
    /\ run[a].pc = "remove"
    /\ Tx(a, Own(a, run[a].at), Deleted(run[a].at), To(a, "ok"), To(a, "unmake"))
Unmake(a) ==
    /\ run[a].pc = "unmake"
    /\ Tx(a, Own(a, run[a].to), Deleted(run[a].to), To(a, "failed"), To(a, "failed"))
-----------------------------------------------------------------------------
(* pauseNode: what is to do is decided on rows read at the start.          *)

\* Mutant: the groups of the node are forgotten.
HereOnly(a, n, on) == {p \in Places : p = n /\ Own(a, p) /\ rows[p].on # on}

Here(a, n, on) ==
    {p \in Places : /\ n \in Members[p] /\ Own(a, p)
                    /\ IF p = n THEN rows[p].on # on ELSE (n \in rows[p].off) = on}

List(a) ==
    LET r == run[a] IN
    /\ r.pc = "list"
    /\ Goes(a, [r EXCEPT !.pc = "each", !.todo = Here(a, r.to, r.op = "resumeNode")])

\* One after the other; an error of one is noted and does not stop the rest.
Each(a) ==
    LET r == run[a]
        on == r.op = "resumeNode" IN
    /\ r.pc = "each"
    /\ IF r.todo = {} THEN Goes(a, To(a, "ok"))
       ELSE \E p \in r.todo :
              LET rest == [r EXCEPT !.todo = @ \ {p}]
                  note == [rest EXCEPT !.stuck = TRUE]
              IN  IF p = r.to
                  THEN Tx(a, CanSwitch(a, p, on), Switched(p, on), rest, note)
                  ELSE Tx(a, CanStop(a, p, r.to, on), NodeStopped(p, r.to, on), rest, note)
-----------------------------------------------------------------------------
(* Rules of the API, on one node: currentApiRule, editApiRule,             *)
(* deleteApiRule.                                                          *)

\* Only the row of the node itself is looked for, not those of its groups.
OwnRow(a) == run[a].pc = "own" /\ Ask(a, rows[run[a].to] = NoRow, "status", "failed")

Status(a) == run[a].pc = "status" /\ Ask(a, live[run[a].to] # None, "write", "failed")

\* PATCH or DELETE of whatever rule has the key by now.
Write(a) ==
    LET n == run[a].to IN
    /\ run[a].pc = "write"
    /\ Tx(a, TRUE,
          /\ UNCHANGED rows
          /\ live' = [live EXCEPT ![n] = IF run[a].op = "apiDelete" THEN None
                                         ELSE [@ EXCEPT !.body = Keep]],
          To(a, "ok"), To(a, "failed"))

Return(a) ==
    /\ run[a].pc \in {"ok", "failed"}
    /\ run' = [run EXCEPT ![a] = NoRun]
    /\ was' = [was EXCEPT ![a] = Nobody]
    /\ UNCHANGED <<rows, live, astray, left, refusals>>

\* A client of the rproxy API adds or deletes its own rule.
Client(n) ==
    /\ "client" \in Kinds
    /\ left > 0 /\ left' = left - 1
    /\ live[n] \in {None, Api}
    /\ live' = [live EXCEPT ![n] = IF @ = Api THEN None ELSE Api]
    /\ UNCHANGED <<rows, run, refusals>>
-----------------------------------------------------------------------------
Step(a) ==
    \/ Inspect(a) \/ Read(a) \/ EditInPlace(a) \/ Shadow(a) \/ Delete(a) \/ Check(a) \/ Add(a)
    \/ Recheck(a) \/ Readd(a) \/ Remove(a) \/ Unmake(a)
    \/ List(a) \/ Each(a)
    \/ OwnRow(a) \/ Status(a) \/ Write(a)

\* Whose request knows the rows it began with after a step of S.
Watched(S) ==
    was' = [a \in Actors |-> IF a \in S \/ <<rows, live>>' = <<rows, live>> THEN was[a] ELSE Nobody]

\* An API client's rule that goes leaves a UI rule of the database missing; a
\* change meant for it may hit a UI rule.
Strays(S) == astray' = astray \union {n \in S : \E p \in Places : n \in At(p, rows[p])}

\* Two rules may have a node in common already: by requests at the same time, or
\* because a group has got another node in the configuration file since.
Init ==
    /\ rows \in [Places -> {NoRow} \union Rows]
    /\ \A p \in Places :
         /\ rows[p].off \subseteq (IF p \in Groups THEN Members[p] ELSE {})
         /\ rows[p].owner \notin Admins
         /\ \A q \in Places \ {p} : At(p, rows[p]) \intersect At(q, rows[q]) = {}
         /\ Apart /\ rows[p] # NoRow => Free(p)
    /\ live \in [Nodes -> {None, Api} \union {Ui(b) : b \in Bodies}]
    /\ \A n \in Nodes : live[n] # Api =>
         live[n] = IF \E p \in Places : n \in At(p, rows[p])
                   THEN Ui(rows[CHOOSE p \in Places : n \in At(p, rows[p])].body) ELSE None
    /\ run = [a \in Actors |-> NoRun]
    /\ was = [a \in Actors |-> Nobody]
    /\ astray = {}
    /\ left = MaxRequests
    /\ refusals = MaxRefusals

Next ==
    \/ \E a \in Actors :
         \/ Begin(a) \/ Return(a)
         \/ Single(a) /\ Watched({}) /\ UNCHANGED astray
         \/ /\ Step(a) /\ Watched({a}) /\ UNCHANGED left
            /\ Strays(IF run[a].pc = "write" THEN {run[a].to} ELSE {})
    \/ \E n \in Nodes : Client(n) /\ Watched({}) /\ Strays({n})

Spec == Init /\ [][Next]_vars
-----------------------------------------------------------------------------
Ops == {"none", "add", "import", "copy", "move", "pauseNode", "resumeNode", "apiEdit", "apiDelete"}
Pcs == {"idle", "inspect", "read", "edit", "shadow", "delete", "check", "add", "recheck", "readd",
        "remove", "unmake", "list", "each", "own", "status", "write", "ok", "failed"}

\* A row, or as much of it as the request knows so far.
Sketches == [body : Bodies \union {Keep}, on : BOOLEAN, owner : Actors \union {Nobody},
             off : (SUBSET Nodes) \union {Keep}]
Runs == [op : Ops, pc : Pcs, at : Places \union {Nobody}, to : Places \union {Nobody},
         rule : Sketches, snap : Sketches, todo : SUBSET Places, stuck : BOOLEAN]

TypeOK ==
    /\ run \in [Actors -> Runs]
    /\ rows \in [Places -> {NoRow} \union Rows]
    /\ live \in [Nodes -> {None, Api, Ui(Keep)} \union {Ui(b) : b \in Bodies}]
    /\ was \in [Actors -> {Nobody} \union [Places -> {NoRow} \union Rows]]
    /\ astray \subseteq Nodes
    /\ left \in 0..MaxRequests /\ refusals \in 0..MaxRefusals

\* Whatever requests overlap, a node runs the rule of the one row that wants it
\* there, and no rule of the UI when no row does: rows read without a lock, and
\* places that came to overlap because checkOverlap is no part of the transaction,
\* never leave a node with a rule of another row.  Rules of an API client may be
\* in the way; where they come and go in between, nothing is said.
RunningIsWritten ==
    \A n \in Nodes \ astray :
        LET here == {p \in Places : n \in At(p, rows[p])}
        IN  /\ live[n].origin = "ui" => here # {}
            /\ \A p \in here : here = {p} /\ live[n] \in {Api, Ui(rows[p].body)}

\* What a request that ends well makes of the rows w.
Effect(r, w) ==
    LET old == w[r.at]
        all == {p \in Places : r.to \in Members[p] /\ w[p] # NoRow} IN
    CASE r.op = "add" -> [w EXCEPT ![r.to] = r.rule]
      [] r.op = "import" ->
           [w EXCEPT ![r.at] = IF old = NoRow THEN r.rule
                               ELSE [r.rule EXCEPT !.on = old.on, !.owner = old.owner]]
      [] r.op = "copy" -> [w EXCEPT ![r.to] = Placed(old, r.to)]
      [] r.op = "move" -> [w EXCEPT ![r.to] = Placed(old, r.to), ![r.at] = NoRow]
      [] OTHER -> w

\* Whether checkPorts and checkOverlap would let the row of p in again.
Restorable(a, p, w) ==
    /\ PortsOk(a, w[p].body)
    /\ \A q \in Places \ {p} : w[q] # NoRow => ~Overlap(p, q)

\* For as long as nobody else changes the key, a request of many transactions is
\* like one: when it ends well it has done all it is for (a replaced rule keeps its
\* owner and stays paused or not, a moved one is in one place, a node that was
\* stopped runs none of the actor's rules), and when it fails everything is as it
\* was, unless taking something back was refused too: by a fault, or by the checks
\* of a new rule, which the old row has to pass as well (see OldRuleIsBack).
AsIfAtomic ==
    \A a \in Actors :
        LET r == run[a]
            w == was[a] IN
        /\ r.op \in {"add", "import", "copy", "move"} /\ w # Nobody
           => /\ r.pc = "ok" => rows = Effect(r, w)
              /\ r.pc = "failed" /\ ~r.stuck =>
                   \/ rows = w
                   \/ r.op \in {"import", "move"} /\ ~Restorable(a, r.at, w)
        /\ r.op = "pauseNode" /\ r.pc = "ok" /\ ~r.stuck /\ w # Nobody
           => \A p \in Places : Own(a, p) => r.to \notin At(p, rows[p])

\* Nobody but an administrator changes, deletes or puts back a row of another
\* owner, although rows are read, judged and written at different times
\* (ownerClause in every transaction).
OwnRowsOnly ==
    [][\A a \in Actors \ Admins, p \in Places :
         run'[a] # run[a] /\ rows'[p] # rows[p]
         => {rows[p].owner, rows'[p].owner} \subseteq {a, Nobody}]_vars

\* A request for a rule of the API does not touch a rule of the UI
\* ([forward].ts:1359).
ApiRequestsSpareUi ==
    [][\A n \in Nodes, a \in Actors :
         run[a].pc = "write" /\ run'[a].pc # "write" /\ live[n].origin = "ui" => live'[n] = live[n]]_vars

\* When a replaced or moved rule cannot be made, the old one is put back
\* (README.md:596, [forward].ts:1521).
OldRuleIsBack ==
    \A a \in Actors :
        LET r == run[a] IN
        r.op \in {"import", "move"} /\ r.pc = "failed" /\ ~r.stuck /\ was[a] # Nobody
        => rows = was[a]
=============================================================================

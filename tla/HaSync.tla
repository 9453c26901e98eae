------------------------------- MODULE HaSync -------------------------------
(***************************************************************************)
(* Keeping the nodes of act/standby groups equal to the database.  Every   *)
(* UI process has a timer round, in which it visits every node while it    *)
(* holds the named lock of the database, and sends again what differs;     *)
(* keepalived's notification and the button on the screen start the same   *)
(* visit of one node without the named lock.  A visit reads the rules,     *)
(* then what the node runs, then the overrides, all without a lock, and    *)
(* then locks the row of each rule that seemed to differ, reads it again   *)
(* and resends it.                                                         *)
(*                                                                         *)
(* Users change rules at the same time (User*: a transaction under the row *)
(* lock that changes the nodes before the row; RulePlacement has its       *)
(* detail), API clients and restarts change what a node runs (External),   *)
(* calls fail or land late, connections to the database and processes die. *)
(* All of these are counted by events, which MaxEvents bounds.             *)
(*                                                                         *)
(* suspect and streak are history: the slots that something other than a   *)
(* completed operation has touched, and how many visits in a row have      *)
(* ended with a failure for a slot.                                        *)
(***************************************************************************)
EXTENDS Naturals

CONSTANTS
    Procs,      \* UI processes
    Kinds,      \* how visits are started: "timer", "notify"
    Nodes,      \* the nodes of the group
    Rules,      \* the ids of its rules
    AutoRules,  \* those in groups with auto_resend
    Bodies,     \* the contents a rule can have
    Overrides,  \* the contents an override can give it, or Keep
    Keep, NoRow, None, Api, Static, Free, User, Nil,
    WarnCount,  \* HA_FAILURE_WARN_COUNT; failures are counted up to it
    MaxEvents   \* bound: changes by users and others, and faults

ASSUME HaSyncAssumption ==
    /\ Kinds \subseteq {"timer", "notify"}
    /\ AutoRules \subseteq Rules
    /\ Keep \in Overrides /\ Overrides \subseteq Bodies \union {Keep} /\ Keep \notin Bodies
    /\ None \notin Bodies /\ Api \notin Bodies /\ Static \notin Bodies
    /\ None # Api /\ None # Static /\ Api # Static
    /\ Nil \notin Procs /\ Nil \notin Nodes /\ Nil \notin Rules
    /\ Free # User /\ Free \notin Procs \X Kinds /\ User \notin Procs \X Kinds
    /\ NoRow \notin [body : Bodies, paused : BOOLEAN, ov : [Nodes -> Overrides]]
    /\ WarnCount \in Nat \ {0} /\ MaxEvents \in Nat

VARIABLES
    row,        \* forward_rules and forward_rule_overrides, committed
    draft,      \* what the transaction of a user has written
    lock,       \* who holds the lock of a row
    named,      \* who holds GET_LOCK('rproxy_ui_ha_sync')
    live,       \* what a node runs for a rule
    worker,     \* the visits under way
    failures,   \* per process: the count of the entries of state().failures
    orphans,    \* calls given up by the UI that may still be carried out
    events, suspect, streak

vars == <<row, draft, lock, named, live, worker, failures, orphans, events, suspect, streak>>
-----------------------------------------------------------------------------
Slots == Nodes \X Rules
Workers == Procs \X Kinds

Definitions == [body : Bodies, paused : BOOLEAN, ov : [Nodes -> Overrides]]
NoOverride == [n \in Nodes |-> Keep]
Plain(d) == IF d = NoRow THEN NoRow ELSE [d EXCEPT !.ov = NoOverride]
Contents == Bodies \union {None, Api, Static}

\* effectiveRule, and nothing for a paused rule: what node n should run.
Active(d) == d # NoRow /\ ~d.paused
Want(d, n) == IF ~Active(d) THEN None ELSE IF d.ov[n] = Keep THEN d.body ELSE d.ov[n]

\* A rule of an API client or rule set in the place of ours is left alone.
Agrees(v, want) == v = want \/ v = Api

Scope(w) == IF w[2] = "timer" THEN AutoRules ELSE Rules

PCs == {"idle", "next", "list", "overrides", "todo", "look", "change", "commit"}
Resending == {"look", "change", "commit"}
Ops == {"none", "add", "delete", "modify", "recreate"}
WorkerStates == [pc : PCs, nodes : SUBSET Nodes, node : Nodes \union {Nil},
                 seen : [Rules -> Definitions \union {NoRow}], listed : [Rules -> Contents],
                 todo : SUBSET Rules, rule : Rules \union {Nil},
                 want : Bodies \union {None}, op : Ops, was : Contents]
Orphans == [slot : Slots, op : Ops, want : Bodies \union {None}, was : Contents]

Resting == [pc |-> "idle", nodes |-> {}, node |-> Nil, seen |-> [r \in Rules |-> NoRow],
            listed |-> [r \in Rules |-> None], todo |-> {}, rule |-> Nil,
            want |-> None, op |-> "none", was |-> None]

Slot(w) == <<worker[w].node, worker[w].rule>>
Holds(w) == lock[worker[w].rule] = w
Event == events < MaxEvents /\ events' = events + 1
Quiet == UNCHANGED events
-----------------------------------------------------------------------------
Init ==
    /\ row \in [Rules -> Definitions \union {NoRow}]
    /\ draft = row
    /\ lock = [r \in Rules |-> Free]
    /\ named = Nil
    /\ live = [s \in Slots |-> Want(row[s[2]], s[1])]
    /\ worker = [w \in Workers |-> Resting]
    /\ failures = [p \in Procs |-> [s \in Slots |-> 0]]
    /\ orphans = {}
    /\ events = 0
    /\ suspect = {}
    /\ streak = failures

(***************************************************************************)
(* A visit.                                                                *)
(***************************************************************************)
Database == <<row, draft>>
Counts == <<failures, streak>>

\* The timer of p: not while its last round runs, and only with the named lock.
StartRound(p) ==
    /\ "timer" \in Kinds
    /\ worker[<<p, "timer">>].pc = "idle"
    /\ named = Nil
    /\ named' = p
    /\ worker' = [worker EXCEPT ![<<p, "timer">>] = [Resting EXCEPT !.pc = "next", !.nodes = Nodes]]
    /\ Quiet
    /\ UNCHANGED <<Database, lock, live, Counts, orphans, suspect>>

\* POST /ha/notify, or the button: one node, at once.
StartNotify(p, n) ==
    /\ "notify" \in Kinds
    /\ worker[<<p, "notify">>].pc = "idle"
    /\ worker' = [worker EXCEPT ![<<p, "notify">>] = [Resting EXCEPT !.pc = "next", !.nodes = {n}]]
    /\ Quiet
    /\ UNCHANGED <<Database, lock, named, live, Counts, orphans, suspect>>

\* Mutant: a connection whose RELEASE_LOCK failed goes back to the pool.
EndKeepsLock(w) ==
    /\ worker[w].pc = "next" /\ worker[w].nodes = {}
    /\ worker' = [worker EXCEPT ![w] = Resting]
    /\ \/ named' = IF w = <<named, "timer">> THEN Nil ELSE named
       \/ named' = named
    /\ Quiet
    /\ UNCHANGED <<Database, lock, live, Counts, orphans, suspect>>

\* RELEASE_LOCK; where it fails the connection is destroyed, which frees the
\* lock as well.  A lock already lost may be another process's by now.
End(w) ==
    /\ worker[w].pc = "next" /\ worker[w].nodes = {}
    /\ worker' = [worker EXCEPT ![w] = Resting]
    /\ named' = IF w = <<named, "timer">> THEN Nil ELSE named
    /\ Quiet
    /\ UNCHANGED <<Database, lock, live, Counts, orphans, suspect>>

\* The visit of node n by w has found nothing wrong with the other rules.
FoundWell(w, n, todo) ==
    streak' = [streak EXCEPT ![w[1]] = [s \in Slots |->
                  IF s[1] = n /\ s[2] \in Scope(w) \ todo THEN 0 ELSE @[s]]]

\* inspectNode reads the rules of the node's groups; without any it is done.
ReadRules(w) ==
    /\ worker[w].pc = "next"
    /\ \E n \in worker[w].nodes :
         LET rules == [r \in Rules |-> IF r \in Scope(w) THEN Plain(row[r]) ELSE NoRow] IN
         \/ /\ \A r \in Rules : rules[r] = NoRow
            /\ worker' = [worker EXCEPT ![w].nodes = @ \ {n}]
            /\ FoundWell(w, n, {})
         \/ /\ \E r \in Rules : rules[r] # NoRow
            /\ worker' = [worker EXCEPT ![w] = [worker[w] EXCEPT !.pc = "list", !.nodes = @ \ {n},
                                                                  !.node = n, !.seen = rules]]
            /\ UNCHANGED streak
    /\ Quiet
    /\ UNCHANGED <<Database, lock, named, live, failures, orphans, suspect>>

\* GET /rules of the node.
List(w) ==
    /\ worker[w].pc = "list"
    /\ worker' = [worker EXCEPT ![w].listed = [r \in Rules |-> live[<<worker[w].node, r>>]],
                                ![w].pc = "overrides"]
    /\ Quiet
    /\ UNCHANGED <<Database, lock, named, live, Counts, orphans, suspect>>

\* The node does not answer: nothing to do there, readiness unknown.
ListFails(w) ==
    /\ worker[w].pc = "list"
    /\ worker' = [worker EXCEPT ![w] = [Resting EXCEPT !.pc = "next", !.nodes = worker[w].nodes]]
    /\ Event
    /\ UNCHANGED <<Database, lock, named, live, Counts, orphans, suspect>>

\* A query of inspectNode fails and ends the whole round (runHaSyncOnce).
QueryFails(w) ==
    /\ worker[w].pc \in {"next", "overrides"}
    /\ worker' = [worker EXCEPT ![w] = [Resting EXCEPT !.pc = "next", !.nodes = {}]]
    /\ Event
    /\ UNCHANGED <<Database, lock, named, live, Counts, orphans, suspect>>

\* Mutant: only rules that should run are compared.
DiffersActive(w, r) ==
    LET k == worker[w]
        now == IF row[r] = NoRow THEN k.seen[r] ELSE [k.seen[r] EXCEPT !.ov = row[r].ov]
    IN  Active(k.seen[r]) /\ ~Agrees(k.listed[r], Want(now, k.node))

\* What the visit takes for different, from the rules it read first and the
\* overrides it reads now.
Differs(w, r) ==
    LET k == worker[w]
        now == IF row[r] = NoRow THEN k.seen[r] ELSE [k.seen[r] EXCEPT !.ov = row[r].ov]
    IN  k.seen[r] # NoRow /\ ~Agrees(k.listed[r], Want(now, k.node))

ReadOverrides(w) ==
    /\ worker[w].pc = "overrides"
    /\ LET todo == {r \in Rules : Differs(w, r)} IN
         /\ worker' = [worker EXCEPT ![w] = [Resting EXCEPT !.nodes = worker[w].nodes,
                                                            !.node = worker[w].node, !.todo = todo,
                                                            !.pc = IF todo = {} THEN "next" ELSE "todo"]]
         /\ FoundWell(w, worker[w].node, todo)
    /\ Quiet
    /\ UNCHANGED <<Database, lock, named, live, failures, orphans, suspect>>

(***************************************************************************)
(* resendLocked and resendOne for one rule of the visit.                   *)
(***************************************************************************)
Onwards(w, r) == [Resting EXCEPT !.nodes = worker[w].nodes, !.node = worker[w].node,
                               !.todo = worker[w].todo \ {r},
                               !.pc = IF worker[w].todo = {r} THEN "next" ELSE "todo"]

\* Mutant: the connection goes back to the pool without ROLLBACK or COMMIT.
UnlockNever(w, r) == lock' = lock

\* The row lock goes with the transaction, whichever way it ends.
Unlock(w, r) == lock' = [lock EXCEPT ![r] = IF @ = w THEN Free ELSE @]

\* syncNode's bookkeeping for rule r: an entry goes when a resend succeeds and
\* counts one more when it fails.
Succeed(w, r) ==
    LET s == <<worker[w].node, r>> IN
    /\ failures' = [failures EXCEPT ![w[1]][s] = 0]
    /\ streak' = [streak EXCEPT ![w[1]][s] = 0]
    /\ worker' = [worker EXCEPT ![w] = Onwards(w, r)]

OneMore(n) == IF n < WarnCount THEN n + 1 ELSE n
Fail(w, r) ==
    LET s == <<worker[w].node, r>> IN
    /\ failures' = [failures EXCEPT ![w[1]][s] = OneMore(@)]
    /\ streak' = [streak EXCEPT ![w[1]][s] = OneMore(@)]
    /\ worker' = [worker EXCEPT ![w] = Onwards(w, r)]

\* Mutant: the override of the node is not applied.
LockRowPlain(w) ==
    /\ worker[w].pc = "todo"
    /\ \E r \in worker[w].todo :
         /\ lock[r] = Free
         /\ IF row[r] = NoRow
            THEN Succeed(w, r) /\ UNCHANGED lock
            ELSE /\ lock' = [lock EXCEPT ![r] = w]
                 /\ worker' = [worker EXCEPT ![w] =
                       [@ EXCEPT !.pc = "look", !.rule = r,
                                 !.want = Want(Plain(row[r]), worker[w].node)]]
                 /\ UNCHANGED Counts
    /\ Quiet
    /\ UNCHANGED <<Database, named, live, orphans, suspect>>

\* SELECT ... FOR UPDATE, and the overrides.
LockRow(w) ==
    /\ worker[w].pc = "todo"
    /\ \E r \in worker[w].todo :
         /\ lock[r] = Free
         /\ IF row[r] = NoRow
            THEN Succeed(w, r) /\ UNCHANGED lock
            ELSE /\ lock' = [lock EXCEPT ![r] = w]
                 /\ worker' = [worker EXCEPT ![w] =
                       [@ EXCEPT !.pc = "look", !.rule = r,
                                 !.want = Want(row[r], worker[w].node)]]
                 /\ UNCHANGED Counts
    /\ Quiet
    /\ UNCHANGED <<Database, named, live, orphans, suspect>>

\* No connection, or the lock is waited for too long.
LockFails(w) ==
    /\ worker[w].pc = "todo"
    /\ \E r \in worker[w].todo : Fail(w, r)
    /\ Event
    /\ UNCHANGED <<Database, lock, named, live, orphans, suspect>>

\* The changes resendOne can decide on, having found v where want should be.
\* Whether PATCH will do depends on the fields that differ.
Choices(v, want) == IF want = None THEN {"delete"}
                    ELSE IF v = None THEN {"add"} ELSE {"modify", "recreate"}

\* GET of the rule: static is an error, another's rule or no difference the end.
Look(w) ==
    /\ worker[w].pc = "look"
    /\ LET k == worker[w]
           v == live[Slot(w)]
       IN  \/ /\ v = Static
              /\ Fail(w, k.rule) /\ Unlock(w, k.rule)
              /\ UNCHANGED suspect
           \/ /\ Agrees(v, k.want)
              /\ Succeed(w, k.rule) /\ Unlock(w, k.rule)
              /\ suspect' = IF Holds(w) THEN suspect \ {Slot(w)} ELSE suspect
           \/ /\ v # Static /\ ~Agrees(v, k.want)
              /\ \E op \in Choices(v, k.want) :
                   worker' = [worker EXCEPT ![w] = [@ EXCEPT !.pc = "change", !.op = op, !.was = v]]
              /\ UNCHANGED <<lock, Counts, suspect>>
    /\ Quiet
    /\ UNCHANGED <<Database, named, live, orphans>>

\* Answers of rproxy to a change: the new content of the slot.  A PATCH that
\* meets other content than the one it was computed from may leave a mixture.
Carried(v, op, want, was) ==
    CASE op = "add" -> IF v = None THEN {want} ELSE {}
      [] op \in {"delete", "recreate"} -> IF v \in {None, Static} THEN {} ELSE {None}
      [] OTHER -> IF v \in {None, Static} THEN {}
                  ELSE IF v = Api THEN {Api}
                  ELSE IF v = was THEN {want} ELSE Bodies    \* modify

\* The slot is as it should be once the last call is answered; before, and
\* when the row is no longer locked, nothing can be said of it.
Mark(w) == IF Holds(w) /\ worker[w].op # "recreate" /\ live'[Slot(w)] = worker[w].want
           THEN suspect \ {Slot(w)} ELSE suspect \union {Slot(w)}

Change(w) ==
    /\ worker[w].pc = "change"
    /\ LET k == worker[w] IN
       \E v \in Carried(live[Slot(w)], k.op, k.want, k.was) :
         /\ live' = [live EXCEPT ![Slot(w)] = v]
         /\ worker' = [worker EXCEPT ![w] = IF k.op = "recreate" THEN [@ EXCEPT !.op = "add"]
                                            ELSE [@ EXCEPT !.pc = "commit"]]
    /\ suspect' = Mark(w)
    /\ Quiet
    /\ UNCHANGED <<Database, lock, named, Counts, orphans>>

\* rproxy refuses the change, because of what it holds or (an event) otherwise.
ChangeRefused(w) ==
    /\ worker[w].pc = "change"
    /\ \/ /\ Carried(live[Slot(w)], worker[w].op, worker[w].want, worker[w].was) = {}
          /\ Quiet
       \/ Event
    /\ Fail(w, worker[w].rule) /\ Unlock(w, worker[w].rule)
    /\ UNCHANGED <<Database, named, live, orphans, suspect>>

\* No answer in time: the call may still be carried out, now or later.
Orphan(w) == [slot |-> Slot(w), op |-> worker[w].op, want |-> worker[w].want, was |-> worker[w].was]
ChangeTimesOut(w) ==
    /\ worker[w].pc = "change"
    /\ Event
    /\ orphans' = orphans \union {Orphan(w)}
    /\ suspect' = suspect \union {Slot(w)}
    /\ Fail(w, worker[w].rule) /\ Unlock(w, worker[w].rule)
    /\ UNCHANGED <<Database, named, live>>

\* The history entry and COMMIT; without its connection the transaction is lost.
Commit(w) ==
    /\ worker[w].pc = "commit"
    /\ IF Holds(w) THEN Succeed(w, worker[w].rule) ELSE Fail(w, worker[w].rule)
    /\ Unlock(w, worker[w].rule)
    /\ Quiet
    /\ UNCHANGED <<Database, named, live, orphans, suspect>>

CommitFails(w) ==
    /\ worker[w].pc \in {"look", "commit"}      \* or the GET before
    /\ Event
    /\ Fail(w, worker[w].rule) /\ Unlock(w, worker[w].rule)
    /\ UNCHANGED <<Database, named, live, orphans, suspect>>

(***************************************************************************)
(* What else happens.                                                      *)
(***************************************************************************)
\* The connection with the named lock, or with the lock of a row, is lost.
LoseNamed ==
    /\ named # Nil
    /\ Event
    /\ named' = Nil
    /\ UNCHANGED <<Database, lock, live, worker, Counts, orphans, suspect>>

LoseRow(r) ==
    /\ lock[r] \in Workers
    /\ Event
    /\ lock' = [lock EXCEPT ![r] = Free]
    /\ UNCHANGED <<Database, named, live, worker, Counts, orphans, suspect>>

\* A UI process dies and is started again; a call it was waiting for may land.
Crash(p) ==
    /\ Event
    /\ LET mine == {w \in Workers : w[1] = p} IN
         /\ orphans' = orphans \union {Orphan(w) : w \in {x \in mine : worker[x].pc = "change"}}
         /\ worker' = [w \in Workers |-> IF w \in mine THEN Resting ELSE worker[w]]
         /\ lock' = [r \in Rules |-> IF lock[r] \in mine THEN Free ELSE lock[r]]
    /\ named' = IF named = p THEN Nil ELSE named
    /\ failures' = [failures EXCEPT ![p] = [s \in Slots |-> 0]]
    /\ streak' = [streak EXCEPT ![p] = [s \in Slots |-> 0]]
    /\ UNCHANGED <<Database, live, suspect>>

OrphanLands(o) ==
    /\ orphans' = orphans \ {o}
    /\ \E v \in Carried(live[o.slot], o.op, o.want, o.was) : live' = [live EXCEPT ![o.slot] = v]
    /\ suspect' = suspect \union {o.slot}
    /\ Quiet
    /\ UNCHANGED <<Database, lock, named, worker, Counts>>

\* API clients, rule sets, static configuration, a node that lost a rule.
External(s, v) ==
    /\ live[s] # v
    /\ Event
    /\ live' = [live EXCEPT ![s] = v]
    /\ suspect' = suspect \union {s}
    /\ UNCHANGED <<Database, lock, named, worker, Counts, orphans>>

\* A user adds, changes, pauses or deletes rule r: row lock, nodes, then the
\* row.  What others run under the key stays, and refuses an active rule.
UserApply(r, d) ==
    /\ lock[r] = Free /\ row[r] # d
    /\ Active(d) => \A n \in Nodes : live[<<n, r>>] \notin {Api, Static}
    /\ Event
    /\ lock' = [lock EXCEPT ![r] = User]
    /\ draft' = [draft EXCEPT ![r] = d]
    /\ live' = [s \in Slots |-> IF s[2] = r /\ live[s] \notin {Api, Static}
                                THEN Want(d, s[1]) ELSE live[s]]
    /\ UNCHANGED <<row, named, worker, Counts, orphans, suspect>>

UserCommit(r) ==
    /\ lock[r] = User
    /\ lock' = [lock EXCEPT ![r] = Free]
    /\ row' = [row EXCEPT ![r] = draft[r]]
    /\ Quiet
    /\ UNCHANGED <<draft, named, live, worker, Counts, orphans, suspect>>

\* A failure takes the change back from every node, except where that fails too.
UserRollback(r, lost) ==
    /\ lock[r] = User
    /\ Event
    /\ lock' = [lock EXCEPT ![r] = Free]
    /\ draft' = [draft EXCEPT ![r] = row[r]]
    /\ live' = [s \in Slots |-> IF s[2] = r /\ s[1] \notin lost /\ live[s] \notin {Api, Static}
                                THEN Want(row[r], s[1]) ELSE live[s]]
    /\ suspect' = suspect \union {s \in Slots : s[2] = r /\ s[1] \in lost}
    /\ UNCHANGED <<row, named, worker, Counts, orphans>>
-----------------------------------------------------------------------------
Step(w) ==
    \/ End(w) \/ ReadRules(w) \/ List(w) \/ ReadOverrides(w)
    \/ Look(w) \/ Change(w) \/ ChangeRefused(w) \/ Commit(w)

Failure(w) ==
    \/ ListFails(w) \/ QueryFails(w) \/ LockFails(w)
    \/ ChangeTimesOut(w) \/ CommitFails(w)

Environment ==
    \/ LoseNamed
    \/ \E r \in Rules : LoseRow(r) \/ UserCommit(r)
    \/ \E r \in Rules, d \in Definitions \union {NoRow} : UserApply(r, d)
    \/ \E r \in Rules, lost \in SUBSET Nodes : UserRollback(r, lost)
    \/ \E p \in Procs : Crash(p)
    \/ \E o \in orphans : OrphanLands(o)
    \/ \E s \in Slots, v \in Contents : External(s, v)

Next ==
    \/ \E p \in Procs : StartRound(p) \/ \E n \in Nodes : StartNotify(p, n)
    \/ \E w \in Workers : Step(w) \/ LockRow(w) \/ Failure(w)
    \/ Environment

Spec == Init /\ [][Next]_vars

\* Timers go off again and again; every call and every query ends; waiting
\* transactions get a row lock in the order they asked; users' transactions
\* end (LockReleased of RulePlacement).
Fairness ==
    /\ \A p \in Procs : WF_vars(StartRound(p))
    /\ \A w \in Workers : WF_vars(Step(w)) /\ SF_vars(LockRow(w))
    /\ \A r \in Rules : WF_vars(UserCommit(r))
LiveSpec == Spec /\ Fairness
-----------------------------------------------------------------------------
TypeOK ==
    /\ row \in [Rules -> Definitions \union {NoRow}]
    /\ draft \in [Rules -> Definitions \union {NoRow}]
    /\ lock \in [Rules -> Workers \union {Free, User}]
    /\ named \in {p \in Procs : <<p, "timer">> \in Workers} \union {Nil}
    /\ live \in [Slots -> Contents]
    /\ worker \in [Workers -> WorkerStates]
    /\ \A w \in Workers :
         /\ worker[w].pc \in {"list", "overrides", "todo"} \union Resending => worker[w].node \in Nodes
         /\ worker[w].pc \in Resending => worker[w].rule \in Rules
    /\ orphans \subseteq Orphans
    /\ failures \in [Procs -> [Slots -> 0..WarnCount]]
    /\ streak \in [Procs -> [Slots -> 0..WarnCount]]
    /\ events \in 0..MaxEvents
    /\ suspect \subseteq Slots

\* A slot that nothing else has touched since the last completed operation on
\* it runs what the committed row says, whenever the row is not locked: a
\* resend (hasync.ts:125) that reports success has sent what the row said
\* then, however old the visit's first look was.
SlotsAgree ==
    \A s \in Slots \ suspect : lock[s[2]] = Free => Agrees(live[s], Want(row[s[2]], s[1]))

\* The named lock is only held by a process in a round (hasync.ts:212-223):
\* no process that has finished keeps the others from theirs.
NamedLockInRound == named # Nil => worker[<<named, "timer">>].pc # "idle"

\* A row is locked for as long as it is being resent, by the visit that sends
\* what the row says.
HolderOk ==
    \A r \in Rules, w \in Workers : lock[r] = w =>
        /\ worker[w].pc \in Resending /\ worker[w].rule = r
        /\ worker[w].want = Want(row[r], worker[w].node)

\* While a user's transaction holds the row, the nodes are ahead of it.
SlotOk ==
    \A s \in Slots \ suspect :
        Agrees(live[s], Want(IF lock[s[2]] = User THEN draft[s[2]] ELSE row[s[2]], s[1]))

\* The inductive invariant.
IInv == TypeOK /\ HolderOk /\ SlotOk /\ NamedLockInRound

\* Once users, others and faults are quiet, every rule of the database with
\* auto_resend runs as defined on every node (hasync.ts:162), unless rproxy
\* reserves its key for another.  What a node runs without a row is not looked at.
Settled(s) == row[s[2]] # NoRow => live[s] = Static \/ Agrees(live[s], Want(row[s[2]], s[1]))
Converges == <>[](\A s \in Nodes \X AutoRules : Settled(s))

\* README.md:599 and lib.ts:471: the dashboard warns of a rule that has failed
\* to be resent WarnCount times in a row.
WarnedFailuresInARow ==
    \A p \in Procs, s \in Slots : failures[p][s] = WarnCount => streak[p][s] = WarnCount
=============================================================================

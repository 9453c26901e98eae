--------------------------- MODULE HaSyncProofs ---------------------------
(***************************************************************************)
(* The inductive invariant of HaSync: whatever a visit saw at first, a     *)
(* locked row is resent as it is (HolderOk), and a slot nothing else has   *)
(* touched agrees with the row, or, while a user's transaction runs, with  *)
(* what that transaction has sent (SlotOk).                                *)
(***************************************************************************)
EXTENDS HaSync, TLAPS

(***************************************************************************)
(* Values.                                                                 *)
(***************************************************************************)
WellFormed(k) ==
    /\ k.pc \in {"list", "overrides", "todo"} \union Resending => k.node \in Nodes
    /\ k.pc \in Resending => k.rule \in Rules

\* What Want returns: a content of ours, or nothing.
LEMMA WantType ==
    ASSUME NEW d \in Definitions \union {NoRow}, NEW n \in Nodes
    PROVE  Want(d, n) \in Bodies \union {None}
<1>1. CASE ~Active(d)
  BY <1>1 DEF Want
<1>2. CASE Active(d)
  <2>1. d \in Definitions
    BY <1>2 DEF Active
  <2>2. d.body \in Bodies /\ d.ov[n] \in Overrides
    BY <2>1 DEF Definitions
  <2> QED BY <1>2, <2>2, HaSyncAssumption DEF Want
<1> QED BY <1>1, <1>2

\* The states of a worker between and at the rules of a visit are well formed.
LEMMA RestingType ==
    /\ Resting \in WorkerStates /\ WellFormed(Resting)
    /\ Resting.pc = "idle" /\ Resting.todo = {}
BY HaSyncAssumption DEF Resting, WorkerStates, PCs, Ops, Contents, WellFormed, Resending

Between(ns, n, t, p) == [Resting EXCEPT !.nodes = ns, !.node = n, !.todo = t, !.pc = p]

\* A worker between two rules is well formed,
LEMMA BetweenType ==
    ASSUME NEW ns \in SUBSET Nodes, NEW n \in Nodes \union {Nil}, NEW t \in SUBSET Rules,
           NEW p \in {"next", "todo"}, p = "todo" => n \in Nodes
    PROVE  /\ Between(ns, n, t, p) \in WorkerStates /\ WellFormed(Between(ns, n, t, p))
           /\ Between(ns, n, t, p).pc = p
BY HaSyncAssumption DEF Between, Resting, WorkerStates, PCs, Ops, Contents, WellFormed, Resending

\* and so is one that starts on its nodes.
LEMMA StartType ==
    ASSUME NEW ns \in SUBSET Nodes
    PROVE  LET k == [Resting EXCEPT !.pc = "next", !.nodes = ns]
           IN  k \in WorkerStates /\ WellFormed(k) /\ k.pc = "next"
BY HaSyncAssumption DEF Resting, WorkerStates, PCs, Ops, Contents, WellFormed, Resending

(***************************************************************************)
(* One visit takes a step.                                                 *)
(***************************************************************************)
\* The part of the invariant about types and row locks, when worker w goes on
\* in state k and locks are only given back, or taken for what the row says.
LEMMA VisitStep ==
    ASSUME IInv, NEW w \in Workers, NEW CONSTANT k, k \in WorkerStates, WellFormed(k),
           worker' = [worker EXCEPT ![w] = k],
           UNCHANGED <<row, draft>>,
           lock' \in [Rules -> Workers \union {Free, User}],
           \A r \in Rules, x \in Workers : lock'[r] = x /\ x # w => lock[r] = x,
           \A r \in Rules : lock'[r] = w =>
               k.pc \in Resending /\ k.rule = r /\ k.want = Want(row[r], k.node),
           live' \in [Slots -> Contents], suspect' \subseteq Slots, SlotOk',
           orphans' \subseteq Orphans, events' \in 0..MaxEvents,
           failures' \in [Procs -> [Slots -> 0..WarnCount]],
           streak' \in [Procs -> [Slots -> 0..WarnCount]],
           named' \in {p \in Procs : <<p, "timer">> \in Workers} \union {Nil},
           named' # Nil => (named' = named \/ w = <<named', "timer">>),
           named' # Nil /\ w = <<named', "timer">> => k.pc # "idle"
    PROVE  IInv'
<1>1. TypeOK'
  <2>1. worker' \in [Workers -> WorkerStates]
    BY DEF IInv, TypeOK
  <2>2. \A x \in Workers : WellFormed(worker'[x])
    BY DEF IInv, TypeOK, WellFormed
  <2>3. \A x \in Workers :
          /\ worker'[x].pc \in {"list", "overrides", "todo"} \union Resending => worker'[x].node \in Nodes
          /\ worker'[x].pc \in Resending => worker'[x].rule \in Rules
    BY <2>2 DEF WellFormed
  <2>4. row' \in [Rules -> Definitions \union {NoRow}] /\ draft' \in [Rules -> Definitions \union {NoRow}]
    BY DEF IInv, TypeOK
  <2> QED BY <2>1, <2>3, <2>4 DEF TypeOK
<1>2. HolderOk'
  <2> SUFFICES ASSUME NEW r \in Rules, NEW x \in Workers, lock'[r] = x
               PROVE  /\ worker'[x].pc \in Resending /\ worker'[x].rule = r
                      /\ worker'[x].want = Want(row'[r], worker'[x].node)
    BY DEF HolderOk
  <2>1. CASE x = w
    BY <2>1 DEF IInv, TypeOK
  <2>2. CASE x # w
    BY <2>2 DEF IInv, TypeOK, HolderOk
  <2> QED BY <2>1, <2>2
<1>3. NamedLockInRound'
  <2> SUFFICES ASSUME named' # Nil PROVE worker'[<<named', "timer">>].pc # "idle"
    BY DEF NamedLockInRound
  <2>1. CASE w = <<named', "timer">>
    BY <2>1 DEF IInv, TypeOK
  <2>2. CASE w # <<named', "timer">>
    BY <2>2 DEF IInv, TypeOK, NamedLockInRound
  <2> QED BY <2>1, <2>2
<1> QED BY <1>1, <1>2, <1>3 DEF IInv

\* Nothing but row locks of visits changes, and more may be suspect.
LEMMA SlotsSame ==
    ASSUME IInv, UNCHANGED <<row, draft, live>>, suspect \subseteq suspect',
           \A r \in Rules : lock'[r] = User <=> lock[r] = User
    PROVE  SlotOk'
<1> SUFFICES ASSUME NEW s \in Slots \ suspect'
             PROVE  Agrees(live'[s], Want(IF lock'[s[2]] = User THEN draft'[s[2]] ELSE row'[s[2]], s[1]))
  BY DEF SlotOk
<1>1. s \in Slots \ suspect /\ s[2] \in Rules
  BY DEF Slots
<1> QED BY <1>1 DEF IInv, SlotOk

\* A visit is no longer idle while it holds or may hold something.
LEMMA Bookkeeping ==
    ASSUME IInv, NEW w \in Workers, NEW r \in Rules, worker[w].node \in Nodes,
           Succeed(w, r) \/ Fail(w, r)
    PROVE  /\ failures' \in [Procs -> [Slots -> 0..WarnCount]]
           /\ streak' \in [Procs -> [Slots -> 0..WarnCount]]
           /\ worker' = [worker EXCEPT ![w] = Onwards(w, r)]
           /\ Onwards(w, r) \in WorkerStates /\ WellFormed(Onwards(w, r))
           /\ Onwards(w, r).pc \in {"next", "todo"}
<1> DEFINE s == <<worker[w].node, r>>
<1>1. w[1] \in Procs /\ s \in Slots /\ worker[w] \in WorkerStates
  BY DEF Workers, Slots, IInv, TypeOK
<1>2. \A n \in 0..WarnCount : OneMore(n) \in 0..WarnCount
  BY HaSyncAssumption DEF OneMore
<1>3. failures \in [Procs -> [Slots -> 0..WarnCount]] /\ streak \in [Procs -> [Slots -> 0..WarnCount]]
  BY DEF IInv, TypeOK
<1>4. failures[w[1]][s] \in 0..WarnCount /\ streak[w[1]][s] \in 0..WarnCount
  BY <1>1, <1>3
<1>5. 0 \in 0..WarnCount
  BY HaSyncAssumption
<1>6. PICK f \in 0..WarnCount : failures' = [failures EXCEPT ![w[1]][s] = f]
  BY <1>2, <1>4, <1>5 DEF Succeed, Fail
<1>7. PICK g \in 0..WarnCount : streak' = [streak EXCEPT ![w[1]][s] = g]
  BY <1>2, <1>4, <1>5 DEF Succeed, Fail
<1>8. /\ failures' \in [Procs -> [Slots -> 0..WarnCount]]
      /\ streak' \in [Procs -> [Slots -> 0..WarnCount]]
  BY <1>3, <1>6, <1>7
<1>9. worker' = [worker EXCEPT ![w] = Onwards(w, r)]
  BY DEF Succeed, Fail
<1> DEFINE p == IF worker[w].todo = {r} THEN "next" ELSE "todo"
<1>10. /\ worker[w].nodes \in SUBSET Nodes /\ worker[w].todo \ {r} \in SUBSET Rules
       /\ p \in {"next", "todo"}
  BY <1>1 DEF WorkerStates
<1>11. /\ Onwards(w, r) \in WorkerStates /\ WellFormed(Onwards(w, r))
       /\ Onwards(w, r).pc \in {"next", "todo"}
  <2> HIDE DEF p
  <2>1. Onwards(w, r) = Between(worker[w].nodes, worker[w].node, worker[w].todo \ {r}, p)
    BY DEF Onwards, Between, p
  <2> QED BY <2>1, <1>10, BetweenType
<1> QED BY <1>8, <1>9, <1>11

\* A visit is through with rule r, having or not having locked it.
LEMMA FinishStep ==
    ASSUME IInv, NEW w \in Workers, NEW r \in Rules,
           worker[w].pc \in {"todo"} \union Resending,
           Succeed(w, r) \/ Fail(w, r),
           \/ worker[w].pc = "todo" /\ UNCHANGED lock
           \/ worker[w].pc \in Resending /\ worker[w].rule = r /\ Unlock(w, r),
           UNCHANGED <<row, draft, named>>,
           live' \in [Slots -> Contents], suspect' \subseteq Slots, SlotOk',
           orphans' \subseteq Orphans, events' \in 0..MaxEvents
    PROVE  IInv'
<1>1. worker[w].node \in Nodes
  BY DEF IInv, TypeOK
<1>2. lock \in [Rules -> Workers \union {Free, User}] /\ named \in {p \in Procs : <<p, "timer">> \in Workers} \union {Nil}
  BY DEF IInv, TypeOK
<1>3. /\ lock' \in [Rules -> Workers \union {Free, User}]
      /\ \A q \in Rules, x \in Workers : lock'[q] = x /\ x # w => lock[q] = x
  BY <1>2, HaSyncAssumption DEF Unlock, Workers
<1>4. \A q \in Rules : lock'[q] # w
  <2> SUFFICES ASSUME NEW q \in Rules, lock'[q] = w PROVE FALSE
    OBVIOUS
  <2>1. Free # w
    BY HaSyncAssumption DEF Workers
  <2>2. lock[q] = w
    BY <1>2, <2>1 DEF Unlock
  <2>3. worker[w].pc \in Resending /\ worker[w].rule = q
    BY <2>2 DEF IInv, HolderOk
  <2>4. Unlock(w, r) /\ q = r
    BY <2>3 DEF Resending
  <2> QED BY <1>2, <2>1, <2>4 DEF Unlock
<1> DEFINE k == Onwards(w, r)
<1>5. /\ failures' \in [Procs -> [Slots -> 0..WarnCount]]
      /\ streak' \in [Procs -> [Slots -> 0..WarnCount]]
      /\ worker' = [worker EXCEPT ![w] = k]
      /\ k \in WorkerStates /\ WellFormed(k) /\ k.pc \in {"next", "todo"}
  BY <1>1, Bookkeeping
<1> QED BY <1>2, <1>3, <1>4, <1>5, VisitStep

\* What giving back a lock leaves to SlotOk.
LEMMA UnlockUser ==
    ASSUME IInv, NEW w \in Workers, NEW r \in Rules, Unlock(w, r)
    PROVE  \A q \in Rules : lock'[q] = User <=> lock[q] = User
<1>1. Free # User /\ User # w
  BY HaSyncAssumption DEF Workers
<1>2. lock \in [Rules -> Workers \union {Free, User}]
  BY DEF IInv, TypeOK
<1> QED BY <1>1, <1>2 DEF Unlock

(***************************************************************************)
(* The steps of a visit up to the resends.                                 *)
(***************************************************************************)
\* A visit that holds no row goes on reading.
LEMMA ReadStep ==
    ASSUME IInv, NEW w \in Workers, NEW CONSTANT k, k \in WorkerStates, WellFormed(k),
           worker[w].pc \notin Resending, k.pc # "idle",
           worker' = [worker EXCEPT ![w] = k],
           UNCHANGED <<row, draft, lock, named, live, failures, orphans, suspect>>,
           streak' \in [Procs -> [Slots -> 0..WarnCount]], events' \in 0..MaxEvents
    PROVE  IInv'
<1>1. \A r \in Rules : lock'[r] # w
  BY DEF IInv, HolderOk
<1>2. SlotOk'
  BY SlotsSame
<1> QED BY <1>1, <1>2, VisitStep DEF IInv, TypeOK

\* Events counted, and the counter left alone.
LEMMA EventsType ==
    ASSUME IInv, Event \/ Quiet
    PROVE  events' \in 0..MaxEvents
<1>1. events \in 0..MaxEvents /\ MaxEvents \in Nat
  BY HaSyncAssumption DEF IInv, TypeOK
<1> QED BY <1>1 DEF Event, Quiet

\* What a visit finds in order keeps the counts in range.
LEMMA FoundWellType ==
    ASSUME IInv, NEW w \in Workers, NEW n, NEW todo, FoundWell(w, n, todo)
    PROVE  streak' \in [Procs -> [Slots -> 0..WarnCount]]
<1>1. streak \in [Procs -> [Slots -> 0..WarnCount]] /\ w[1] \in Procs /\ 0 \in 0..WarnCount
  BY HaSyncAssumption DEF IInv, TypeOK, Workers
<1>2. [s \in Slots |-> IF s[1] = n /\ s[2] \in Scope(w) \ todo THEN 0 ELSE streak[w[1]][s]]
         \in [Slots -> 0..WarnCount]
  BY <1>1
<1> QED BY <1>1, <1>2 DEF FoundWell

\* A round starts, on all nodes.
LEMMA StartRoundStep ==
    ASSUME IInv, NEW p \in Procs, StartRound(p)
    PROVE  IInv'
<1> DEFINE w == <<p, "timer">>
           k == [Resting EXCEPT !.pc = "next", !.nodes = Nodes]
<1>1. w \in Workers
  BY DEF StartRound, Workers
<1>2. k \in WorkerStates /\ WellFormed(k) /\ k.pc = "next"
  BY StartType
<1>3. worker[w].pc = "idle"
  BY DEF StartRound
<1>4. \A r \in Rules : lock'[r] # w
  BY <1>1, <1>3 DEF StartRound, IInv, HolderOk, Resending
<1>5. SlotOk'
  BY SlotsSame DEF StartRound, Database
<1>6. named' = p /\ worker' = [worker EXCEPT ![w] = k]
  BY DEF StartRound
<1>7. UNCHANGED <<row, draft, lock, live, failures, streak, orphans, suspect, events>>
  BY DEF StartRound, Database, Counts, Quiet
<1> HIDE DEF k
<1>8. p \in {q \in Procs : <<q, "timer">> \in Workers}
  BY <1>1
<1> QED BY <1>1, <1>2, <1>4, <1>5, <1>6, <1>7, <1>8, VisitStep DEF IInv, TypeOK

\* A visit to a node that was named starts.
LEMMA StartNotifyStep ==
    ASSUME IInv, NEW p \in Procs, NEW n \in Nodes, StartNotify(p, n)
    PROVE  IInv'
<1> DEFINE w == <<p, "notify">>
           k == [Resting EXCEPT !.pc = "next", !.nodes = {n}]
<1>1. w \in Workers
  BY DEF StartNotify, Workers
<1>2. k \in WorkerStates /\ WellFormed(k) /\ k.pc = "next"
  BY StartType
<1>3. worker[w].pc \notin Resending
  BY DEF StartNotify, Resending
<1>4. worker' = [worker EXCEPT ![w] = k]
  BY DEF StartNotify
<1> HIDE DEF k, w
<1> QED BY <1>1, <1>2, <1>3, <1>4, ReadStep DEF StartNotify, Database, Counts, Quiet, IInv, TypeOK

\* A round ends: it holds no row.
LEMMA EndStep ==
    ASSUME IInv, NEW w \in Workers, End(w)
    PROVE  IInv'
<1>1. \A r \in Rules : lock'[r] # w
  BY DEF End, IInv, HolderOk, Resending
<1>2. SlotOk'
  BY SlotsSame DEF End, Database
<1>3. UNCHANGED <<row, draft, lock, live, failures, streak, orphans, suspect, events>>
  BY DEF End, Database, Counts, Quiet
<1>4. named' \in {Nil, named} /\ (named' # Nil => w # <<named', "timer">>)
  BY DEF End
<1>5. worker' = [worker EXCEPT ![w] = Resting]
  BY DEF End
<1>6. PICK k : k = Resting
  OBVIOUS
<1>7. k \in WorkerStates /\ WellFormed(k)
  BY <1>6, RestingType
<1>8. worker' = [worker EXCEPT ![w] = k]
  BY <1>5, <1>6
<1> QED BY <1>1, <1>2, <1>3, <1>4, <1>7, <1>8, VisitStep DEF IInv, TypeOK

\* The rules of a node are read.
LEMMA ReadRulesStep ==
    ASSUME IInv, NEW w \in Workers, ReadRules(w)
    PROVE  IInv'
<1> DEFINE rules == [r \in Rules |-> IF r \in Scope(w) THEN Plain(row[r]) ELSE NoRow]
           j(n) == [worker[w] EXCEPT !.nodes = @ \ {n}]
           l(n) == [worker[w] EXCEPT !.pc = "list", !.nodes = @ \ {n}, !.node = n, !.seen = rules]
<1>1. PICK n \in worker[w].nodes :
         \/ worker' = [worker EXCEPT ![w].nodes = @ \ {n}] /\ FoundWell(w, n, {})
         \/ worker' = [worker EXCEPT ![w] = l(n)] /\ UNCHANGED streak
  BY DEF ReadRules
<1>2. /\ worker[w].pc = "next" /\ UNCHANGED <<row, draft, lock, named, live, failures, orphans, suspect, events>>
  BY DEF ReadRules, Database, Quiet
<1>3. worker \in [Workers -> WorkerStates] /\ worker[w] \in WorkerStates /\ n \in Nodes
      /\ streak \in [Procs -> [Slots -> 0..WarnCount]] /\ events \in 0..MaxEvents
  BY DEF IInv, TypeOK, WorkerStates
<1>4. rules \in [Rules -> Definitions \union {NoRow}]
  <2>1. \A r \in Rules : Plain(row[r]) \in Definitions \union {NoRow}
    BY HaSyncAssumption DEF IInv, TypeOK, Plain, NoOverride, Definitions
  <2> QED BY <2>1
<1>5. CASE /\ worker' = [worker EXCEPT ![w].nodes = @ \ {n}] /\ FoundWell(w, n, {})
  <2>1. j(n) \in WorkerStates /\ WellFormed(j(n)) /\ j(n).pc = "next"
    BY <1>2, <1>3 DEF WorkerStates, WellFormed, Resending
  <2>2. worker' = [worker EXCEPT ![w] = j(n)]
    BY <1>5
  <2>3. streak' \in [Procs -> [Slots -> 0..WarnCount]]
    BY <1>5, FoundWellType
  <2> HIDE DEF j
  <2>4. PICK k : k = j(n)
    OBVIOUS
  <2> QED BY <1>2, <1>3, <2>1, <2>2, <2>3, <2>4, ReadStep DEF Resending
<1>6. CASE worker' = [worker EXCEPT ![w] = l(n)] /\ UNCHANGED streak
  <2>1. l(n) \in WorkerStates /\ WellFormed(l(n)) /\ l(n).pc = "list"
    <3> HIDE DEF rules
    <3> QED BY <1>2, <1>3, <1>4 DEF WorkerStates, WellFormed, Resending, PCs
  <2> HIDE DEF l
  <2>2. PICK k : k = l(n)
    OBVIOUS
  <2> QED BY <1>2, <1>3, <1>6, <2>1, <2>2, ReadStep DEF Resending
<1> QED BY <1>1, <1>5, <1>6

\* What the node runs is read.
LEMMA ListStep ==
    ASSUME IInv, NEW w \in Workers, List(w)
    PROVE  IInv'
<1> DEFINE seen == [r \in Rules |-> live[<<worker[w].node, r>>]]
           l == [worker[w] EXCEPT !.listed = seen, !.pc = "overrides"]
<1>1. /\ worker[w].pc = "list" /\ UNCHANGED <<row, draft, lock, named, live, failures, streak, orphans, suspect, events>>
  BY DEF List, Database, Quiet, Counts
<1>2. /\ worker \in [Workers -> WorkerStates] /\ worker[w] \in WorkerStates /\ worker[w].node \in Nodes
      /\ streak \in [Procs -> [Slots -> 0..WarnCount]] /\ events \in 0..MaxEvents
      /\ live \in [Slots -> Contents]
  BY <1>1 DEF IInv, TypeOK
<1>3. seen \in [Rules -> Contents]
  BY <1>2 DEF Slots
<1>4. worker' = [worker EXCEPT ![w] = l]
  BY <1>2 DEF List
<1>5. l \in WorkerStates /\ WellFormed(l) /\ l.pc = "overrides"
  <2> HIDE DEF seen
  <2> QED BY <1>2, <1>3 DEF WorkerStates, WellFormed, Resending, PCs
<1> HIDE DEF l
<1>6. PICK k : k = l
  OBVIOUS
<1> QED BY <1>1, <1>2, <1>4, <1>5, <1>6, ReadStep DEF Resending

\* A list or a query fails: the visit of the node, or of all, is over.
LEMMA ReadFailsStep ==
    ASSUME IInv, NEW w \in Workers, ListFails(w) \/ QueryFails(w)
    PROVE  IInv'
<1>1. PICK ns \in SUBSET Nodes : worker' = [worker EXCEPT ![w] = [Resting EXCEPT !.pc = "next", !.nodes = ns]]
  <2>1. CASE ListFails(w)
    <3>1. worker[w].nodes \in SUBSET Nodes
      BY DEF IInv, TypeOK, WorkerStates
    <3> QED BY <2>1, <3>1 DEF ListFails
  <2>2. CASE QueryFails(w)
    <3>1. {} \in SUBSET Nodes
      OBVIOUS
    <3> QED BY <2>2, <3>1 DEF QueryFails
  <2> QED BY <2>1, <2>2
<1> DEFINE k == [Resting EXCEPT !.pc = "next", !.nodes = ns]
<1>2. k \in WorkerStates /\ WellFormed(k) /\ k.pc = "next"
  BY StartType
<1>3. /\ worker[w].pc \notin Resending /\ Event
      /\ UNCHANGED <<row, draft, lock, named, live, failures, streak, orphans, suspect>>
  BY DEF ListFails, QueryFails, Database, Counts, Resending
<1>4. streak' \in [Procs -> [Slots -> 0..WarnCount]] /\ events' \in 0..MaxEvents
  BY <1>3, EventsType DEF IInv, TypeOK
<1>5. worker' = [worker EXCEPT ![w] = k]
  BY <1>1
<1> HIDE DEF k
<1> QED BY <1>2, <1>3, <1>4, <1>5, ReadStep

\* The overrides are read, and what is to do is decided.
LEMMA ReadOverridesStep ==
    ASSUME IInv, NEW w \in Workers, ReadOverrides(w)
    PROVE  IInv'
<1> DEFINE todo == {r \in Rules : Differs(w, r)}
           p == IF todo = {} THEN "next" ELSE "todo"
           k == Between(worker[w].nodes, worker[w].node, todo, p)
<1>1. /\ worker[w].pc = "overrides" /\ UNCHANGED <<row, draft, lock, named, live, failures, orphans, suspect, events>>
      /\ FoundWell(w, worker[w].node, todo)
  BY DEF ReadOverrides, Database, Quiet
<1>2. worker[w] \in WorkerStates /\ worker[w].node \in Nodes /\ events \in 0..MaxEvents
  BY <1>1 DEF IInv, TypeOK
<1>3. worker[w].nodes \in SUBSET Nodes /\ todo \in SUBSET Rules /\ p \in {"next", "todo"}
  BY <1>2 DEF WorkerStates
<1>4. worker' = [worker EXCEPT ![w] = k]
  BY DEF ReadOverrides, Between
<1>5. streak' \in [Procs -> [Slots -> 0..WarnCount]]
  BY <1>1, FoundWellType
<1>6. k \in WorkerStates /\ WellFormed(k) /\ k.pc = p
  <2> HIDE DEF p, todo
  <2> QED BY <1>2, <1>3, BetweenType
<1>7. k.pc # "idle"
  BY <1>3, <1>6
<1> HIDE DEF k
<1>8. PICK j : j = k
  OBVIOUS
<1> QED BY <1>1, <1>2, <1>4, <1>5, <1>6, <1>7, <1>8, ReadStep DEF Resending

(***************************************************************************)
(* The resend of one rule.                                                 *)
(***************************************************************************)
LEMMA LockRowStep ==
    ASSUME IInv, NEW w \in Workers, LockRow(w)
    PROVE  IInv'
<1>1. /\ worker[w].pc = "todo" /\ UNCHANGED <<row, draft, named, live, orphans, suspect, events>>
  BY DEF LockRow, Database, Quiet
<1>2. /\ worker[w] \in WorkerStates /\ worker[w].node \in Nodes /\ worker[w].todo \subseteq Rules
      /\ lock \in [Rules -> Workers \union {Free, User}] /\ row \in [Rules -> Definitions \union {NoRow}]
      /\ live \in [Slots -> Contents] /\ suspect \subseteq Slots
  BY <1>1 DEF IInv, TypeOK, WorkerStates
<1> DEFINE l(r) == [worker[w] EXCEPT !.pc = "look", !.rule = r, !.want = Want(row[r], worker[w].node)]
<1>3. PICK r \in worker[w].todo :
        /\ lock[r] = Free
        /\ \/ Succeed(w, r) /\ UNCHANGED lock
           \/ /\ lock' = [lock EXCEPT ![r] = w]
              /\ worker' = [worker EXCEPT ![w] = l(r)]
              /\ UNCHANGED <<failures, streak>>
  BY DEF LockRow, Counts
<1>4. r \in Rules /\ Free # User /\ w # User /\ w # Free
  BY <1>2, HaSyncAssumption DEF Workers
<1>5. \A q \in Rules : lock'[q] = User <=> lock[q] = User
  BY <1>2, <1>3, <1>4
<1>6. SlotOk'
  BY <1>1, <1>5, SlotsSame
<1>7. CASE Succeed(w, r) /\ UNCHANGED lock
  BY <1>1, <1>4, <1>6, <1>7, FinishStep DEF IInv, TypeOK
<1>8. CASE /\ lock' = [lock EXCEPT ![r] = w]
           /\ worker' = [worker EXCEPT ![w] = l(r)]
           /\ UNCHANGED <<failures, streak>>
  <2>1. Want(row[r], worker[w].node) \in Bodies \union {None}
    BY <1>2, <1>4, WantType
  <2>2. PICK x \in Bodies \union {None} : x = Want(row[r], worker[w].node)
    BY <2>1
  <2>3. PICK k : k = l(r)
    OBVIOUS
  <2>4. /\ k \in WorkerStates /\ WellFormed(k)
        /\ k.pc = "look" /\ k.rule = r /\ k.want = Want(row[r], worker[w].node) /\ k.node = worker[w].node
    BY <1>2, <1>4, <2>2, <2>3 DEF WorkerStates, WellFormed, Resending, PCs
  <2>5. /\ lock' \in [Rules -> Workers \union {Free, User}]
        /\ \A q \in Rules, x2 \in Workers : lock'[q] = x2 /\ x2 # w => lock[q] = x2
    BY <1>2, <1>4, <1>8
  <2>6. \A q \in Rules : lock[q] # w
    BY <1>1 DEF IInv, HolderOk, Resending
  <2>7. \A q \in Rules : lock'[q] = w => q = r
    BY <1>2, <1>8, <2>6
  <2>8. worker' = [worker EXCEPT ![w] = k]
    BY <1>8, <2>3
  <2>9. \A q \in Rules : lock'[q] = w =>
            k.pc \in Resending /\ k.rule = q /\ k.want = Want(row[q], k.node)
    BY <2>4, <2>7 DEF Resending
  <2>10. named' # Nil /\ w = <<named', "timer">> => k.pc # "idle"
    BY <2>4
  <2> QED BY <1>1, <1>6, <1>8, <2>4, <2>5, <2>8, <2>9, <2>10, VisitStep DEF IInv, TypeOK
<1> QED BY <1>3, <1>7, <1>8

\* The row cannot be locked: the rule counts as failed.
LEMMA LockFailsStep ==
    ASSUME IInv, NEW w \in Workers, LockFails(w)
    PROVE  IInv'
<1>1. PICK r \in worker[w].todo : Fail(w, r)
  BY DEF LockFails
<1>2. /\ worker[w].pc = "todo" /\ UNCHANGED <<row, draft, lock, named, live, orphans, suspect>>
  BY DEF LockFails, Database
<1>3. r \in Rules
  BY DEF IInv, TypeOK, WorkerStates
<1>4. SlotOk' /\ events' \in 0..MaxEvents
  BY <1>2, SlotsSame, EventsType DEF LockFails
<1> QED BY <1>1, <1>2, <1>3, <1>4, FinishStep DEF IInv, TypeOK

\* The slot of a resend, and what it means to hold its row.
LEMMA ResendFacts ==
    ASSUME IInv, NEW w \in Workers, worker[w].pc \in Resending
    PROVE  /\ worker[w] \in WorkerStates /\ worker[w].node \in Nodes /\ worker[w].rule \in Rules
           /\ Slot(w) \in Slots /\ Slot(w)[1] = worker[w].node /\ Slot(w)[2] = worker[w].rule
           /\ Holds(w) => /\ lock[Slot(w)[2]] # User
                          /\ worker[w].want = Want(row[Slot(w)[2]], Slot(w)[1])
<1>1. /\ worker[w] \in WorkerStates /\ worker[w].node \in Nodes /\ worker[w].rule \in Rules
  BY DEF IInv, TypeOK
<1>2. Slot(w) \in Slots /\ Slot(w)[1] = worker[w].node /\ Slot(w)[2] = worker[w].rule
  BY <1>1 DEF Slot, Slots
<1>3. ASSUME Holds(w) PROVE /\ lock[Slot(w)[2]] # User
                            /\ worker[w].want = Want(row[Slot(w)[2]], Slot(w)[1])
  <2>1. lock[worker[w].rule] = w /\ w # User
    BY <1>3, HaSyncAssumption DEF Holds, Workers
  <2> QED BY <1>1, <1>2, <2>1 DEF IInv, HolderOk
<1> QED BY <1>1, <1>2, <1>3

\* A resend ends without having changed anything, or with the slot suspect.
LEMMA GivesUp ==
    ASSUME IInv, NEW w \in Workers, worker[w].pc \in Resending,
           Succeed(w, worker[w].rule) \/ Fail(w, worker[w].rule), Unlock(w, worker[w].rule),
           UNCHANGED <<row, draft, named, live>>,
           suspect \subseteq suspect', suspect' \subseteq Slots,
           orphans' \subseteq Orphans, events' \in 0..MaxEvents
    PROVE  IInv'
<1>1. worker[w].rule \in Rules
  BY ResendFacts
<1>2. PICK r \in Rules : r = worker[w].rule
  BY <1>1
<1>3. \A q \in Rules : lock'[q] = User <=> lock[q] = User
  BY <1>2, UnlockUser
<1>4. SlotOk'
  BY <1>3, SlotsSame
<1>5. Succeed(w, r) \/ Fail(w, r)
  BY <1>2
<1>6. Unlock(w, r)
  BY <1>2
<1> QED BY <1>2, <1>4, <1>5, <1>6, FinishStep DEF IInv, TypeOK

\* Under the lock, the node is asked for the rule.
LEMMA LookStep ==
    ASSUME IInv, NEW w \in Workers, Look(w)
    PROVE  IInv'
<1>1. /\ worker[w].pc = "look" /\ worker[w].pc \in Resending
      /\ UNCHANGED <<row, draft, named, live, orphans, events>>
  BY DEF Look, Database, Quiet, Resending
<1>2. /\ worker[w] \in WorkerStates /\ worker[w].node \in Nodes /\ worker[w].rule \in Rules
      /\ Slot(w) \in Slots /\ Slot(w)[1] = worker[w].node /\ Slot(w)[2] = worker[w].rule
      /\ Holds(w) => /\ lock[Slot(w)[2]] # User
                     /\ worker[w].want = Want(row[Slot(w)[2]], Slot(w)[1])
  BY <1>1, ResendFacts
<1>3. suspect \subseteq Slots /\ orphans \subseteq Orphans /\ events \in 0..MaxEvents /\ live \in [Slots -> Contents]
  BY DEF IInv, TypeOK
<1>4. CASE Fail(w, worker[w].rule) /\ Unlock(w, worker[w].rule) /\ UNCHANGED suspect
  BY <1>1, <1>3, <1>4, GivesUp
<1>5. CASE /\ Agrees(live[Slot(w)], worker[w].want)
           /\ Succeed(w, worker[w].rule) /\ Unlock(w, worker[w].rule)
           /\ suspect' = IF Holds(w) THEN suspect \ {Slot(w)} ELSE suspect
  <2>1. PICK r \in Rules : r = worker[w].rule
    BY <1>2
  <2>2. Succeed(w, r) /\ Unlock(w, r)
    BY <1>5, <2>1
  <2>3. \A q \in Rules : lock'[q] = User <=> lock[q] = User
    BY <2>2, UnlockUser
  <2>4. SlotOk'
    <3> SUFFICES ASSUME NEW s \in Slots \ suspect'
                 PROVE  Agrees(live'[s], Want(IF lock'[s[2]] = User THEN draft'[s[2]] ELSE row'[s[2]], s[1]))
      BY DEF SlotOk
    <3>1. s[2] \in Rules
      BY DEF Slots
    <3>2. CASE s \notin suspect
      BY <1>1, <2>3, <3>1, <3>2 DEF IInv, SlotOk
    <3>3. CASE s \in suspect
      <4>1. Holds(w) /\ s = Slot(w)
        BY <1>5, <3>3
      <4> QED BY <1>1, <1>2, <1>5, <2>3, <3>1, <4>1
    <3> QED BY <3>2, <3>3
  <2> QED BY <1>1, <1>3, <1>5, <2>1, <2>2, <2>4, FinishStep
<1>6. ASSUME NEW op \in Choices(live[Slot(w)], worker[w].want),
             worker' = [worker EXCEPT ![w] = [worker[w] EXCEPT !.pc = "change", !.op = op, !.was = live[Slot(w)]]],
             UNCHANGED <<lock, failures, streak, suspect>>
      PROVE  IInv'
  <2>1. PICK v \in Contents : v = live[Slot(w)]
    BY <1>2, <1>3
  <2>2. PICK o \in Ops : o = op
    BY DEF Choices, Ops
  <2>3. PICK k : k = [worker[w] EXCEPT !.pc = "change", !.op = o, !.was = v]
    OBVIOUS
  <2>4. /\ k \in WorkerStates /\ WellFormed(k)
        /\ k.pc = "change" /\ k.rule = worker[w].rule /\ k.want = worker[w].want /\ k.node = worker[w].node
    BY <1>2, <2>3 DEF WorkerStates, WellFormed, Resending, PCs
  <2>5. worker' = [worker EXCEPT ![w] = k]
    BY <1>6, <2>1, <2>2, <2>3
  <2>6. \A q \in Rules : lock'[q] = w =>
            k.pc \in Resending /\ k.rule = q /\ k.want = Want(row[q], k.node)
    BY <1>6, <2>4 DEF IInv, HolderOk, Resending
  <2>7. SlotOk'
    BY <1>1, <1>6, SlotsSame
  <2> QED BY <1>1, <1>6, <2>4, <2>5, <2>6, <2>7, VisitStep DEF IInv, TypeOK
<1>7. \/ Fail(w, worker[w].rule) /\ Unlock(w, worker[w].rule) /\ UNCHANGED suspect
      \/ /\ Agrees(live[Slot(w)], worker[w].want)
         /\ Succeed(w, worker[w].rule) /\ Unlock(w, worker[w].rule)
         /\ suspect' = IF Holds(w) THEN suspect \ {Slot(w)} ELSE suspect
      \/ \E op \in Choices(live[Slot(w)], worker[w].want) :
           /\ worker' = [worker EXCEPT ![w] = [worker[w] EXCEPT !.pc = "change", !.op = op, !.was = live[Slot(w)]]]
           /\ UNCHANGED <<lock, failures, streak, suspect>>
  BY DEF Look, Counts
<1> QED BY <1>4, <1>5, <1>6, <1>7

\* What an answer to a change leaves in a slot.
LEMMA CarriedType ==
    ASSUME NEW v0 \in Contents, NEW op \in Ops, NEW want \in Bodies \union {None}, NEW was \in Contents,
           NEW v \in Carried(v0, op, want, was)
    PROVE  v \in Contents
<1>1. CASE op = "add"
  BY <1>1 DEF Carried, Contents
<1>2. CASE op \in {"delete", "recreate"}
  BY <1>2 DEF Carried, Contents
<1>3. CASE op \notin {"add", "delete", "recreate"}
  BY <1>3 DEF Carried, Contents
<1> QED BY <1>1, <1>2, <1>3

\* The node is made to run what the locked row says.
LEMMA ChangeStep ==
    ASSUME IInv, NEW w \in Workers, Change(w)
    PROVE  IInv'
<1>1. /\ worker[w].pc = "change" /\ worker[w].pc \in Resending
      /\ UNCHANGED <<row, draft, lock, named, failures, streak, orphans, events>>
  BY DEF Change, Database, Quiet, Counts, Resending
<1>2. /\ worker[w] \in WorkerStates /\ worker[w].node \in Nodes /\ worker[w].rule \in Rules
      /\ Slot(w) \in Slots /\ Slot(w)[1] = worker[w].node /\ Slot(w)[2] = worker[w].rule
      /\ Holds(w) => /\ lock[Slot(w)[2]] # User
                     /\ worker[w].want = Want(row[Slot(w)[2]], Slot(w)[1])
  BY <1>1, ResendFacts
<1>3. suspect \subseteq Slots /\ live \in [Slots -> Contents]
  BY DEF IInv, TypeOK
<1> DEFINE a == [worker[w] EXCEPT !.op = "add"]
           c == [worker[w] EXCEPT !.pc = "commit"]
<1>4. PICK v \in Carried(live[Slot(w)], worker[w].op, worker[w].want, worker[w].was) :
        /\ live' = [live EXCEPT ![Slot(w)] = v]
        /\ worker' = [worker EXCEPT ![w] = IF worker[w].op = "recreate" THEN a ELSE c]
  BY DEF Change
<1>5. v \in Contents
  <2>1. /\ live[Slot(w)] \in Contents /\ worker[w].op \in Ops
        /\ worker[w].want \in Bodies \union {None} /\ worker[w].was \in Contents
    BY <1>2, <1>3 DEF WorkerStates
  <2> QED BY <2>1, CarriedType
<1>6. live' \in [Slots -> Contents]
  BY <1>2, <1>3, <1>4, <1>5
<1>7. PICK k : k = IF worker[w].op = "recreate" THEN a ELSE c
  OBVIOUS
<1>8. /\ k \in WorkerStates /\ WellFormed(k)
      /\ k.pc \in Resending /\ k.rule = worker[w].rule /\ k.want = worker[w].want /\ k.node = worker[w].node
  <2>1. CASE k = a
    BY <1>1, <1>2, <2>1 DEF WorkerStates, WellFormed, Resending, PCs, Ops
  <2>2. CASE k = c
    BY <1>1, <1>2, <2>2 DEF WorkerStates, WellFormed, Resending, PCs, Ops
  <2> QED BY <1>7, <2>1, <2>2
<1>9. worker' = [worker EXCEPT ![w] = k]
  BY <1>4, <1>7
<1>10. \A q \in Rules : lock'[q] = w =>
          k.pc \in Resending /\ k.rule = q /\ k.want = Want(row[q], k.node)
  BY <1>1, <1>8 DEF IInv, HolderOk
<1>11. suspect' = Mark(w)
  BY DEF Change
<1>12. suspect' \subseteq Slots
  BY <1>2, <1>3, <1>11 DEF Mark
<1>13. SlotOk'
  <2> SUFFICES ASSUME NEW s \in Slots \ suspect'
               PROVE  Agrees(live'[s], Want(IF lock'[s[2]] = User THEN draft'[s[2]] ELSE row'[s[2]], s[1]))
    BY DEF SlotOk
  <2>1. CASE s = Slot(w)
    <3>1. Holds(w) /\ live'[s] = worker[w].want
      BY <1>11, <2>1 DEF Mark
    <3> QED BY <1>1, <1>2, <2>1, <3>1 DEF Agrees
  <2>2. CASE s # Slot(w)
    <3>1. s \notin suspect /\ live'[s] = live[s]
      BY <1>2, <1>3, <1>4, <1>11, <2>2 DEF Mark
    <3> QED BY <1>1, <3>1 DEF IInv, SlotOk
  <2> QED BY <2>1, <2>2
<1>14. k.pc # "idle"
  BY <1>8 DEF Resending
<1> QED BY <1>1, <1>6, <1>8, <1>9, <1>10, <1>12, <1>13, <1>14, VisitStep DEF IInv, TypeOK

\* The node refuses the change.
LEMMA ChangeRefusedStep ==
    ASSUME IInv, NEW w \in Workers, ChangeRefused(w)
    PROVE  IInv'
<1>1. /\ worker[w].pc \in Resending /\ (Event \/ Quiet)
      /\ Fail(w, worker[w].rule) /\ Unlock(w, worker[w].rule)
      /\ UNCHANGED <<row, draft, named, live, orphans, suspect>>
  BY DEF ChangeRefused, Resending, Database
<1>2. events' \in 0..MaxEvents
  BY <1>1, EventsType
<1> QED BY <1>1, <1>2, GivesUp DEF IInv, TypeOK

\* The lock is given back, whether or not the COMMIT gets through.
LEMMA CommitStep ==
    ASSUME IInv, NEW w \in Workers, Commit(w) \/ CommitFails(w)
    PROVE  IInv'
<1>1. /\ worker[w].pc \in Resending /\ (Event \/ Quiet)
      /\ Succeed(w, worker[w].rule) \/ Fail(w, worker[w].rule)
      /\ Unlock(w, worker[w].rule)
      /\ UNCHANGED <<row, draft, named, live, orphans, suspect>>
  BY DEF Commit, CommitFails, Resending, Database
<1>2. events' \in 0..MaxEvents
  BY <1>1, EventsType
<1> QED BY <1>1, <1>2, GivesUp DEF IInv, TypeOK

\* A call that may still land is for a slot of the group.
LEMMA OrphanType ==
    ASSUME IInv, NEW w \in Workers, worker[w].pc = "change"
    PROVE  Orphan(w) \in Orphans /\ Slot(w) \in Slots
<1>1. worker[w].pc \in Resending
  BY DEF Resending
<1>2. worker[w] \in WorkerStates /\ Slot(w) \in Slots
  BY <1>1, ResendFacts
<1> QED BY <1>2 DEF Orphan, Orphans, WorkerStates

\* No answer comes in time: the change may still land.
LEMMA ChangeTimesOutStep ==
    ASSUME IInv, NEW w \in Workers, ChangeTimesOut(w)
    PROVE  IInv'
<1>1. /\ worker[w].pc = "change" /\ worker[w].pc \in Resending /\ Event
      /\ Fail(w, worker[w].rule) /\ Unlock(w, worker[w].rule)
      /\ UNCHANGED <<row, draft, named, live>>
      /\ orphans' = orphans \union {Orphan(w)} /\ suspect' = suspect \union {Slot(w)}
  BY DEF ChangeTimesOut, Resending, Database
<1>2. events' \in 0..MaxEvents
  BY <1>1, EventsType
<1>3. orphans' \subseteq Orphans /\ suspect \subseteq suspect' /\ suspect' \subseteq Slots
  BY <1>1, OrphanType DEF IInv, TypeOK
<1> QED BY <1>1, <1>2, <1>3, GivesUp

(***************************************************************************)
(* What else happens.                                                      *)
(***************************************************************************)
LEMMA EnvironmentStep ==
    ASSUME IInv, UNCHANGED <<worker, failures, streak>>,
           row' \in [Rules -> Definitions \union {NoRow}],
           draft' \in [Rules -> Definitions \union {NoRow}],
           lock' \in [Rules -> Workers \union {Free, User}],
           \A r \in Rules, w \in Workers : lock'[r] = w => lock[r] = w /\ row'[r] = row[r],
           live' \in [Slots -> Contents], suspect' \subseteq Slots, SlotOk',
           orphans' \subseteq Orphans, events' \in 0..MaxEvents,
           named' \in {named, Nil}
    PROVE  IInv'
<1>1. TypeOK'
  BY DEF IInv, TypeOK
<1>2. HolderOk'
  BY DEF IInv, HolderOk
<1>3. NamedLockInRound'
  BY DEF IInv, NamedLockInRound
<1> QED BY <1>1, <1>2, <1>3 DEF IInv

\* The connection with the named lock, or with the lock of a row, is lost.
LEMMA LoseStep ==
    ASSUME IInv, LoseNamed \/ \E r \in Rules : LoseRow(r)
    PROVE  IInv'
<1>1. CASE LoseNamed
  <2>1. UNCHANGED <<row, draft, lock, live, worker, failures, streak, orphans, suspect>> /\ Event /\ named' = Nil
    BY <1>1 DEF LoseNamed, Database, Counts
  <2>2. SlotOk' /\ events' \in 0..MaxEvents
    BY <2>1, SlotsSame, EventsType
  <2> QED BY <2>1, <2>2, EnvironmentStep DEF IInv, TypeOK
<1>2. CASE \E r \in Rules : LoseRow(r)
  <2>1. PICK r \in Rules : LoseRow(r)
    BY <1>2
  <2>2. /\ UNCHANGED <<row, draft, named, live, worker, failures, streak, orphans, suspect>>
        /\ Event /\ lock[r] \in Workers /\ lock' = [lock EXCEPT ![r] = Free]
    BY <2>1 DEF LoseRow, Database, Counts
  <2>3. /\ lock \in [Rules -> Workers \union {Free, User}]
        /\ Free # User /\ Free \notin Workers /\ User \notin Workers
    BY HaSyncAssumption DEF IInv, TypeOK, Workers
  <2>4. \A q \in Rules : lock'[q] = User <=> lock[q] = User
    BY <2>2, <2>3
  <2>5. SlotOk' /\ events' \in 0..MaxEvents
    BY <2>2, <2>4, SlotsSame, EventsType
  <2>6. /\ lock' \in [Rules -> Workers \union {Free, User}]
        /\ \A q \in Rules, w \in Workers : lock'[q] = w => lock[q] = w
    BY <2>2, <2>3
  <2> QED BY <2>2, <2>5, <2>6, EnvironmentStep DEF IInv, TypeOK
<1> QED BY <1>1, <1>2

\* A change whose answer nobody waited for lands.
LEMMA OrphanLandsStep ==
    ASSUME IInv, NEW o \in orphans, OrphanLands(o)
    PROVE  IInv'
<1>1. PICK o1 \in Orphans : o1 = o
  BY DEF IInv, TypeOK
<1>2. PICK v \in Carried(live[o1.slot], o1.op, o1.want, o1.was) : live' = [live EXCEPT ![o1.slot] = v]
  BY <1>1 DEF OrphanLands
<1>3. live \in [Slots -> Contents] /\ suspect \subseteq Slots /\ orphans \subseteq Orphans
  BY DEF IInv, TypeOK
<1>4. /\ o1.slot \in Slots /\ o1.op \in Ops /\ o1.want \in Bodies \union {None} /\ o1.was \in Contents
  BY DEF Orphans
<1>5. live[o1.slot] \in Contents
  BY <1>3, <1>4
<1>6. v \in Contents
  BY <1>4, <1>5, CarriedType
<1>7. live' \in [Slots -> Contents]
  BY <1>2, <1>3, <1>4, <1>6
<1>8. /\ UNCHANGED <<row, draft, lock, named, worker, failures, streak, events>>
      /\ orphans' \subseteq orphans /\ suspect' = suspect \union {o1.slot}
  BY <1>1 DEF OrphanLands, Database, Counts, Quiet
<1>9. SlotOk'
  <2> SUFFICES ASSUME NEW s \in Slots \ suspect'
               PROVE  Agrees(live'[s], Want(IF lock'[s[2]] = User THEN draft'[s[2]] ELSE row'[s[2]], s[1]))
    BY DEF SlotOk
  <2>1. s \notin suspect /\ live'[s] = live[s]
    BY <1>2, <1>3, <1>8
  <2> QED BY <1>8, <2>1 DEF IInv, SlotOk
<1> QED BY <1>3, <1>4, <1>7, <1>8, <1>9, EnvironmentStep DEF IInv, TypeOK

\* Something else changes what a node runs.
LEMMA ExternalStep ==
    ASSUME IInv, NEW s0 \in Slots, NEW v \in Contents, External(s0, v)
    PROVE  IInv'
<1>1. /\ UNCHANGED <<row, draft, lock, named, worker, failures, streak, orphans>>
      /\ Event /\ live' = [live EXCEPT ![s0] = v] /\ suspect' = suspect \union {s0}
  BY DEF External, Database, Counts
<1>2. live \in [Slots -> Contents] /\ suspect \subseteq Slots /\ events' \in 0..MaxEvents
  BY <1>1, EventsType DEF IInv, TypeOK
<1>3. live' \in [Slots -> Contents]
  BY <1>1, <1>2
<1>4. SlotOk'
  <2> SUFFICES ASSUME NEW s \in Slots \ suspect'
               PROVE  Agrees(live'[s], Want(IF lock'[s[2]] = User THEN draft'[s[2]] ELSE row'[s[2]], s[1]))
    BY DEF SlotOk
  <2>1. s \notin suspect /\ live'[s] = live[s]
    BY <1>1, <1>2
  <2> QED BY <1>1, <2>1 DEF IInv, SlotOk
<1> QED BY <1>1, <1>2, <1>3, <1>4, EnvironmentStep DEF IInv, TypeOK

\* A slot that agrees is not static.
LEMMA AgreesNotStatic ==
    ASSUME NEW d \in Definitions \union {NoRow}, NEW n \in Nodes, NEW v, Agrees(v, Want(d, n))
    PROVE  v # Static
BY WantType, HaSyncAssumption DEF Agrees

\* A user's transaction changes a row and its nodes.
LEMMA UserStep ==
    ASSUME IInv, NEW r \in Rules, NEW d \in Definitions \union {NoRow}, NEW lost \in SUBSET Nodes,
           UserApply(r, d) \/ UserCommit(r) \/ UserRollback(r, lost)
    PROVE  IInv'
<1>1. /\ row \in [Rules -> Definitions \union {NoRow}] /\ draft \in [Rules -> Definitions \union {NoRow}]
      /\ lock \in [Rules -> Workers \union {Free, User}] /\ live \in [Slots -> Contents]
      /\ suspect \subseteq Slots
      /\ Free # User /\ Free \notin Workers /\ User \notin Workers
  BY HaSyncAssumption DEF IInv, TypeOK, Workers
<1>2. UNCHANGED <<named, worker, failures, streak, orphans>> /\ (Event \/ Quiet)
  BY DEF UserApply, UserCommit, UserRollback, Counts
<1>3. events' \in 0..MaxEvents
  BY <1>2, EventsType
<1>4. CASE UserApply(r, d)
  <2>1. /\ lock[r] = Free /\ UNCHANGED <<row, suspect>>
        /\ lock' = [lock EXCEPT ![r] = User] /\ draft' = [draft EXCEPT ![r] = d]
        /\ live' = [s \in Slots |-> IF s[2] = r /\ live[s] \notin {Api, Static}
                                    THEN Want(d, s[1]) ELSE live[s]]
    BY <1>4 DEF UserApply
  <2>2. live' \in [Slots -> Contents]
    <3>1. \A s \in Slots : Want(d, s[1]) \in Contents
      BY WantType DEF Slots, Contents
    <3> QED BY <1>1, <2>1, <3>1
  <2>3. SlotOk'
    <3> SUFFICES ASSUME NEW s \in Slots \ suspect
                 PROVE  Agrees(live'[s], Want(IF lock'[s[2]] = User THEN draft'[s[2]] ELSE row'[s[2]], s[1]))
      BY <2>1 DEF SlotOk
    <3>1. s[1] \in Nodes /\ s[2] \in Rules
      BY DEF Slots
    <3>2. CASE s[2] = r
      <4>1. lock'[s[2]] = User /\ draft'[s[2]] = d
        BY <1>1, <2>1, <3>2
      <4>2. Agrees(live[s], Want(row[r], s[1]))
        BY <1>1, <2>1, <3>2 DEF IInv, SlotOk
      <4>3. live[s] # Static
        BY <1>1, <3>1, <4>2, AgreesNotStatic
      <4>4. live'[s] = Want(d, s[1]) \/ live'[s] = Api
        BY <2>1, <3>2, <4>3
      <4> QED BY <4>1, <4>4 DEF Agrees
    <3>3. CASE s[2] # r
      <4>1. live'[s] = live[s] /\ lock'[s[2]] = lock[s[2]] /\ draft'[s[2]] = draft[s[2]]
        BY <1>1, <2>1, <3>1, <3>3
      <4> QED BY <2>1, <4>1 DEF IInv, SlotOk
    <3> QED BY <3>2, <3>3
  <2>4. /\ draft' \in [Rules -> Definitions \union {NoRow}]
        /\ lock' \in [Rules -> Workers \union {Free, User}]
        /\ \A q \in Rules, w \in Workers : lock'[q] = w => lock[q] = w
    BY <1>1, <2>1
  <2> QED BY <1>1, <1>2, <1>3, <2>1, <2>2, <2>3, <2>4, EnvironmentStep DEF IInv, TypeOK
<1>5. CASE UserCommit(r)
  <2>1. /\ lock[r] = User /\ UNCHANGED <<draft, live, suspect>>
        /\ lock' = [lock EXCEPT ![r] = Free] /\ row' = [row EXCEPT ![r] = draft[r]]
    BY <1>5 DEF UserCommit
  <2>2. SlotOk'
    <3> SUFFICES ASSUME NEW s \in Slots \ suspect
                 PROVE  Agrees(live[s], Want(IF lock'[s[2]] = User THEN draft[s[2]] ELSE row'[s[2]], s[1]))
      BY <2>1 DEF SlotOk
    <3>1. s[2] \in Rules
      BY DEF Slots
    <3>2. (IF lock'[s[2]] = User THEN draft[s[2]] ELSE row'[s[2]])
            = (IF lock[s[2]] = User THEN draft[s[2]] ELSE row[s[2]])
      BY <1>1, <2>1, <3>1
    <3> QED BY <3>2 DEF IInv, SlotOk
  <2>3. /\ row' \in [Rules -> Definitions \union {NoRow}]
        /\ lock' \in [Rules -> Workers \union {Free, User}]
        /\ \A q \in Rules, w \in Workers : lock'[q] = w => lock[q] = w /\ row'[q] = row[q]
    BY <1>1, <2>1
  <2> QED BY <1>1, <1>2, <1>3, <2>1, <2>2, <2>3, EnvironmentStep DEF IInv, TypeOK
<1>6. CASE UserRollback(r, lost)
  <2>1. /\ lock[r] = User /\ UNCHANGED row
        /\ lock' = [lock EXCEPT ![r] = Free] /\ draft' = [draft EXCEPT ![r] = row[r]]
        /\ live' = [s \in Slots |-> IF s[2] = r /\ s[1] \notin lost /\ live[s] \notin {Api, Static}
                                    THEN Want(row[r], s[1]) ELSE live[s]]
        /\ suspect' = suspect \union {s \in Slots : s[2] = r /\ s[1] \in lost}
    BY <1>6 DEF UserRollback
  <2>2. live' \in [Slots -> Contents]
    <3>1. \A s \in Slots : Want(row[r], s[1]) \in Contents
      BY <1>1, WantType DEF Slots, Contents
    <3> QED BY <1>1, <2>1, <3>1
  <2>3. SlotOk'
    <3> SUFFICES ASSUME NEW s \in Slots \ suspect'
                 PROVE  Agrees(live'[s], Want(IF lock'[s[2]] = User THEN draft'[s[2]] ELSE row'[s[2]], s[1]))
      BY DEF SlotOk
    <3>1. s[1] \in Nodes /\ s[2] \in Rules /\ s \notin suspect
      BY <2>1 DEF Slots
    <3>2. CASE s[2] = r
      <4>1. lock'[s[2]] # User /\ row'[s[2]] = row[r] /\ s[1] \notin lost
        BY <1>1, <2>1, <3>1, <3>2
      <4>2. Agrees(live[s], Want(draft[r], s[1])) /\ draft[r] \in Definitions \union {NoRow}
        BY <1>1, <2>1, <3>1, <3>2 DEF IInv, SlotOk
      <4>3. live[s] # Static
        BY <3>1, <4>2, AgreesNotStatic
      <4>4. live'[s] = Want(row[r], s[1]) \/ live'[s] = Api
        BY <2>1, <3>2, <4>1, <4>3
      <4> QED BY <4>1, <4>4 DEF Agrees
    <3>3. CASE s[2] # r
      <4>1. live'[s] = live[s] /\ lock'[s[2]] = lock[s[2]] /\ draft'[s[2]] = draft[s[2]]
        BY <1>1, <2>1, <3>1, <3>3
      <4> QED BY <2>1, <3>1, <4>1 DEF IInv, SlotOk
    <3> QED BY <3>2, <3>3
  <2>4. /\ draft' \in [Rules -> Definitions \union {NoRow}]
        /\ lock' \in [Rules -> Workers \union {Free, User}] /\ suspect' \subseteq Slots
        /\ \A q \in Rules, w \in Workers : lock'[q] = w => lock[q] = w
    BY <1>1, <2>1
  <2> QED BY <1>1, <1>2, <1>3, <2>1, <2>2, <2>3, <2>4, EnvironmentStep DEF IInv, TypeOK
<1> QED BY <1>4, <1>5, <1>6

\* A process that starts again has no visits, no locks and no counts.
LEMMA CrashStep ==
    ASSUME IInv, NEW p \in Procs, Crash(p)
    PROVE  IInv'
<1> DEFINE mine == {w \in Workers : w[1] = p}
<1>1. /\ UNCHANGED <<row, draft, live, suspect>> /\ Event
      /\ orphans' = orphans \union {Orphan(w) : w \in {x \in mine : worker[x].pc = "change"}}
      /\ worker' = [w \in Workers |-> IF w \in mine THEN Resting ELSE worker[w]]
      /\ lock' = [r \in Rules |-> IF lock[r] \in mine THEN Free ELSE lock[r]]
      /\ named' = IF named = p THEN Nil ELSE named
      /\ failures' = [failures EXCEPT ![p] = [s \in Slots |-> 0]]
      /\ streak' = [streak EXCEPT ![p] = [s \in Slots |-> 0]]
  BY DEF Crash, Database
<1>2. events' \in 0..MaxEvents
  BY <1>1, EventsType
<1>3. /\ lock \in [Rules -> Workers \union {Free, User}] /\ worker \in [Workers -> WorkerStates]
      /\ failures \in [Procs -> [Slots -> 0..WarnCount]] /\ streak \in [Procs -> [Slots -> 0..WarnCount]]
      /\ named \in {q \in Procs : <<q, "timer">> \in Workers} \union {Nil}
      /\ Free # User /\ Free \notin Workers /\ User \notin Workers /\ 0 \in 0..WarnCount
  BY HaSyncAssumption DEF IInv, TypeOK, Workers
<1>4. /\ failures' \in [Procs -> [Slots -> 0..WarnCount]]
      /\ streak' \in [Procs -> [Slots -> 0..WarnCount]]
  BY <1>1, <1>3
<1>5. orphans' \subseteq Orphans
  <2>1. \A w \in mine : worker[w].pc = "change" => Orphan(w) \in Orphans
    BY OrphanType
  <2> QED BY <1>1, <2>1 DEF IInv, TypeOK
<1>6. \A r \in Rules : lock'[r] = User <=> lock[r] = User
  BY <1>1, <1>3
<1>7. SlotOk'
  BY <1>1, <1>6, SlotsSame
<1>8. \A w \in Workers : WellFormed(worker'[w])
  <2>1. \A w \in Workers : WellFormed(worker[w])
    BY DEF IInv, TypeOK, WellFormed
  <2> QED BY <1>1, <2>1, RestingType
<1>9. worker' \in [Workers -> WorkerStates]
  BY <1>1, <1>3, RestingType
<1>10. TypeOK'
  <2>1. \A x \in Workers :
          /\ worker'[x].pc \in {"list", "overrides", "todo"} \union Resending => worker'[x].node \in Nodes
          /\ worker'[x].pc \in Resending => worker'[x].rule \in Rules
    BY <1>8 DEF WellFormed
  <2>2. lock' \in [Rules -> Workers \union {Free, User}]
    BY <1>1, <1>3
  <2>3. named' \in {q \in Procs : <<q, "timer">> \in Workers} \union {Nil}
    BY <1>1, <1>3
  <2>4. /\ row' \in [Rules -> Definitions \union {NoRow}] /\ draft' \in [Rules -> Definitions \union {NoRow}]
        /\ live' \in [Slots -> Contents] /\ suspect' \subseteq Slots
    BY <1>1 DEF IInv, TypeOK
  <2> QED BY <1>2, <1>4, <1>5, <1>9, <2>1, <2>2, <2>3, <2>4 DEF TypeOK
<1>11. HolderOk'
  <2> SUFFICES ASSUME NEW r \in Rules, NEW w \in Workers, lock'[r] = w
               PROVE  /\ worker'[w].pc \in Resending /\ worker'[w].rule = r
                      /\ worker'[w].want = Want(row'[r], worker'[w].node)
    BY DEF HolderOk
  <2>1. lock[r] = w /\ w \notin mine
    BY <1>1, <1>3
  <2>2. worker'[w] = worker[w]
    BY <1>1, <2>1
  <2> QED BY <1>1, <2>1, <2>2 DEF IInv, HolderOk
<1>12. NamedLockInRound'
  <2> SUFFICES ASSUME named' # Nil PROVE worker'[<<named', "timer">>].pc # "idle"
    BY DEF NamedLockInRound
  <2>1. named' = named /\ named # p /\ <<named, "timer">> \in Workers
    BY <1>1, <1>3
  <2>2. worker'[<<named, "timer">>] = worker[<<named, "timer">>]
    BY <1>1, <2>1
  <2> QED BY <2>1, <2>2 DEF IInv, NamedLockInRound
<1> QED BY <1>7, <1>10, <1>11, <1>12 DEF IInv

(***************************************************************************)
(* The theorems.                                                           *)
(***************************************************************************)
LEMMA InitHolds == Init => IInv
<1> SUFFICES ASSUME Init PROVE IInv
  OBVIOUS
<1>1. /\ row \in [Rules -> Definitions \union {NoRow}] /\ draft = row
      /\ lock = [r \in Rules |-> Free] /\ named = Nil
      /\ live = [s \in Slots |-> Want(row[s[2]], s[1])]
      /\ worker = [w \in Workers |-> Resting]
      /\ failures = [p \in Procs |-> [s \in Slots |-> 0]] /\ streak = failures
      /\ orphans = {} /\ events = 0 /\ suspect = {}
  BY DEF Init
<1>2. Free # User /\ Free \notin Workers /\ 0 \in 0..WarnCount /\ 0 \in 0..MaxEvents
  BY HaSyncAssumption DEF Workers
<1>3. \A s \in Slots : s[1] \in Nodes /\ s[2] \in Rules
  BY DEF Slots
<1>4. live \in [Slots -> Contents]
  BY <1>1, <1>3, WantType DEF Contents
<1>5. TypeOK
  <2>1. \A w \in Workers : worker[w] = Resting
    BY <1>1
  <2>2. worker \in [Workers -> WorkerStates]
    BY <1>1, RestingType
  <2> QED BY <1>1, <1>2, <1>4, <2>1, <2>2, RestingType DEF TypeOK, WellFormed
<1>6. HolderOk
  BY <1>1, <1>2 DEF HolderOk
<1>7. SlotOk
  BY <1>1, <1>2, <1>3 DEF SlotOk, Agrees
<1>8. NamedLockInRound
  BY <1>1 DEF NamedLockInRound
<1> QED BY <1>5, <1>6, <1>7, <1>8 DEF IInv

\* Every step keeps the invariant.
LEMMA StepKeeps == IInv /\ [Next]_vars => IInv'
<1> SUFFICES ASSUME IInv, [Next]_vars PROVE IInv'
  OBVIOUS
<1>1. ASSUME NEW p \in Procs, StartRound(p) PROVE IInv'
  BY <1>1, StartRoundStep
<1>2. ASSUME NEW p \in Procs, NEW n \in Nodes, StartNotify(p, n) PROVE IInv'
  BY <1>2, StartNotifyStep
<1>3. ASSUME NEW w \in Workers, Step(w) PROVE IInv'
  BY <1>3, EndStep, ReadRulesStep, ListStep, ReadOverridesStep, LookStep, ChangeStep,
     ChangeRefusedStep, CommitStep DEF Step
<1>4. ASSUME NEW w \in Workers, LockRow(w) \/ Failure(w) PROVE IInv'
  BY <1>4, LockRowStep, ReadFailsStep, LockFailsStep, ChangeTimesOutStep, CommitStep DEF Failure
<1>5. CASE Environment
  <2>1. CASE LoseNamed \/ \E r \in Rules : LoseRow(r)
    BY <2>1, LoseStep
  <2>2. CASE \E r \in Rules : UserCommit(r)
    <3>1. NoRow \in Definitions \union {NoRow} /\ {} \in SUBSET Nodes
      OBVIOUS
    <3> QED BY <2>2, <3>1, UserStep
  <2>3. CASE \E r \in Rules, d \in Definitions \union {NoRow} : UserApply(r, d)
    <3>1. {} \in SUBSET Nodes
      OBVIOUS
    <3> QED BY <2>3, <3>1, UserStep
  <2>4. CASE \E r \in Rules, lost \in SUBSET Nodes : UserRollback(r, lost)
    <3>1. NoRow \in Definitions \union {NoRow}
      OBVIOUS
    <3> QED BY <2>4, <3>1, UserStep
  <2>5. CASE \E p \in Procs : Crash(p)
    BY <2>5, CrashStep
  <2>6. CASE \E o \in orphans : OrphanLands(o)
    BY <2>6, OrphanLandsStep
  <2>7. CASE \E s \in Slots, v \in Contents : External(s, v)
    BY <2>7, ExternalStep
  <2> QED BY <1>5, <2>1, <2>2, <2>3, <2>4, <2>5, <2>6, <2>7 DEF Environment
<1>6. CASE UNCHANGED vars
  BY <1>6, SlotsSame, EnvironmentStep DEF vars, IInv, TypeOK
<1> QED BY <1>1, <1>2, <1>3, <1>4, <1>5, <1>6 DEF Next

\* The inductive invariant holds in every reachable state.
THEOREM HaSyncInductive == Spec => []IInv
BY InitHolds, StepKeeps, PTL DEF Spec

\* What the database says is what an undisturbed node runs, whenever nobody
\* is at work on the rule (SlotsAgree): resends racing each other, users and
\* lost locks do not spoil what they report as done.
THEOREM UndisturbedSlotsAgree == Spec => []SlotsAgree
<1>1. IInv => SlotsAgree
  BY HaSyncAssumption DEF IInv, SlotOk, SlotsAgree
<1> QED BY <1>1, HaSyncInductive, PTL

\* The named lock is only held by a process in a round (NamedLockInRound).
THEOREM NamedLockReturned == Spec => []NamedLockInRound
<1>1. IInv => NamedLockInRound
  BY DEF IInv
<1> QED BY <1>1, HaSyncInductive, PTL
=============================================================================

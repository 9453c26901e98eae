-------------------------- MODULE RuleCompoundProofs --------------------------
(***************************************************************************)
(* Proofs about RuleCompound, for any nodes, groups, rules and actors, and *)
(* for any number of requests at the same time.                            *)
(*                                                                         *)
(* RunningIsWritten needs hardly more than the types: every transaction    *)
(* looks, under its lock, at what the nodes of its place run.  The others  *)
(* are about what a request remembers between its transactions: which row  *)
(* it read and whose (RunOK), and how far it has come from the rows it     *)
(* began with (Progress).                                                  *)
(***************************************************************************)
EXTENDS RuleCompound, TLAPS

\* The states a request of each kind goes through.
Stage(r) ==
    \/ r.op = "none" /\ r.pc = "idle"
    \/ r.op = "add" /\ r.pc \in {"check", "add", "ok", "failed"}
    \/ r.op = "import" /\ r.pc \in {"inspect", "check", "read", "edit", "shadow", "delete",
                                    "add", "recheck", "readd", "ok", "failed"}
    \/ r.op = "copy" /\ r.pc \in {"read", "check", "add", "ok", "failed"}
    \/ r.op = "move" /\ r.pc \in {"read", "shadow", "delete", "check", "add", "recheck",
                                  "readd", "remove", "unmake", "ok", "failed"}
    \/ r.op \in {"pauseNode", "resumeNode"} /\ r.pc \in {"list", "each", "ok"}
    \/ r.op \in {"apiEdit", "apiDelete"} /\ r.pc \in {"own", "status", "write", "ok", "failed"}

\* A row that is a's, or that a may change as an administrator.
RowFor(a, x) == x \in Rows /\ (a \in Admins \/ x.owner = a)

\* What request r of a remembers: before it has read, nothing; afterwards the row
\* it read and the row it makes of it.
RunOK(a, r) ==
    /\ Stage(r)
    /\ r.op \in {"import", "copy", "move"} => r.at \in Places
    /\ r.op # "none" => r.to \in Places
    /\ r.op = "import" => r.to = r.at
    /\ r.op \in {"copy", "move"} => r.to # r.at
    /\ r.op = "add" \/ r.pc \in {"inspect", "read"} => r.snap = NoRow
    /\ r.snap # NoRow => RowFor(a, r.snap)
    /\ r.pc = "inspect" \/ (r.op = "import" /\ r.pc = "read") =>
         r.rule.body \in Bodies /\ r.rule.owner = a
    /\ r.pc \in {"check", "add", "edit", "shadow", "delete", "recheck", "readd", "remove", "unmake"}
         => RowFor(a, r.rule)
    /\ r.pc \in {"edit", "shadow", "delete", "recheck", "readd", "remove", "unmake"}
         => r.snap # NoRow
    /\ r.op \in {"copy", "move"} /\ r.pc \in {"check", "add"} => r.snap # NoRow
    /\ r.pc \in {"shadow", "delete", "recheck", "readd"} => DeletedFirst(r)
    /\ r.pc \in {"remove", "unmake"} => ~DeletedFirst(r)
    /\ r.pc = "each" => \A p \in r.todo : r.to \in Members[p]

\* How far request r of a has come from the rows w, as long as nobody else has
\* changed the key: it has done nothing yet, or the old row is gone and nothing
\* runs in its place, or the new one is there as well.
Progress(a, r, w, R, L) ==
    w # Nobody =>
    /\ r.snap # NoRow /\ r.pc \notin {"ok", "failed"} =>
         /\ w[r.at] = r.snap
         /\ r.op = "import" => r.rule.on = r.snap.on /\ r.rule.owner = r.snap.owner
         /\ r.op \in {"copy", "move"} => r.rule = Placed(r.snap, r.to)
    /\ r.pc \in {"inspect", "read", "edit", "shadow", "delete"} => R = w
    /\ r.pc = "edit" => r.rule.off = r.snap.off /\ r.rule.body.hard = r.snap.body.hard
    /\ r.pc = "delete" => \A n \in At(r.at, r.snap) : L[n] # Api
    /\ r.pc \in {"check", "add"} /\ ~DeletedFirst(r) =>
         R = w /\ (r.op = "import" => w[r.at] = NoRow)
    /\ r.pc \in {"check", "add", "recheck", "readd"} /\ DeletedFirst(r) =>
         R = [w EXCEPT ![r.at] = NoRow] /\ \A n \in At(r.at, r.snap) : L[n] = None
    /\ r.pc \in {"remove", "unmake"} => R = [w EXCEPT ![r.to] = r.rule] /\ w[r.to] = NoRow
    /\ r.op = "pauseNode" /\ r.pc = "each" /\ ~r.stuck =>
         \A p \in Places :
           (a \in Admins \/ R[p].owner = a) /\ r.to \in At(p, R[p]) => p \in r.todo

\* AsIfAtomic for request r of a.
Atomic(a, r, w, R) ==
    w # Nobody =>
    /\ r.op \in {"add", "import", "copy", "move"}
       => /\ r.pc = "ok" => R = Effect(r, w)
          /\ r.pc = "failed" /\ ~r.stuck =>
               R = w \/ (r.op \in {"import", "move"} /\ ~Restorable(a, r.at, w))
    /\ r.op = "pauseNode" /\ r.pc = "ok" /\ ~r.stuck
       => \A p \in Places :
            (a \in Admins \/ R[p].owner = a) => r.to \notin At(p, R[p])

Mine(a, r, w, R, L) == RunOK(a, r) /\ Progress(a, r, w, R, L) /\ Atomic(a, r, w, R)

\* The inductive invariant.
CInv ==
    /\ TypeOK
    /\ \A a \in Actors : Mine(a, run[a], was[a], rows, live)
    /\ RunningIsWritten

Lives == {None, Api, Ui(Keep)} \union {Ui(b) : b \in Bodies}
RowsOK == rows \in [Places -> {NoRow} \union Rows] /\ live \in [Nodes -> Lives]

(***************************************************************************)
(* Rows and rules.                                                         *)
(***************************************************************************)

\* No row is not a row, and nothing runs for it.
LEMMA RowKinds ==
    /\ NoRow \notin Rows /\ NoRow.owner = Nobody /\ NoRow \in Sketches /\ Rows \subseteq Sketches
    /\ \A p : At(p, NoRow) = {}
    /\ \A p \in Places : Members[p] \subseteq Nodes
    /\ \A r \in Rows : r # NoRow /\ r.owner # Nobody
BY CompoundAssumption DEF NoRow, Rows, Sketches, At

\* A node runs nothing, a rule of the API or one of the UI.
LEMMA LiveKinds ==
    /\ None \in Lives /\ Api \in Lives /\ \A b \in Bodies \union {Keep} : Ui(b) \in Lives
    /\ \A x \in Lives : x.origin = "ui" \/ x = None \/ x = Api
    /\ None.origin = "none" /\ Api.origin = "api" /\ \A b : Ui(b).origin = "ui"
    /\ \A b : Ui(b) # None /\ Ui(b) # Api
    /\ None # Api
    /\ \A x \in Lives : [x EXCEPT !.body = Keep] \in Lives
                          /\ [x EXCEPT !.body = Keep].origin = x.origin
<1>1. /\ None \in Lives /\ Api \in Lives /\ \A b \in Bodies \union {Keep} : Ui(b) \in Lives
      /\ None.origin = "none" /\ Api.origin = "api" /\ \A b : Ui(b).origin = "ui"
      /\ None # Api
  BY DEF Lives, None, Api, Ui
<1>2. \A b : Ui(b) # None /\ Ui(b) # Api
  BY DEF None, Api, Ui
<1>3. \A x \in Lives : x = None \/ x = Api \/ \E b : x = Ui(b)
  BY DEF Lives
<1>4. ASSUME NEW x \in Lives
      PROVE  [x EXCEPT !.body = Keep] \in Lives /\ [x EXCEPT !.body = Keep].origin = x.origin
  <2>1. /\ [None EXCEPT !.body = Keep] = None /\ [Api EXCEPT !.body = Keep] = Api
        /\ \A b : [Ui(b) EXCEPT !.body = Keep] = Ui(Keep)
    BY DEF None, Api, Ui
  <2>2. QED
    BY <1>1, <1>3, <2>1
<1>5. QED
  BY <1>1, <1>2, <1>3, <1>4

\* AsIfAtomic is about each request on its own.
LEMMA AtomicParts ==
    ASSUME \A a \in Actors : Mine(a, run[a], was[a], rows, live)
    PROVE  AsIfAtomic
BY DEF Mine, Atomic, AsIfAtomic, Own

\* A transaction changes the row of one place and the nodes it is for there; it
\* looked at those that start a rule.
LEMMA OneRow ==
    ASSUME RowsOK, RunningIsWritten, astray \subseteq astray',
           NEW p \in Places, \A q \in Places \ {p} : rows'[q] = rows[q],
           \A n \in Nodes \ astray :
             /\ n \in At(p, rows'[p]) =>
                  /\ n \in At(p, rows[p]) \/ live[n] = None
                  /\ live'[n] = Api \/ live'[n] = Ui(rows'[p].body)
             /\ n \notin At(p, rows'[p]) =>
                  \/ live'[n].origin # "ui" /\ (n \in At(p, rows[p]) \/ live'[n] = live[n])
                  \/ live'[n] = live[n] /\ n \notin At(p, rows[p])
    PROVE  RunningIsWritten'
<1> SUFFICES ASSUME NEW n \in Nodes \ astray'
             PROVE  /\ live'[n].origin = "ui" => \E q \in Places : n \in At(q, rows'[q])
                    /\ \A q \in Places : n \in At(q, rows'[q]) =>
                         /\ \A s \in Places : n \in At(s, rows'[s]) => s = q
                         /\ live'[n] \in {Api, Ui(rows'[q].body)}
  BY DEF RunningIsWritten, At
<1>1. /\ n \in Nodes \ astray
      /\ live[n].origin = "ui" => \E q \in Places : n \in At(q, rows[q])
      /\ \A q \in Places : n \in At(q, rows[q]) =>
           /\ \A s \in Places : n \in At(s, rows[s]) => s = q
           /\ live[n] \in {Api, Ui(rows[q].body)}
  BY DEF RunningIsWritten
<1>2. \A q \in Places \ {p} : At(q, rows'[q]) = At(q, rows[q])
  OBVIOUS
<1>3. CASE n \in At(p, rows'[p])
  <2>1. ~\E q \in Places \ {p} : n \in At(q, rows[q])
    BY <1>1, <1>3, LiveKinds
  <2>2. QED
    BY <1>2, <1>3, <2>1, <1>1
<1>4. CASE n \notin At(p, rows'[p])
  <2>1. CASE live'[n].origin # "ui" /\ n \in At(p, rows[p])
    <3>1. ~\E q \in Places \ {p} : n \in At(q, rows[q])
      BY <1>1, <2>1
    <3>2. QED
      BY <1>2, <1>4, <2>1, <3>1
  <2>2. CASE live'[n] = live[n] /\ n \notin At(p, rows[p])
    BY <1>1, <1>2, <1>4, <2>2
  <2>3. CASE live'[n].origin # "ui" /\ live'[n] = live[n]
    BY <1>1, <1>2, <1>4, <2>3
  <2>4. QED
    BY <1>1, <1>4, <2>1, <2>2, <2>3
<1>5. QED
  BY <1>3, <1>4

\* The rows and the nodes after a step that is not out of step with the database.
Good == RowsOK' /\ RunningIsWritten'

\* A row put in, all of whose nodes were free.
LEMMA AddedGood ==
    ASSUME RowsOK, RunningIsWritten, astray \subseteq astray',
           NEW p \in Places, NEW r \in Rows, CanAdd(p, r), Added(p, r)
    PROVE  Good
<1>1. /\ rows' \in [Places -> {NoRow} \union Rows] /\ rows'[p] = r
      /\ \A q \in Places \ {p} : rows'[q] = rows[q]
      /\ rows[p] = NoRow /\ At(p, rows[p]) = {}
      /\ \A n \in At(p, r) : live[n] = None
  BY RowKinds DEF RowsOK, Added, CanAdd
<1>2. \A n \in Nodes : live'[n] = IF n \in At(p, r) THEN Ui(r.body) ELSE live[n]
  BY DEF Added
<1>3. r.body \in Bodies
  BY DEF Rows
<1>4. live' \in [Nodes -> Lives]
  BY <1>2, <1>3, LiveKinds DEF RowsOK, Added
<1>5. RunningIsWritten'
  BY <1>1, <1>2, OneRow
<1>6. QED
  BY <1>1, <1>4, <1>5 DEF Good, RowsOK

\* The fields of a row that is there.
LEMMA RowFields ==
    ASSUME RowsOK, NEW p \in Places, rows[p] # NoRow
    PROVE  /\ rows[p] \in Rows /\ rows[p].body \in Bodies /\ rows[p].on \in BOOLEAN
           /\ rows[p].owner \in Actors /\ rows[p].off \subseteq Nodes
           /\ rows[p].body.hard \in Hards
           /\ \A b \in Bodies : [rows[p] EXCEPT !.body = b] \in Rows
           /\ \A x \in BOOLEAN : [rows[p] EXCEPT !.on = x] \in Rows
           /\ \A S \in SUBSET Nodes : [rows[p] EXCEPT !.off = S] \in Rows
<1>1. rows[p] \in Rows
  BY DEF RowsOK
<1>2. QED
  BY <1>1 DEF Rows, Bodies

\* A row that is edited: none of its nodes runs a rule of an API client.
LEMMA EditedGood ==
    ASSUME RowsOK, RunningIsWritten, astray \subseteq astray',
           NEW a, NEW p \in Places, NEW b \in Bodies, CanEdit(a, p), Edited(p, b)
    PROVE  Good
<1>1. PICK r, x : r = rows[p] /\ x = [hard |-> r.body.hard, soft |-> b.soft]
  OBVIOUS
<1>2. r # NoRow /\ \A n \in At(p, r) : live[n] # Api
  BY <1>1 DEF CanEdit, Own
<1>3. r \in Rows /\ x \in Bodies /\ [r EXCEPT !.body = x] \in Rows
  BY <1>1, <1>2, RowFields DEF Bodies
<1>4. PICK y : y = [r EXCEPT !.body = x]
  OBVIOUS
<1>5. y.body = x /\ y.on = r.on /\ y.off = r.off
  BY <1>3, <1>4 DEF Rows
<1>6. rows' = [rows EXCEPT ![p] = y]
  BY <1>1, <1>4 DEF Edited
<1>7. /\ rows' \in [Places -> {NoRow} \union Rows] /\ rows'[p] = y
      /\ \A q \in Places \ {p} : rows'[q] = rows[q]
  BY <1>3, <1>4, <1>6 DEF RowsOK
<1>8. At(p, y) = At(p, r)
  BY <1>5 DEF At
<1>9. /\ \A n \in Nodes : live'[n] = IF n \in At(p, r) THEN Ui(x) ELSE live[n]
      /\ live' \in [Nodes -> Lives]
  BY <1>1, <1>3, LiveKinds DEF Edited, RowsOK
<1>10. RunningIsWritten'
  BY <1>1, <1>5, <1>7, <1>8, <1>9, OneRow
<1>11. QED
  BY <1>7, <1>9, <1>10 DEF Good, RowsOK

\* A row that is not there, or not for these nodes, any more.
LEMMA StoppedGood ==
    ASSUME RowsOK, RunningIsWritten, astray \subseteq astray',
           NEW p \in Places, NEW r \in {NoRow} \union Rows, rows' = [rows EXCEPT ![p] = r],
           At(p, r) \subseteq At(p, rows[p]), r.body = rows[p].body \/ At(p, r) = {},
           Stopped(At(p, rows[p]) \ At(p, r))
    PROVE  Good
<1>1. /\ rows' \in [Places -> {NoRow} \union Rows] /\ rows'[p] = r
      /\ \A q \in Places \ {p} : rows'[q] = rows[q]
  BY DEF RowsOK
<1>2. PICK S : S = At(p, rows[p]) \ At(p, r)
  OBVIOUS
<1>3. /\ \A n \in Nodes : live'[n] = IF n \in S /\ live[n].origin = "ui" THEN None ELSE live[n]
      /\ live' \in [Nodes -> Lives]
  BY <1>2, LiveKinds DEF Stopped, RowsOK
<1>4. \A n \in Nodes : n \in S => live'[n].origin # "ui"
  BY <1>3, LiveKinds
<1>5. \A n \in Nodes \ astray : n \in At(p, rows[p]) =>
        live[n] \in {Api, Ui(rows[p].body)}
  BY DEF RunningIsWritten
<1>6. \A n \in Nodes \ astray : n \in At(p, r) =>
        live'[n] \in {Api, Ui(r.body)} /\ n \in At(p, rows[p])
  BY <1>2, <1>3, <1>5
<1>7. \A n \in Nodes : n \notin At(p, r) =>
        \/ live'[n].origin # "ui" /\ n \in At(p, rows[p])
        \/ live'[n] = live[n] /\ n \notin At(p, rows[p])
  BY <1>2, <1>3, <1>4
<1>8. RunningIsWritten'
  BY <1>1, <1>6, <1>7, OneRow
<1>9. QED
  BY <1>1, <1>3, <1>8 DEF Good, RowsOK

\* A row that is deleted: only rules of the UI go with it.
LEMMA DeletedGood ==
    ASSUME RowsOK, RunningIsWritten, astray \subseteq astray',
           NEW p \in Places, Deleted(p)
    PROVE  Good
BY RowKinds, StoppedGood DEF Deleted

\* A row that is paused, or resumed on nodes that were all free.
LEMMA SwitchedGood ==
    ASSUME RowsOK, RunningIsWritten, astray \subseteq astray', NEW a,
           NEW p \in Places, NEW on \in BOOLEAN, CanSwitch(a, p, on), Switched(p, on)
    PROVE  Good
<1>1. PICK r : r = [rows[p] EXCEPT !.on = on]
  OBVIOUS
<1>2. rows[p] # NoRow /\ rows[p].on # on /\ rows' = [rows EXCEPT ![p] = r]
  BY <1>1 DEF CanSwitch, Own, Switched
<1>3. r \in Rows /\ r.body = rows[p].body /\ r.off = rows[p].off /\ r.on = on /\ r.body \in Bodies
  BY <1>1, <1>2, RowFields DEF Rows
<1>4. CASE on
  <2>1. At(p, rows[p]) = {} /\ At(p, r) = Members[p] \ r.off
    BY <1>2, <1>3, <1>4, RowFields DEF At
  <2>2. \A n \in At(p, r) : live[n] = None
    BY <1>3, <1>4, <2>1 DEF CanSwitch
  <2>3. live' = [n \in Nodes |-> IF n \in At(p, r) THEN Ui(r.body) ELSE live[n]]
    BY <1>1, <1>4 DEF Switched
  <2>4. live' \in [Nodes -> Lives]
    BY <1>3, <2>3, LiveKinds DEF RowsOK
  <2>5. /\ rows' \in [Places -> {NoRow} \union Rows] /\ rows'[p] = r
        /\ \A q \in Places \ {p} : rows'[q] = rows[q]
    BY <1>2, <1>3 DEF RowsOK
  <2>6. RunningIsWritten'
    BY <2>1, <2>2, <2>3, <2>5, OneRow
  <2>7. QED
    BY <2>4, <2>5, <2>6 DEF Good, RowsOK
<1>5. CASE ~on
  <2>1. At(p, r) = {}
    BY <1>3, <1>5 DEF At
  <2>2. Stopped(At(p, rows[p]) \ At(p, r))
    BY <1>5, <2>1 DEF Switched
  <2>3. QED
    BY <1>2, <1>3, <2>1, <2>2, StoppedGood
<1>6. QED
  BY <1>4, <1>5

\* A row that is stopped, or started, on one of its nodes.
LEMMA NodeStoppedGood ==
    ASSUME RowsOK, RunningIsWritten, astray \subseteq astray', NEW a, NEW p \in Places,
           NEW n \in Members[p], NEW on \in BOOLEAN, CanStop(a, p, n, on), NodeStopped(p, n, on)
    PROVE  Good
<1>1. PICK r : r = [rows[p] EXCEPT !.off = IF on THEN @ \ {n} ELSE @ \union {n}]
  OBVIOUS
<1>2. rows[p] # NoRow /\ rows' = [rows EXCEPT ![p] = r] /\ n \in Nodes
  BY <1>1, RowKinds DEF CanStop, Own, NodeStopped
<1>3. /\ r \in Rows /\ r.body = rows[p].body /\ r.on = rows[p].on /\ r.body \in Bodies
      /\ r.off = IF on THEN rows[p].off \ {n} ELSE rows[p].off \union {n}
  <2>1. (IF on THEN rows[p].off \ {n} ELSE rows[p].off \union {n}) \in SUBSET Nodes
    BY <1>2, RowFields
  <2>2. QED
    BY <1>1, <1>2, <2>1, RowFields DEF Rows
<1>4. /\ rows' \in [Places -> {NoRow} \union Rows] /\ rows'[p] = r
      /\ \A q \in Places \ {p} : rows'[q] = rows[q]
  BY <1>2, <1>3 DEF RowsOK
<1>5. CASE on
  <2>1. live' = [live EXCEPT ![n] = IF n \in At(p, r) THEN Ui(r.body) ELSE @]
    BY <1>1, <1>5 DEF NodeStopped
  <2>2. live' \in [Nodes -> Lives]
    BY <1>2, <1>3, <2>1, LiveKinds DEF RowsOK
  <2>3. \A m \in Nodes : m # n => (m \in At(p, r) <=> m \in At(p, rows[p])) /\ live'[m] = live[m]
    BY <1>3, <1>5, <2>1 DEF At, RowsOK
  <2>4. \A m \in Nodes \ astray : m \in At(p, rows[p]) => live[m] \in {Api, Ui(r.body)}
    BY <1>3 DEF RunningIsWritten
  <2>5. live'[n] = IF n \in At(p, r) THEN Ui(r.body) ELSE live[n]
    BY <1>2, <2>1 DEF RowsOK
  <2>6. /\ n \in At(p, r) => n \in At(p, rows[p]) \/ live[n] = None
        /\ n \notin At(p, r) => n \notin At(p, rows[p])
    BY <1>3, <1>5 DEF At, CanStop
  <2>7. RunningIsWritten'
    <3>1. \A m \in Nodes \ astray : m \in At(p, r) =>
            (m \in At(p, rows[p]) \/ live[m] = None) /\ (live'[m] = Api \/ live'[m] = Ui(r.body))
      BY <2>3, <2>4, <2>5, <2>6
    <3>2. \A m \in Nodes \ astray : m \notin At(p, r) =>
            live'[m] = live[m] /\ m \notin At(p, rows[p])
      BY <2>3, <2>5, <2>6
    <3>3. QED
      BY <1>4, <3>1, <3>2, OneRow
  <2>8. QED
    BY <1>4, <2>2, <2>7 DEF Good, RowsOK
<1>6. CASE ~on
  <2>1. At(p, r) = At(p, rows[p]) \ {n}
    BY <1>3, <1>6 DEF At
  <2>2. Stopped(At(p, rows[p]) \ At(p, r))
    <3>1. At(p, rows[p]) \ At(p, r) = At(p, rows[p]) \intersect {n}
      BY <2>1
    <3>2. QED
      BY <1>6, <3>1 DEF NodeStopped
  <2>3. QED
    BY <1>2, <1>3, <2>1, <2>2, StoppedGood
<1>7. QED
  BY <1>5, <1>6

\* A step that changes neither.
LEMMA SameGood ==
    ASSUME RowsOK, RunningIsWritten, astray \subseteq astray', UNCHANGED <<rows, live>>
    PROVE  Good
BY DEF Good, RowsOK, RunningIsWritten

(***************************************************************************)
(* The steps of a request.                                                 *)
(***************************************************************************)

\* What a step of a has to leave behind.
Kept(a) ==
    /\ Good
    /\ run' \in [Actors -> Runs] /\ \A b \in Actors \ {a} : run'[b] = run[b]
    /\ Mine(a, run'[a], was[a], rows', live')

\* The request goes on, or does not: for a reason or by a fault.
Goto(q, r, pc) == q = [r EXCEPT !.pc = pc]
Fault(q, r, pc) ==
    q = [[r EXCEPT !.pc = pc] EXCEPT !.stuck = @ \/ r.pc \in Undoing]
Fails(q, r, pc) == Goto(q, r, pc) \/ Fault(q, r, pc)

Like(q, r) ==
    /\ q.op = r.op /\ q.at = r.at /\ q.to = r.to
    /\ q.rule = r.rule /\ q.snap = r.snap /\ q.todo = r.todo

\* What the state a request goes to keeps of it.
LEMMA GotoFields ==
    ASSUME NEW r \in Runs, NEW pc \in Pcs, NEW q
    PROVE  /\ Goto(q, r, pc) => q \in Runs /\ Like(q, r) /\ q.pc = pc /\ q.stuck = r.stuck
           /\ Fault(q, r, pc) =>
                q \in Runs /\ Like(q, r) /\ q.pc = pc /\ (r.pc \in Undoing => q.stuck)
<1>1. Goto(q, r, pc) => q \in Runs /\ Like(q, r) /\ q.pc = pc /\ q.stuck = r.stuck
  BY DEF Goto, Runs, Like
<1>2. PICK s : s = (r.stuck \/ r.pc \in Undoing)
  OBVIOUS
<1>3. s \in BOOLEAN /\ (r.pc \in Undoing => s = TRUE)
  BY <1>2
<1>4. Fault(q, r, pc) => q \in Runs /\ Like(q, r) /\ q.pc = pc /\ q.stuck = s
  BY <1>2, <1>3 DEF Fault, Runs, Like
<1>5. QED
  BY <1>1, <1>3, <1>4

\* What is left to show for a step that puts a's request in state q,
LEMMA KeptBy ==
    ASSUME CInv, NEW CONSTANT a \in Actors, NEW q \in Runs, run' = [run EXCEPT ![a] = q],
           Good, Mine(a, q, was[a], rows', live')
    PROVE  Kept(a)
BY DEF Kept, CInv, TypeOK

\* and for one that only reads.
LEMMA KeptSame ==
    ASSUME CInv, NEW CONSTANT a \in Actors, NEW q \in Runs, run' = [run EXCEPT ![a] = q],
           UNCHANGED <<rows, live>>, astray \subseteq astray',
           Mine(a, q, was[a], rows, live)
    PROVE  Kept(a)
<1>1. RowsOK /\ RunningIsWritten
  BY DEF CInv, TypeOK, RowsOK, Lives
<1>2. Good
  BY <1>1, SameGood
<1>3. QED
  BY <1>2, KeptBy

\* The request of a, and what it has done so far.
LEMMA MyRun ==
    ASSUME CInv, NEW a \in Actors
    PROVE  /\ run[a] \in Runs /\ Mine(a, run[a], was[a], rows, live)
           /\ RowsOK /\ RunningIsWritten
           /\ was[a] = Nobody \/ was[a] \in [Places -> {NoRow} \union Rows]
BY DEF CInv, TypeOK, RowsOK, Lives

\* A request that gives up has changed nothing, or could not take it back.
LEMMA GivesUp ==
    ASSUME NEW a, NEW r \in Runs, NEW w, NEW R, NEW L, RunOK(a, r),
           NEW q \in Runs, Like(q, r), q.pc = "failed", Stage(q),
           \/ w = Nobody \/ R = w \/ q.stuck
           \/ r.op \in {"import", "move"} /\ ~Restorable(a, r.at, w)
    PROVE  Mine(a, q, w, R, L)
<1>1. RunOK(a, q)
  BY DEF RunOK, Like
<1>2. Progress(a, q, w, R, L)
  BY DEF Progress
<1>3. Atomic(a, q, w, R)
  BY DEF Atomic, Like, Stage
<1>4. QED
  BY <1>1, <1>2, <1>3 DEF Mine

\* Only then is the old row deleted: no API client has its nodes.
LEMMA ShadowStep ==
    ASSUME CInv, NEW CONSTANT a \in Actors, astray \subseteq astray', Shadow(a)
    PROVE  Kept(a)
<1>1. PICK r, w : r = run[a] /\ w = was[a]
  OBVIOUS
<1>2. r \in Runs /\ Mine(a, r, w, rows, live) /\ r.pc = "shadow"
  BY <1>1, MyRun DEF Shadow
<1>3. PICK q : q = run'[a]
  OBVIOUS
<1>4. /\ run' = [run EXCEPT ![a] = q] /\ UNCHANGED <<rows, live>>
      /\ \/ Goto(q, r, "delete") /\ \A n \in At(r.at, r.snap) : live[n] # Api
         \/ Fails(q, r, "failed")
  BY <1>1, <1>2, <1>3 DEF CInv, TypeOK, Shadow, Ask, Tx, To, Goto, Fails, Fault
<1>5. /\ q \in Runs /\ Like(q, r)
      /\ \/ q.pc = "delete" /\ \A n \in At(r.at, r.snap) : live[n] # Api
         \/ q.pc = "failed"
  BY <1>2, <1>4, GotoFields DEF Fails, Pcs
<1>6. Mine(a, q, w, rows, live)
  <2>1. CASE q.pc = "delete" /\ \A n \in At(r.at, r.snap) : live[n] # Api
    BY <1>2, <1>5, <2>1 DEF Mine, RunOK, Progress, Atomic, Stage, Like, DeletedFirst
  <2>2. CASE q.pc = "failed"
    <3>1. Stage(q) /\ (w = Nobody \/ rows = w)
      BY <1>2, <1>5, <2>2 DEF Mine, RunOK, Progress, Stage, Like
    <3>2. QED
      BY <1>2, <1>5, <2>2, <3>1, GivesUp DEF Mine
  <2>3. QED
    BY <1>5, <2>1, <2>2
<1>7. QED
  BY <1>1, <1>3, <1>4, <1>5, <1>6, KeptSame

\* The row an import finds decides whether it replaces one or adds one.
LEMMA InspectStep ==
    ASSUME CInv, NEW CONSTANT a \in Actors, astray \subseteq astray', Inspect(a)
    PROVE  Kept(a)
<1>1. PICK r, w, q : r = run[a] /\ w = was[a] /\ q = run'[a]
  OBVIOUS
<1>2. r \in Runs /\ Mine(a, r, w, rows, live) /\ r.pc = "inspect"
  BY <1>1, MyRun DEF Inspect
<1>3. PICK x : x = [r EXCEPT !.pc = "check", !.rule.off = IF @ = Keep THEN {} ELSE @]
  OBVIOUS
<1>4. /\ run' = [run EXCEPT ![a] = q] /\ UNCHANGED <<rows, live>>
      /\ \/ q = x /\ rows[r.at] = NoRow
         \/ Goto(q, r, "read") \/ Fails(q, r, "failed")
  BY <1>1, <1>2, <1>3 DEF CInv, TypeOK, Inspect, Ask, Tx, To, Goto, Fails, Fault
<1>5. /\ r.op = "import" /\ r.snap = NoRow /\ r.at \in Places /\ r.to = r.at
      /\ r.rule \in Sketches /\ r.rule.body \in Bodies /\ r.rule.owner = a
      /\ w = Nobody \/ rows = w
  BY <1>2 DEF Mine, RunOK, Progress, Stage, Runs
<1>6. CASE q = x /\ rows[r.at] = NoRow
  <2>1. PICK f \in SUBSET Nodes : f = IF r.rule.off = Keep THEN {} ELSE r.rule.off
    <3>1. r.rule.off = Keep \/ r.rule.off \in SUBSET Nodes
      BY <1>5 DEF Sketches
    <3>2. {} \in SUBSET Nodes
      OBVIOUS
    <3>3. QED
      BY <3>1, <3>2, Zenon
  <2>2. x = [r EXCEPT !.pc = "check", !.rule.off = f]
    BY <1>3, <2>1
  <2>3. x.rule \in Rows /\ x.rule \in Sketches /\ x.rule.owner = a
    BY <1>2, <1>5, <2>2 DEF Rows, Sketches, Runs
  <2>4. /\ q \in Runs /\ q.op = r.op /\ q.at = r.at /\ q.to = r.to /\ q.snap = r.snap
        /\ q.pc = "check" /\ q.rule \in Rows /\ q.rule.owner = a
    BY <1>2, <1>3, <1>6, <2>3 DEF Runs, Pcs
  <2>5. Mine(a, q, w, rows, live)
    BY <1>5, <1>6, <2>4 DEF Mine, RunOK, Progress, Atomic, Stage, DeletedFirst, RowFor
  <2>6. QED
    BY <1>1, <1>4, <2>4, <2>5, KeptSame
<1>7. CASE Goto(q, r, "read")
  <2>1. q \in Runs /\ Like(q, r) /\ q.pc = "read"
    BY <1>2, <1>7, GotoFields DEF Pcs
  <2>2. Mine(a, q, w, rows, live)
    BY <1>2, <1>5, <2>1 DEF Mine, RunOK, Progress, Atomic, Stage, Like
  <2>3. QED
    BY <1>1, <1>4, <2>1, <2>2, KeptSame
<1>8. CASE Fails(q, r, "failed")
  <2>1. q \in Runs /\ Like(q, r) /\ q.pc = "failed"
    BY <1>2, <1>8, GotoFields DEF Fails, Pcs
  <2>2. Mine(a, q, w, rows, live)
    <3>1. Stage(q)
      BY <1>5, <2>1 DEF Stage, Like
    <3>2. QED
      BY <1>2, <1>5, <2>1, <3>1, GivesUp DEF Mine
  <2>3. QED
    BY <1>1, <1>4, <2>1, <2>2, KeptSame
<1>9. QED
  BY <1>4, <1>6, <1>7, <1>8

\* Rows made of a row.
LEMMA NewRows ==
    ASSUME NEW row \in Rows
    PROVE  /\ \A x \in Sketches : x.body \in Bodies =>
                /\ Replaced(x, row) \in Rows /\ Replaced(x, row).owner = row.owner
                /\ Replaced(x, row).on = row.on
                /\ ~Recreate(x, row) => Replaced(x, row).off = row.off
                                          /\ Replaced(x, row).body.hard = row.body.hard
           /\ \A p \in Places : Placed(row, p) \in Rows /\ Placed(row, p).owner = row.owner
<1>1. /\ row.body \in Bodies /\ row.on \in BOOLEAN /\ row.owner \in Actors
      /\ row.off \in SUBSET Nodes
  BY DEF Rows
<1>2. ASSUME NEW x \in Sketches, x.body \in Bodies
      PROVE  /\ Replaced(x, row) \in Rows /\ Replaced(x, row).owner = row.owner
             /\ Replaced(x, row).on = row.on
             /\ ~Recreate(x, row) => Replaced(x, row).off = row.off
                                       /\ Replaced(x, row).body.hard = row.body.hard
  <2>1. PICK f \in SUBSET Nodes : f = IF x.off = Keep THEN row.off ELSE x.off
    <3>1. x.off = Keep \/ x.off \in SUBSET Nodes
      BY DEF Sketches
    <3>2. QED
      BY <1>1, <3>1, Zenon
  <2>3. Replaced(x, row) = [body |-> x.body, on |-> row.on, owner |-> row.owner, off |-> f]
    BY <2>1 DEF Replaced
  <2>4. QED
    BY <1>1, <1>2, <2>1, <2>3 DEF Rows, Recreate
<1>3. ASSUME NEW p \in Places
      PROVE  Placed(row, p) \in Rows /\ Placed(row, p).owner = row.owner
  <2>1. CASE p \in Groups
    BY <1>1, <2>1 DEF Rows, Placed
  <2>2. CASE p \notin Groups
    <3>1. PICK o : o = (row.on /\ p \notin row.off)
      OBVIOUS
    <3>2. o \in BOOLEAN
      BY <3>1
    <3>3. Placed(row, p) = [row EXCEPT !.off = {}, !.on = o]
      BY <2>2, <3>1 DEF Placed
    <3>4. QED
      BY <1>1, <3>2, <3>3 DEF Rows
  <2>3. QED
    BY <2>1, <2>2
<1>4. QED
  BY <1>2, <1>3

\* The row a may change.
LEMMA OwnRowFor ==
    ASSUME RowsOK, NEW a, NEW p \in Places, Own(a, p)
    PROVE  RowFor(a, rows[p]) /\ rows[p] # NoRow
BY RowFields DEF Own, RowFor

\* The row read is remembered, and is a's own or a is an administrator.
LEMMA ReadStep ==
    ASSUME CInv, NEW CONSTANT a \in Actors, astray \subseteq astray', Read(a)
    PROVE  Kept(a)
<1>1. PICK r, w, q : r = run[a] /\ w = was[a] /\ q = run'[a]
  OBVIOUS
<1>2. r \in Runs /\ Mine(a, r, w, rows, live) /\ r.pc = "read" /\ RowsOK
  BY <1>1, MyRun DEF Read
<1>3. PICK row : row = rows[r.at]
  OBVIOUS
<1>4. PICK s, m : s = [r EXCEPT !.snap = row, !.rule = Replaced(@, row),
                         !.pc = IF Recreate(r.rule, row) THEN "shadow" ELSE "edit"]
              /\ m = [r EXCEPT !.snap = row, !.rule = Placed(row, r.to),
                         !.pc = IF r.op = "move" /\ Overlap(r.at, r.to) THEN "shadow"
                                ELSE "check"]
  OBVIOUS
<1>5. /\ run' = [run EXCEPT ![a] = q] /\ UNCHANGED <<rows, live>>
      /\ \/ Own(a, r.at) /\ r.op = "import" /\ q = s
         \/ Own(a, r.at) /\ r.op # "import" /\ q = m
         \/ Fails(q, r, "failed")
  BY <1>1, <1>2, <1>3, <1>4 DEF CInv, TypeOK, Read, Tx, To, Goto, Fails, Fault
<1>6. /\ r.op \in {"import", "copy", "move"} /\ r.snap = NoRow /\ r.at \in Places
      /\ r.to \in Places
      /\ r.op = "import" => r.to = r.at
      /\ r.op \in {"copy", "move"} => r.to # r.at
      /\ r.op = "import" => r.rule.body \in Bodies
      /\ r.rule \in Sketches
      /\ w = Nobody \/ rows = w
  BY <1>2 DEF Mine, RunOK, Progress, Stage, Runs
<1>7. CASE Own(a, r.at) /\ r.op = "import" /\ q = s
  <2>1. RowFor(a, row) /\ row \in Rows /\ row # NoRow
    BY <1>2, <1>3, <1>6, <1>7, OwnRowFor DEF RowFor
  <2>2. PICK new : new = Replaced(r.rule, row)
    OBVIOUS
  <2>3. /\ new \in Rows /\ new.owner = row.owner /\ new.on = row.on
        /\ ~Recreate(r.rule, row) => new.off = row.off /\ new.body.hard = row.body.hard
    BY <1>6, <1>7, <2>1, <2>2, NewRows
  <2>4. /\ q \in Runs /\ q.op = "import" /\ q.at = r.at /\ q.to = r.to /\ q.snap = row
        /\ q.rule = new
        /\ \/ q.pc = "shadow"
           \/ q.pc = "edit" /\ new.off = row.off /\ new.body.hard = row.body.hard
    <3>1. PICK c \in {"shadow", "edit"} : c = IF Recreate(r.rule, row) THEN "shadow" ELSE "edit"
      OBVIOUS
    <3>2. q = [r EXCEPT !.snap = row, !.rule = new, !.pc = c]
      BY <1>4, <1>7, <2>2, <3>1
    <3>3. row \in Sketches /\ new \in Sketches /\ c \in Pcs
      BY <2>1, <2>3, RowKinds DEF Pcs
    <3>4. q \in Runs /\ q.op = r.op /\ q.at = r.at /\ q.to = r.to /\ q.snap = row
          /\ q.rule = new /\ q.pc = c
      BY <1>2, <3>2, <3>3 DEF Runs
    <3>5. QED
      BY <1>7, <2>3, <3>1, <3>4
  <2>5. RunOK(a, q)
    BY <1>6, <1>7, <2>1, <2>3, <2>4 DEF RunOK, Stage, DeletedFirst, RowFor
  <2>6. Progress(a, q, w, rows, live) /\ Atomic(a, q, w, rows)
    BY <1>3, <1>6, <2>3, <2>4 DEF Progress, Atomic
  <2>7. QED
    BY <1>1, <1>5, <2>4, <2>5, <2>6, KeptSame DEF Mine
<1>8. CASE Own(a, r.at) /\ r.op # "import" /\ q = m
  <2>1. RowFor(a, row) /\ row \in Rows /\ row # NoRow
    BY <1>2, <1>3, <1>6, <1>8, OwnRowFor DEF RowFor
  <2>2. PICK new : new = Placed(row, r.to)
    OBVIOUS
  <2>3. new \in Rows /\ new.owner = row.owner
    BY <1>6, <2>1, <2>2, NewRows
  <2>4. /\ q \in Runs /\ q.op = r.op /\ q.at = r.at /\ q.to = r.to /\ q.snap = row
        /\ q.rule = new
        /\ \/ q.pc = "shadow" /\ r.op = "move" /\ Overlap(r.at, r.to)
           \/ q.pc = "check" /\ ~(r.op = "move" /\ Overlap(r.at, r.to))
    <3>1. PICK c \in {"shadow", "check"} :
            c = IF r.op = "move" /\ Overlap(r.at, r.to) THEN "shadow" ELSE "check"
      OBVIOUS
    <3>2. q = [r EXCEPT !.snap = row, !.rule = new, !.pc = c]
      BY <1>4, <1>8, <2>2, <3>1
    <3>3. row \in Sketches /\ new \in Sketches /\ c \in Pcs
      BY <2>1, <2>3, RowKinds DEF Pcs
    <3>4. q \in Runs /\ q.op = r.op /\ q.at = r.at /\ q.to = r.to /\ q.snap = row
          /\ q.rule = new /\ q.pc = c
      BY <1>2, <3>2, <3>3 DEF Runs
    <3>5. QED
      BY <3>1, <3>4
  <2>5. RunOK(a, q)
    <3>1. RowFor(a, q.snap) /\ RowFor(a, q.rule) /\ q.op \in {"copy", "move"} /\ q.snap # NoRow
      BY <1>6, <1>8, <2>1, <2>3, <2>4 DEF RowFor
    <3>2. CASE q.pc = "shadow" /\ r.op = "move" /\ Overlap(r.at, r.to)
      BY <1>6, <2>4, <3>1, <3>2 DEF RunOK, Stage, DeletedFirst
    <3>3. CASE q.pc = "check"
      BY <1>6, <2>4, <3>1, <3>3 DEF RunOK, Stage
    <3>4. QED
      BY <2>4, <3>2, <3>3
  <2>6. Progress(a, q, w, rows, live) /\ Atomic(a, q, w, rows)
    BY <1>3, <1>6, <1>8, <2>2, <2>3, <2>4 DEF Progress, Atomic, DeletedFirst
  <2>7. QED
    BY <1>1, <1>5, <2>4, <2>5, <2>6, KeptSame DEF Mine
<1>9. CASE Fails(q, r, "failed")
  <2>1. q \in Runs /\ Like(q, r) /\ q.pc = "failed"
    BY <1>2, <1>9, GotoFields DEF Fails, Pcs
  <2>2. Stage(q)
    BY <1>6, <2>1 DEF Stage, Like
  <2>3. Mine(a, q, w, rows, live)
    BY <1>2, <1>6, <2>1, <2>2, GivesUp DEF Mine
  <2>4. QED
    BY <1>1, <1>5, <2>1, <2>3, KeptSame
<1>10. QED
  BY <1>5, <1>7, <1>8, <1>9

\* When the rows are as they were, the row edited is the row read, so that the
\* edit is all the import is for.
LEMMA EditInPlaceStep ==
    ASSUME CInv, NEW CONSTANT a \in Actors, astray \subseteq astray', EditInPlace(a)
    PROVE  Kept(a)
<1>1. PICK r, w, q : r = run[a] /\ w = was[a] /\ q = run'[a]
  OBVIOUS
<1>2. r \in Runs /\ Mine(a, r, w, rows, live) /\ r.pc = "edit" /\ RowsOK /\ RunningIsWritten
  BY <1>1, MyRun DEF EditInPlace
<1>3. /\ run' = [run EXCEPT ![a] = q]
      /\ \/ CanEdit(a, r.at) /\ Edited(r.at, r.rule.body) /\ Goto(q, r, "ok")
         \/ UNCHANGED <<rows, live>> /\ Fails(q, r, "failed")
  BY <1>1, <1>2 DEF CInv, TypeOK, EditInPlace, Ask, Tx, To, Goto, Fails, Fault
<1>4. /\ r.op = "import" /\ r.at \in Places /\ r.to = r.at
      /\ RowFor(a, r.rule) /\ RowFor(a, r.snap) /\ r.snap # NoRow
      /\ w # Nobody => /\ rows = w /\ w[r.at] = r.snap
                       /\ r.rule.on = r.snap.on /\ r.rule.owner = r.snap.owner
                       /\ r.rule.off = r.snap.off /\ r.rule.body.hard = r.snap.body.hard
  BY <1>2 DEF Mine, RunOK, Progress, Stage
<1>5. CASE CanEdit(a, r.at) /\ Edited(r.at, r.rule.body) /\ Goto(q, r, "ok")
  <2>1. q \in Runs /\ Like(q, r) /\ q.pc = "ok"
    BY <1>2, <1>5, GotoFields DEF Pcs
  <2>2. r.rule.body \in Bodies
    BY <1>4 DEF RowFor, Rows
  <2>3. Good
    BY <1>2, <1>4, <1>5, <2>2, EditedGood
  <2>4. RunOK(a, q)
    BY <1>2, <1>4, <2>1 DEF Mine, RunOK, Stage, Like
  <2>5. Progress(a, q, w, rows', live')
    BY <1>4, <2>1 DEF Progress, Like
  <2>6. ASSUME w # Nobody
        PROVE  rows' = Effect(q, w)
    <3>1. PICK x, y : x = [hard |-> r.snap.body.hard, soft |-> r.rule.body.soft]
                      /\ y = [r.snap EXCEPT !.body = x]
      OBVIOUS
    <3>2. rows' = [w EXCEPT ![r.at] = y]
      BY <1>4, <1>5, <2>6, <3>1 DEF Edited
    <3>3. x = r.rule.body
      BY <1>4, <2>2, <2>6, <3>1 DEF Bodies
    <3>4. y = [r.rule EXCEPT !.on = r.snap.on, !.owner = r.snap.owner]
      BY <1>4, <2>6, <3>1, <3>3 DEF RowFor, Rows
    <3>5. q.op = "import" /\ q.at = r.at /\ q.rule = r.rule
      BY <1>4, <2>1 DEF Like
    <3>6. QED
      BY <1>4, <2>6, <3>2, <3>4, <3>5 DEF Effect
  <2>7. Atomic(a, q, w, rows')
    BY <1>4, <2>1, <2>6 DEF Atomic, Like
  <2>8. QED
    BY <1>1, <1>3, <2>1, <2>3, <2>4, <2>5, <2>7, KeptBy DEF Mine
<1>6. CASE UNCHANGED <<rows, live>> /\ Fails(q, r, "failed")
  <2>1. q \in Runs /\ Like(q, r) /\ q.pc = "failed"
    BY <1>2, <1>6, GotoFields DEF Fails, Pcs
  <2>2. Stage(q)
    BY <1>4, <2>1 DEF Stage, Like
  <2>3. Mine(a, q, w, rows, live)
    BY <1>2, <1>4, <2>1, <2>2, GivesUp DEF Mine
  <2>4. QED
    BY <1>1, <1>3, <1>6, <2>1, <2>3, KeptSame
<1>7. QED
  BY <1>3, <1>5, <1>6

\* Once the old row is gone, nothing runs on its nodes.
LEMMA DeleteStep ==
    ASSUME CInv, NEW CONSTANT a \in Actors, astray \subseteq astray', Delete(a)
    PROVE  Kept(a)
<1>1. PICK r, w, q : r = run[a] /\ w = was[a] /\ q = run'[a]
  OBVIOUS
<1>2. r \in Runs /\ Mine(a, r, w, rows, live) /\ r.pc = "delete" /\ RowsOK /\ RunningIsWritten
  BY <1>1, MyRun DEF Delete
<1>3. /\ run' = [run EXCEPT ![a] = q]
      /\ \/ Deleted(r.at) /\ Goto(q, r, "check")
         \/ UNCHANGED <<rows, live>> /\ Fails(q, r, "failed")
  BY <1>1, <1>2 DEF CInv, TypeOK, Delete, Tx, To, Goto, Fails, Fault
<1>4. /\ r.op \in {"import", "move"} /\ r.at \in Places /\ DeletedFirst(r)
      /\ RowFor(a, r.rule) /\ RowFor(a, r.snap) /\ r.snap # NoRow
      /\ w # Nobody => /\ rows = w /\ w[r.at] = r.snap
                       /\ \A n \in At(r.at, r.snap) : live[n] # Api
  BY <1>2 DEF Mine, RunOK, Progress, Stage
<1>5. CASE Deleted(r.at) /\ Goto(q, r, "check")
  <2>1. q \in Runs /\ Like(q, r) /\ q.pc = "check"
    BY <1>2, <1>5, GotoFields DEF Pcs
  <2>2. Good
    BY <1>2, <1>4, <1>5, DeletedGood
  <2>3. RunOK(a, q)
    BY <1>2, <1>4, <2>1 DEF Mine, RunOK, Stage, Like
  <2>4. DeletedFirst(q)
    BY <1>4, <2>1 DEF DeletedFirst, Like
  <2>5. ASSUME w # Nobody, NEW n \in At(r.at, r.snap)
        PROVE  live'[n] = None
    <3>1. n \in Nodes
      BY <1>4, RowKinds DEF At
    <3>2. n \in At(r.at, rows[r.at]) /\ live[n] # Api /\ live[n] \in Lives
      BY <1>2, <1>4, <2>5, <3>1 DEF RowsOK
    <3>3. live'[n] = IF live[n].origin = "ui" THEN None ELSE live[n]
      BY <1>5, <3>1, <3>2 DEF Deleted, Stopped
    <3>4. QED
      BY <3>2, <3>3, LiveKinds
  <2>6. w # Nobody => rows' = [w EXCEPT ![r.at] = NoRow]
    BY <1>4, <1>5 DEF Deleted
  <2>7. Progress(a, q, w, rows', live')
    BY <1>2, <1>4, <2>1, <2>4, <2>5, <2>6 DEF Mine, Progress, Like
  <2>8. Atomic(a, q, w, rows')
    BY <1>4, <2>1 DEF Atomic, Like
  <2>9. QED
    BY <1>1, <1>3, <2>1, <2>2, <2>3, <2>7, <2>8, KeptBy DEF Mine
<1>6. CASE UNCHANGED <<rows, live>> /\ Fails(q, r, "failed")
  <2>1. q \in Runs /\ Like(q, r) /\ q.pc = "failed"
    BY <1>2, <1>6, GotoFields DEF Fails, Pcs
  <2>2. Stage(q)
    BY <1>4, <2>1 DEF Stage, Like
  <2>3. Mine(a, q, w, rows, live)
    BY <1>2, <1>4, <2>1, <2>2, GivesUp DEF Mine
  <2>4. QED
    BY <1>1, <1>3, <1>6, <2>1, <2>3, KeptSame
<1>7. QED
  BY <1>3, <1>5, <1>6

\* Where a request goes whose new row is refused: rows are as they were, or the
\* old row is to be put back.
LEMMA GivenStep ==
    ASSUME CInv, NEW CONSTANT a \in Actors, astray \subseteq astray', UNCHANGED <<rows, live>>,
           run[a].pc \in {"check", "add"},
           NEW q, run' = [run EXCEPT ![a] = q], Fails(q, run[a], Given(a))
    PROVE  Kept(a)
<1>1. PICK r, w : r = run[a] /\ w = was[a]
  OBVIOUS
<1>2. r \in Runs /\ Mine(a, r, w, rows, live) /\ r.pc \in {"check", "add"}
  BY <1>1, MyRun
<1>3. CASE DeletedFirst(r)
  <2>1. Given(a) = "recheck"
    BY <1>1, <1>3 DEF Given
  <2>2. q \in Runs /\ Like(q, r) /\ q.pc = "recheck"
    BY <1>1, <1>2, <2>1, GotoFields DEF Fails, Pcs
  <2>3. DeletedFirst(q) /\ q.snap # NoRow
    BY <1>3, <2>2 DEF DeletedFirst, Like
  <2>4. RunOK(a, q)
    BY <1>2, <1>3, <2>2, <2>3 DEF Mine, RunOK, Stage, Like, DeletedFirst
  <2>5. Progress(a, q, w, rows, live) /\ Atomic(a, q, w, rows)
    BY <1>2, <1>3, <2>2, <2>3 DEF Mine, Progress, Atomic, Like
  <2>6. QED
    BY <1>1, <2>2, <2>4, <2>5, KeptSame DEF Mine
<1>4. CASE ~DeletedFirst(r)
  <2>1. Given(a) = "failed"
    BY <1>1, <1>4 DEF Given
  <2>2. q \in Runs /\ Like(q, r) /\ q.pc = "failed"
    BY <1>1, <1>2, <2>1, GotoFields DEF Fails, Pcs
  <2>3. Stage(q) /\ (w = Nobody \/ rows = w)
    BY <1>2, <1>4, <2>2 DEF Mine, RunOK, Progress, Stage, Like
  <2>4. Mine(a, q, w, rows, live)
    BY <1>2, <2>2, <2>3, GivesUp DEF Mine
  <2>5. QED
    BY <1>1, <2>2, <2>4, KeptSame
<1>5. QED
  BY <1>3, <1>4

\* A new row refused after the old one is gone: that one has to be put back.
LEMMA CheckStep ==
    ASSUME CInv, NEW CONSTANT a \in Actors, astray \subseteq astray', Check(a)
    PROVE  Kept(a)
<1>1. PICK r, w, q : r = run[a] /\ w = was[a] /\ q = run'[a]
  OBVIOUS
<1>2. r \in Runs /\ Mine(a, r, w, rows, live) /\ r.pc = "check"
  BY <1>1, MyRun DEF Check
<1>3. /\ run' = [run EXCEPT ![a] = q] /\ UNCHANGED <<rows, live>>
      /\ Goto(q, r, "add") \/ Fails(q, r, Given(a))
  BY <1>1, <1>2 DEF CInv, TypeOK, Check, Ask, Tx, To, Goto, Fails, Fault
<1>4. CASE Goto(q, r, "add")
  <2>1. q \in Runs /\ Like(q, r) /\ q.pc = "add"
    BY <1>2, <1>4, GotoFields DEF Pcs
  <2>2. DeletedFirst(q) <=> DeletedFirst(r)
    BY <2>1 DEF DeletedFirst, Like
  <2>3. RunOK(a, q)
    BY <1>2, <2>1, <2>2 DEF Mine, RunOK, Stage, Like
  <2>4. Progress(a, q, w, rows, live) /\ Atomic(a, q, w, rows)
    BY <1>2, <2>1, <2>2 DEF Mine, Progress, Atomic, Like
  <2>5. QED
    BY <1>1, <1>3, <2>1, <2>3, <2>4, KeptSame DEF Mine
<1>5. CASE Fails(q, r, Given(a))
  BY <1>1, <1>2, <1>3, <1>5, GivenStep
<1>6. QED
  BY <1>3, <1>4, <1>5

\* The new row is all that was missing, or a disjoint move still has to delete the
\* old one.
LEMMA AddStep ==
    ASSUME CInv, NEW CONSTANT a \in Actors, astray \subseteq astray', Add(a)
    PROVE  Kept(a)
<1>1. PICK r, w, q : r = run[a] /\ w = was[a] /\ q = run'[a]
  OBVIOUS
<1>2. /\ r \in Runs /\ Mine(a, r, w, rows, live) /\ r.pc = "add" /\ RowsOK /\ RunningIsWritten
      /\ w = Nobody \/ w \in [Places -> {NoRow} \union Rows]
  BY <1>1, MyRun DEF Add
<1>3. /\ run' = [run EXCEPT ![a] = q]
      /\ \/ /\ CanAdd(r.to, r.rule) /\ Added(r.to, r.rule)
            /\ \/ r.op = "move" /\ ~DeletedFirst(r) /\ Goto(q, r, "remove")
               \/ ~(r.op = "move" /\ ~DeletedFirst(r)) /\ Goto(q, r, "ok")
         \/ UNCHANGED <<rows, live>> /\ Fails(q, r, Given(a))
  BY <1>1, <1>2 DEF CInv, TypeOK, Add, Tx, To, Goto, Fails, Fault
<1>4. /\ r.op \in {"add", "import", "copy", "move"} /\ r.to \in Places
      /\ r.op = "add" => r.snap = NoRow
      /\ r.op # "add" => r.at \in Places
      /\ r.op = "import" => r.to = r.at
      /\ r.op \in {"copy", "move"} => r.to # r.at /\ r.snap # NoRow
      /\ RowFor(a, r.rule) /\ r.rule \in Rows
  BY <1>2 DEF Mine, RunOK, Stage, RowFor
<1>5. w # Nobody =>
        /\ ~DeletedFirst(r) => rows = w /\ (r.op = "import" => w[r.at] = NoRow)
        /\ DeletedFirst(r) => rows = [w EXCEPT ![r.at] = NoRow]
        /\ r.snap # NoRow =>
             /\ w[r.at] = r.snap
             /\ r.op = "import" => r.rule.on = r.snap.on /\ r.rule.owner = r.snap.owner
             /\ r.op \in {"copy", "move"} => r.rule = Placed(r.snap, r.to)
  BY <1>2 DEF Mine, Progress
<1>6. CASE /\ CanAdd(r.to, r.rule) /\ Added(r.to, r.rule)
           /\ r.op = "move" /\ ~DeletedFirst(r) /\ Goto(q, r, "remove")
  <2>1. q \in Runs /\ Like(q, r) /\ q.pc = "remove"
    BY <1>2, <1>6, GotoFields DEF Pcs
  <2>2. Good
    BY <1>2, <1>4, <1>6, AddedGood
  <2>3. ~DeletedFirst(q)
    BY <1>6, <2>1 DEF DeletedFirst, Like
  <2>4. RunOK(a, q)
    BY <1>2, <1>4, <1>6, <2>1, <2>3 DEF Mine, RunOK, Stage, Like
  <2>5. w # Nobody => rows' = [w EXCEPT ![r.to] = r.rule] /\ w[r.to] = NoRow
    BY <1>5, <1>6 DEF CanAdd, Added
  <2>6. Progress(a, q, w, rows', live') /\ Atomic(a, q, w, rows')
    BY <1>4, <1>5, <1>6, <2>1, <2>5 DEF Progress, Atomic, Like
  <2>7. QED
    BY <1>1, <1>3, <2>1, <2>2, <2>4, <2>6, KeptBy DEF Mine
<1>7. CASE /\ CanAdd(r.to, r.rule) /\ Added(r.to, r.rule)
           /\ ~(r.op = "move" /\ ~DeletedFirst(r)) /\ Goto(q, r, "ok")
  <2>1. q \in Runs /\ Like(q, r) /\ q.pc = "ok"
    BY <1>2, <1>7, GotoFields DEF Pcs
  <2>2. Good
    BY <1>2, <1>4, <1>7, AddedGood
  <2>3. RunOK(a, q)
    BY <1>2, <1>4, <2>1 DEF Mine, RunOK, Stage, Like
  <2>4. Progress(a, q, w, rows', live')
    BY <1>4, <2>1 DEF Progress, Like
  <2>5. ASSUME w # Nobody
        PROVE  rows' = Effect(q, w)
    <3>1. /\ w \in [Places -> {NoRow} \union Rows] /\ rows' = [rows EXCEPT ![r.to] = r.rule]
          /\ q.op = r.op /\ q.at = r.at /\ q.to = r.to /\ q.rule = r.rule
      BY <1>2, <1>7, <2>1, <2>5 DEF Added, Like
    <3>2. CASE r.op = "add"
      <4>1. rows = w
        BY <1>4, <1>5, <2>5, <3>2 DEF DeletedFirst
      <4>2. QED
        BY <3>1, <3>2, <4>1 DEF Effect
    <3>3. CASE r.op = "import" /\ r.snap = NoRow
      <4>1. rows = w /\ w[r.at] = NoRow
        BY <1>5, <2>5, <3>3 DEF DeletedFirst
      <4>2. QED
        BY <1>4, <3>1, <3>3, <4>1 DEF Effect
    <3>4. CASE r.op = "import" /\ r.snap # NoRow
      <4>1. /\ rows = [w EXCEPT ![r.at] = NoRow] /\ w[r.at] = r.snap
            /\ r.rule.on = r.snap.on /\ r.rule.owner = r.snap.owner
        BY <1>5, <2>5, <3>4 DEF DeletedFirst
      <4>2. [r.rule EXCEPT !.on = r.snap.on, !.owner = r.snap.owner] = r.rule
        BY <1>4, <4>1 DEF Rows
      <4>3. rows' = [w EXCEPT ![r.at] = r.rule]
        BY <1>4, <3>1, <3>4, <4>1
      <4>4. QED
        BY <3>1, <3>4, <4>1, <4>2, <4>3 DEF Effect
    <3>5. CASE r.op = "copy"
      <4>1. rows = w /\ w[r.at] = r.snap /\ r.rule = Placed(r.snap, r.to)
        BY <1>4, <1>5, <2>5, <3>5 DEF DeletedFirst
      <4>2. QED
        BY <3>1, <3>5, <4>1 DEF Effect
    <3>6. CASE r.op = "move"
      <4>1. /\ rows = [w EXCEPT ![r.at] = NoRow] /\ w[r.at] = r.snap
            /\ r.rule = Placed(r.snap, r.to)
        BY <1>4, <1>5, <1>7, <2>5, <3>6
      <4>2. rows' = [w EXCEPT ![r.to] = r.rule, ![r.at] = NoRow]
        BY <1>4, <3>1, <3>6, <4>1
      <4>3. QED
        BY <3>1, <3>6, <4>1, <4>2 DEF Effect
    <3>7. QED
      BY <1>4, <3>2, <3>3, <3>4, <3>5, <3>6
  <2>6. Atomic(a, q, w, rows')
    BY <1>4, <2>1, <2>5 DEF Atomic, Like
  <2>7. QED
    BY <1>1, <1>3, <2>1, <2>2, <2>3, <2>4, <2>6, KeptBy DEF Mine
<1>8. CASE UNCHANGED <<rows, live>> /\ Fails(q, r, Given(a))
  BY <1>1, <1>2, <1>3, <1>8, GivenStep
<1>9. QED
  BY <1>3, <1>6, <1>7, <1>8

\* The checks refuse the old row only where they would refuse it as a new one.
LEMMA RecheckStep ==
    ASSUME CInv, NEW CONSTANT a \in Actors, astray \subseteq astray', Recheck(a)
    PROVE  Kept(a)
<1>1. PICK r, w, q : r = run[a] /\ w = was[a] /\ q = run'[a]
  OBVIOUS
<1>2. /\ r \in Runs /\ Mine(a, r, w, rows, live) /\ r.pc = "recheck"
      /\ w = Nobody \/ w \in [Places -> {NoRow} \union Rows]
  BY <1>1, MyRun DEF Recheck
<1>3. /\ run' = [run EXCEPT ![a] = q] /\ UNCHANGED <<rows, live>>
      /\ \/ Goto(q, r, "readd")
         \/ Goto(q, r, "failed") /\ ~Addable(a, r.at, r.snap)
         \/ Fault(q, r, "failed")
  BY <1>1, <1>2 DEF CInv, TypeOK, Recheck, Ask, Tx, To, Goto, Fault
<1>4. /\ r.op \in {"import", "move"} /\ r.at \in Places /\ DeletedFirst(r) /\ r.snap # NoRow
      /\ w # Nobody => w[r.at] = r.snap /\ rows = [w EXCEPT ![r.at] = NoRow]
  BY <1>2 DEF Mine, RunOK, Progress, Stage
<1>5. CASE Goto(q, r, "readd")
  <2>1. q \in Runs /\ Like(q, r) /\ q.pc = "readd"
    BY <1>2, <1>5, GotoFields DEF Pcs
  <2>2. DeletedFirst(q)
    BY <1>4, <2>1 DEF DeletedFirst, Like
  <2>3. RunOK(a, q)
    BY <1>2, <1>4, <2>1, <2>2 DEF Mine, RunOK, Stage, Like
  <2>4. Progress(a, q, w, rows, live) /\ Atomic(a, q, w, rows)
    BY <1>2, <1>4, <2>1, <2>2 DEF Mine, Progress, Atomic, Like
  <2>5. QED
    BY <1>1, <1>3, <2>1, <2>3, <2>4, KeptSame DEF Mine
<1>6. CASE (Goto(q, r, "failed") /\ ~Addable(a, r.at, r.snap)) \/ Fault(q, r, "failed")
  <2>1. /\ q \in Runs /\ Like(q, r) /\ q.pc = "failed"
        /\ q.stuck \/ ~Addable(a, r.at, r.snap)
    BY <1>2, <1>6, GotoFields DEF Pcs, Undoing
  <2>2. Stage(q)
    BY <1>4, <2>1 DEF Stage, Like
  <2>3. ASSUME w # Nobody, ~Addable(a, r.at, r.snap)
        PROVE  ~Restorable(a, r.at, w)
    <3>1. \A p \in Places \ {r.at} : rows[p] = w[p]
      BY <1>2, <1>4, <2>3
    <3>2. QED
      BY <1>4, <2>3, <3>1 DEF Addable, Restorable, Free
  <2>4. Mine(a, q, w, rows, live)
    BY <1>2, <1>4, <2>1, <2>2, <2>3, GivesUp DEF Mine
  <2>5. QED
    BY <1>1, <1>3, <2>1, <2>4, KeptSame
<1>7. QED
  BY <1>3, <1>5, <1>6

\* The old row put back makes the rows what they were.
LEMMA ReaddStep ==
    ASSUME CInv, NEW CONSTANT a \in Actors, astray \subseteq astray', Readd(a)
    PROVE  Kept(a)
<1>1. PICK r, w, q : r = run[a] /\ w = was[a] /\ q = run'[a]
  OBVIOUS
<1>2. /\ r \in Runs /\ Mine(a, r, w, rows, live) /\ r.pc = "readd" /\ RowsOK /\ RunningIsWritten
      /\ w = Nobody \/ w \in [Places -> {NoRow} \union Rows]
  BY <1>1, MyRun DEF Readd
<1>3. /\ run' = [run EXCEPT ![a] = q]
      /\ \/ CanAdd(r.at, r.snap) /\ Added(r.at, r.snap) /\ Goto(q, r, "failed")
         \/ UNCHANGED <<rows, live>> /\ Goto(q, r, "failed") /\ ~CanAdd(r.at, r.snap)
         \/ UNCHANGED <<rows, live>> /\ Fault(q, r, "failed")
  BY <1>1, <1>2 DEF CInv, TypeOK, Readd, Tx, To, Goto, Fault
<1>4. /\ r.op \in {"import", "move"} /\ r.at \in Places /\ r.snap # NoRow /\ r.snap \in Rows
      /\ w # Nobody => /\ w[r.at] = r.snap /\ rows = [w EXCEPT ![r.at] = NoRow]
                       /\ \A n \in At(r.at, r.snap) : live[n] = None
  BY <1>2 DEF Mine, RunOK, Progress, Stage, RowFor
<1>5. /\ q \in Runs /\ Like(q, r) /\ q.pc = "failed"
      /\ Fault(q, r, "failed") => q.stuck
  BY <1>2, <1>3, GotoFields DEF Pcs, Undoing
<1>6. Stage(q)
  BY <1>4, <1>5 DEF Stage, Like
<1>7. CASE CanAdd(r.at, r.snap) /\ Added(r.at, r.snap) /\ Goto(q, r, "failed")
  <2>1. Good
    BY <1>2, <1>4, <1>7, AddedGood
  <2>2. w # Nobody => rows' = w
    BY <1>2, <1>4, <1>7 DEF Added
  <2>3. Mine(a, q, w, rows', live')
    BY <1>2, <1>5, <1>6, <2>2, GivesUp DEF Mine
  <2>4. QED
    BY <1>1, <1>3, <1>5, <2>1, <2>3, KeptBy
<1>8. CASE UNCHANGED <<rows, live>> /\ ~CanAdd(r.at, r.snap)
  <2>1. w = Nobody
    BY <1>2, <1>4, <1>8 DEF CanAdd
  <2>2. Mine(a, q, w, rows, live)
    BY <1>2, <1>5, <1>6, <2>1, GivesUp DEF Mine
  <2>3. QED
    BY <1>1, <1>3, <1>5, <1>8, <2>2, KeptSame
<1>9. CASE UNCHANGED <<rows, live>> /\ Fault(q, r, "failed")
  <2>1. Mine(a, q, w, rows, live)
    BY <1>2, <1>5, <1>6, <1>9, GivesUp DEF Mine
  <2>2. QED
    BY <1>1, <1>3, <1>5, <1>9, <2>1, KeptSame
<1>10. QED
  BY <1>3, <1>7, <1>8, <1>9

\* A disjoint move is done, or has to take the new row back.
LEMMA RemoveStep ==
    ASSUME CInv, NEW CONSTANT a \in Actors, astray \subseteq astray', Remove(a)
    PROVE  Kept(a)
<1>1. PICK r, w, q : r = run[a] /\ w = was[a] /\ q = run'[a]
  OBVIOUS
<1>2. /\ r \in Runs /\ Mine(a, r, w, rows, live) /\ r.pc = "remove" /\ RowsOK /\ RunningIsWritten
      /\ w = Nobody \/ w \in [Places -> {NoRow} \union Rows]
  BY <1>1, MyRun DEF Remove
<1>3. /\ run' = [run EXCEPT ![a] = q]
      /\ \/ Deleted(r.at) /\ Goto(q, r, "ok")
         \/ UNCHANGED <<rows, live>> /\ Fails(q, r, "unmake")
  BY <1>1, <1>2 DEF CInv, TypeOK, Remove, Tx, To, Goto, Fails, Fault
<1>4. /\ r.op = "move" /\ r.at \in Places /\ r.to \in Places /\ r.to # r.at
      /\ r.snap # NoRow /\ ~DeletedFirst(r)
      /\ w # Nobody => /\ w[r.at] = r.snap /\ r.rule = Placed(r.snap, r.to)
                       /\ rows = [w EXCEPT ![r.to] = r.rule] /\ w[r.to] = NoRow
  BY <1>2 DEF Mine, RunOK, Progress, Stage
<1>5. CASE Deleted(r.at) /\ Goto(q, r, "ok")
  <2>1. q \in Runs /\ Like(q, r) /\ q.pc = "ok"
    BY <1>2, <1>5, GotoFields DEF Pcs
  <2>2. Good
    BY <1>2, <1>4, <1>5, DeletedGood
  <2>3. RunOK(a, q)
    BY <1>2, <1>4, <2>1 DEF Mine, RunOK, Stage, Like
  <2>4. w # Nobody => rows' = Effect(q, w)
    <3>1. w # Nobody => rows' = [w EXCEPT ![r.to] = r.rule, ![r.at] = NoRow]
      BY <1>4, <1>5 DEF Deleted
    <3>2. q.op = "move" /\ q.at = r.at /\ q.to = r.to
      BY <1>4, <2>1 DEF Like
    <3>3. QED
      BY <1>4, <3>1, <3>2 DEF Effect
  <2>5. Progress(a, q, w, rows', live') /\ Atomic(a, q, w, rows')
    BY <1>4, <2>1, <2>4 DEF Progress, Atomic, Like
  <2>6. QED
    BY <1>1, <1>3, <2>1, <2>2, <2>3, <2>5, KeptBy DEF Mine
<1>6. CASE UNCHANGED <<rows, live>> /\ Fails(q, r, "unmake")
  <2>1. q \in Runs /\ Like(q, r) /\ q.pc = "unmake"
    BY <1>2, <1>6, GotoFields DEF Fails, Pcs
  <2>2. ~DeletedFirst(q)
    BY <1>4, <2>1 DEF DeletedFirst, Like
  <2>3. RunOK(a, q)
    BY <1>2, <1>4, <2>1, <2>2 DEF Mine, RunOK, Stage, Like
  <2>4. Progress(a, q, w, rows, live) /\ Atomic(a, q, w, rows)
    BY <1>4, <2>1 DEF Progress, Atomic, Like
  <2>5. QED
    BY <1>1, <1>3, <1>6, <2>1, <2>3, <2>4, KeptSame DEF Mine
<1>7. QED
  BY <1>3, <1>5, <1>6

\* The new row is gone again and the old one still there.
LEMMA UnmakeStep ==
    ASSUME CInv, NEW CONSTANT a \in Actors, astray \subseteq astray', Unmake(a)
    PROVE  Kept(a)
<1>1. PICK r, w, q : r = run[a] /\ w = was[a] /\ q = run'[a]
  OBVIOUS
<1>2. /\ r \in Runs /\ Mine(a, r, w, rows, live) /\ r.pc = "unmake" /\ RowsOK /\ RunningIsWritten
      /\ w = Nobody \/ w \in [Places -> {NoRow} \union Rows]
  BY <1>1, MyRun DEF Unmake
<1>3. /\ run' = [run EXCEPT ![a] = q]
      /\ \/ Deleted(r.to) /\ Goto(q, r, "failed")
         \/ UNCHANGED <<rows, live>> /\ Goto(q, r, "failed") /\ ~Own(a, r.to)
         \/ UNCHANGED <<rows, live>> /\ Fault(q, r, "failed")
  BY <1>1, <1>2 DEF CInv, TypeOK, Unmake, Tx, To, Goto, Fault
<1>4. /\ r.op = "move" /\ r.to \in Places /\ RowFor(a, r.rule)
      /\ w # Nobody => rows = [w EXCEPT ![r.to] = r.rule] /\ w[r.to] = NoRow
  BY <1>2 DEF Mine, RunOK, Progress, Stage
<1>5. /\ q \in Runs /\ Like(q, r) /\ q.pc = "failed"
      /\ Fault(q, r, "failed") => q.stuck
  BY <1>2, <1>3, GotoFields DEF Pcs, Undoing
<1>6. Stage(q)
  BY <1>4, <1>5 DEF Stage, Like
<1>7. CASE Deleted(r.to) /\ Goto(q, r, "failed")
  <2>1. Good
    BY <1>2, <1>4, <1>7, DeletedGood
  <2>2. w # Nobody => rows' = w
    BY <1>2, <1>4, <1>7 DEF Deleted
  <2>3. Mine(a, q, w, rows', live')
    BY <1>2, <1>5, <1>6, <2>2, GivesUp DEF Mine
  <2>4. QED
    BY <1>1, <1>3, <1>5, <2>1, <2>3, KeptBy
<1>8. CASE UNCHANGED <<rows, live>> /\ ~Own(a, r.to)
  <2>1. w = Nobody
    BY <1>2, <1>4, <1>8, RowKinds DEF Own, RowFor
  <2>2. Mine(a, q, w, rows, live)
    BY <1>2, <1>5, <1>6, <2>1, GivesUp DEF Mine
  <2>3. QED
    BY <1>1, <1>3, <1>5, <1>8, <2>2, KeptSame
<1>9. CASE UNCHANGED <<rows, live>> /\ Fault(q, r, "failed")
  <2>1. Mine(a, q, w, rows, live)
    BY <1>2, <1>5, <1>6, <1>9, GivesUp DEF Mine
  <2>2. QED
    BY <1>1, <1>3, <1>5, <1>9, <2>1, KeptSame
<1>10. QED
  BY <1>3, <1>7, <1>8, <1>9

\* What stopping a node has to do: all rows of a's that it runs.
LEMMA ListStep ==
    ASSUME CInv, NEW CONSTANT a \in Actors, astray \subseteq astray', List(a)
    PROVE  Kept(a)
<1>1. PICK r, w, q : r = run[a] /\ w = was[a] /\ q = run'[a]
  OBVIOUS
<1>2. r \in Runs /\ Mine(a, r, w, rows, live) /\ r.pc = "list" /\ RowsOK
  BY <1>1, MyRun DEF List
<1>3. PICK S : S = Here(a, r.to, r.op = "resumeNode")
  OBVIOUS
<1>4. run' = [run EXCEPT ![a] = q] /\ UNCHANGED <<rows, live>> /\ q = [r EXCEPT !.pc = "each", !.todo = S]
  BY <1>1, <1>2, <1>3 DEF CInv, TypeOK, List, Goes
<1>5. S \subseteq Places /\ \A p \in S : r.to \in Members[p]
  BY <1>3 DEF Here
<1>6. /\ q \in Runs /\ q.op = r.op /\ q.at = r.at /\ q.to = r.to /\ q.snap = r.snap
      /\ q.pc = "each" /\ q.todo = S /\ q.stuck = r.stuck
  BY <1>2, <1>4, <1>5 DEF Runs, Pcs
<1>7. r.op \in {"pauseNode", "resumeNode"} /\ r.to \in Places
  BY <1>2 DEF Mine, RunOK, Stage
<1>8. RunOK(a, q)
  BY <1>2, <1>5, <1>6, <1>7 DEF Mine, RunOK, Stage
<1>9. ASSUME q.op = "pauseNode", NEW p \in Places, a \in Admins \/ rows[p].owner = a,
             r.to \in At(p, rows[p])
      PROVE  p \in S
  <2>1. rows[p] # NoRow /\ rows[p].on /\ r.to \in Members[p] /\ r.to \notin rows[p].off
    BY <1>9, RowKinds DEF At
  <2>2. rows[p].on # FALSE /\ (r.to \in rows[p].off) = FALSE /\ Own(a, p)
    BY <1>2, <1>9, <2>1, RowFields DEF Own
  <2>3. (r.op = "resumeNode") = FALSE
    BY <1>6, <1>9
  <2>4. S = Here(a, r.to, FALSE)
    BY <1>3, <2>3
  <2>5. p \in Here(a, r.to, FALSE)
    BY <2>1, <2>2 DEF Here
  <2>6. QED
    BY <2>4, <2>5
<1>10. Progress(a, q, w, rows, live)
  BY <1>2, <1>6, <1>7, <1>9 DEF Mine, Progress, RunOK
<1>11. Atomic(a, q, w, rows)
  BY <1>6 DEF Atomic
<1>12. QED
  BY <1>1, <1>4, <1>6, <1>8, <1>10, <1>11, KeptSame DEF Mine

\* One of the rules of the node done, or noted.
LEMMA EachStep ==
    ASSUME CInv, NEW CONSTANT a \in Actors, astray \subseteq astray', Each(a)
    PROVE  Kept(a)
<1>1. PICK r, w, q : r = run[a] /\ w = was[a] /\ q = run'[a]
  OBVIOUS
<1>2. r \in Runs /\ Mine(a, r, w, rows, live) /\ r.pc = "each" /\ RowsOK /\ RunningIsWritten
  BY <1>1, MyRun DEF Each
<1>3. /\ r.op \in {"pauseNode", "resumeNode"} /\ r.to \in Places /\ r.todo \subseteq Places
      /\ \A p \in r.todo : r.to \in Members[p]
      /\ w # Nobody /\ r.op = "pauseNode" /\ ~r.stuck =>
           \A p \in Places :
             (a \in Admins \/ rows[p].owner = a) /\ r.to \in At(p, rows[p]) => p \in r.todo
  BY <1>2 DEF Mine, RunOK, Progress, Stage, Runs
<1>4. CASE r.todo = {}
  <2>1. run' = [run EXCEPT ![a] = q] /\ UNCHANGED <<rows, live>> /\ Goto(q, r, "ok")
    BY <1>1, <1>2, <1>4 DEF CInv, TypeOK, Each, Goes, To, Goto
  <2>2. q \in Runs /\ Like(q, r) /\ q.pc = "ok" /\ q.stuck = r.stuck
    BY <1>2, <2>1, GotoFields DEF Pcs
  <2>3. RunOK(a, q)
    BY <1>2, <1>3, <2>2 DEF Mine, RunOK, Stage, Like
  <2>4. Progress(a, q, w, rows, live)
    BY <1>3, <2>2 DEF Progress, Like
  <2>5. Atomic(a, q, w, rows)
    BY <1>3, <1>4, <2>2 DEF Atomic, Like
  <2>6. QED
    BY <1>1, <2>1, <2>2, <2>3, <2>4, <2>5, KeptSame DEF Mine
<1>5. CASE r.todo # {}
  <2>1. PICK on \in BOOLEAN : on = (r.op = "resumeNode")
    OBVIOUS
  <2>2. PICK p \in r.todo :
          LET rest == [r EXCEPT !.todo = @ \ {p}]
              note == [rest EXCEPT !.stuck = TRUE]
          IN  IF p = r.to
              THEN Tx(a, CanSwitch(a, p, on), Switched(p, on), rest, note)
              ELSE Tx(a, CanStop(a, p, r.to, on), NodeStopped(p, r.to, on), rest, note)
    BY <1>1, <1>5, <2>1 DEF Each
  <2>3. PICK rest, note, fault :
          /\ rest = [r EXCEPT !.todo = @ \ {p}]
          /\ note = [rest EXCEPT !.stuck = TRUE]
          /\ fault = [note EXCEPT !.stuck = @ \/ r.pc \in Undoing]
    OBVIOUS
  <2>4. /\ run' = [run EXCEPT ![a] = q]
        /\ \/ q = rest /\ p = r.to /\ CanSwitch(a, p, on) /\ Switched(p, on)
           \/ q = rest /\ p # r.to /\ CanStop(a, p, r.to, on) /\ NodeStopped(p, r.to, on)
           \/ (q = note \/ q = fault) /\ UNCHANGED <<rows, live>>
    <3>1. CASE p = r.to
      <4>1. Tx(a, CanSwitch(a, p, on), Switched(p, on), rest, note)
        BY <2>2, <2>3, <3>1
      <4>2. QED
        BY <1>1, <2>3, <3>1, <4>1 DEF CInv, TypeOK, Tx
    <3>2. CASE p # r.to
      <4>1. Tx(a, CanStop(a, p, r.to, on), NodeStopped(p, r.to, on), rest, note)
        BY <2>2, <2>3, <3>2
      <4>2. QED
        BY <1>1, <2>3, <3>2, <4>1 DEF CInv, TypeOK, Tx
    <3>3. QED
      BY <3>1, <3>2
  <2>5. p \in Places /\ r.to \in Members[p]
    BY <1>3
  <2>6. /\ rest \in Runs /\ rest.op = r.op /\ rest.at = r.at /\ rest.to = r.to
        /\ rest.snap = r.snap /\ rest.pc = "each" /\ rest.todo = r.todo \ {p} /\ rest.stuck = r.stuck
    BY <1>2, <2>3 DEF Runs
  <2>7. /\ note \in Runs /\ note.op = r.op /\ note.at = r.at /\ note.to = r.to
        /\ note.snap = r.snap /\ note.pc = "each" /\ note.todo = r.todo \ {p} /\ note.stuck = TRUE
    BY <2>3, <2>6 DEF Runs
  <2>8. fault = note
    BY <2>3, <2>7 DEF Runs
  <2>9. RunOK(a, rest) /\ RunOK(a, note)
    BY <1>2, <1>3, <2>6, <2>7 DEF Mine, RunOK, Stage
  <2>10. CASE (q = note \/ q = fault) /\ UNCHANGED <<rows, live>>
    <3>1. Mine(a, note, w, rows, live)
      BY <1>2, <1>3, <2>7, <2>9 DEF Mine, RunOK, Progress, Atomic
    <3>2. QED
      BY <1>1, <2>4, <2>7, <2>8, <2>10, <3>1, KeptSame
  <2>11. CASE q = rest /\ p = r.to /\ CanSwitch(a, p, on) /\ Switched(p, on)
    <3>1. Good
      BY <1>2, <2>5, <2>11, SwitchedGood
    <3>2. PICK x : x = [rows[p] EXCEPT !.on = on]
      OBVIOUS
    <3>3. /\ \A s \in Places \ {p} : rows'[s] = rows[s]
          /\ rows'[p] = x
      BY <1>2, <2>5, <2>11, <3>2 DEF Switched, RowsOK
    <3>4. x.on = on
      <4>1. rows[p] # NoRow
        BY <2>11 DEF CanSwitch, Own
      <4>2. QED
        BY <1>2, <2>5, <3>2, <4>1, RowFields DEF Rows
    <3>5. ASSUME w # Nobody, q.op = "pauseNode", ~q.stuck, NEW s \in Places,
                 a \in Admins \/ rows'[s].owner = a, r.to \in At(s, rows'[s])
          PROVE  s \in q.todo
      <4>1. ~on
        BY <2>1, <2>6, <2>11, <3>5
      <4>2. s # p
        BY <3>3, <3>4, <3>5, <4>1 DEF At
      <4>3. QED
        BY <1>3, <2>6, <2>11, <3>3, <3>5, <4>2
    <3>6. Progress(a, q, w, rows', live') /\ Atomic(a, q, w, rows')
      BY <1>2, <1>3, <2>6, <2>11, <3>5 DEF Mine, RunOK, Progress, Atomic
    <3>7. QED
      BY <1>1, <2>4, <2>6, <2>9, <2>11, <3>1, <3>6, KeptBy DEF Mine
  <2>12. CASE q = rest /\ p # r.to /\ CanStop(a, p, r.to, on) /\ NodeStopped(p, r.to, on)
    <3>1. Good
      BY <1>2, <2>5, <2>12, NodeStoppedGood
    <3>2. PICK x : x = [rows[p] EXCEPT !.off = IF on THEN @ \ {r.to} ELSE @ \union {r.to}]
      OBVIOUS
    <3>3. /\ \A s \in Places \ {p} : rows'[s] = rows[s]
          /\ rows'[p] = x
      BY <1>2, <2>5, <2>12, <3>2 DEF NodeStopped, RowsOK
    <3>4. ~on => r.to \in x.off
      <4>1. rows[p] # NoRow
        BY <2>12 DEF CanStop, Own
      <4>2. QED
        BY <1>2, <2>5, <3>2, <4>1, RowFields DEF Rows
    <3>5. ASSUME w # Nobody, q.op = "pauseNode", ~q.stuck, NEW s \in Places,
                 a \in Admins \/ rows'[s].owner = a, r.to \in At(s, rows'[s])
          PROVE  s \in q.todo
      <4>1. ~on
        BY <2>1, <2>6, <2>12, <3>5
      <4>2. s # p
        BY <3>3, <3>4, <3>5, <4>1 DEF At
      <4>3. QED
        BY <1>3, <2>6, <2>12, <3>3, <3>5, <4>2
    <3>6. Progress(a, q, w, rows', live') /\ Atomic(a, q, w, rows')
      BY <1>2, <1>3, <2>6, <2>12, <3>5 DEF Mine, RunOK, Progress, Atomic
    <3>7. QED
      BY <1>1, <2>4, <2>6, <2>9, <2>12, <3>1, <3>6, KeptBy DEF Mine
  <2>13. QED
    BY <2>4, <2>10, <2>11, <2>12
<1>6. QED
  BY <1>4, <1>5

\* The questions before a change of a rule of the API change nothing.
LEMMA OwnRowStep ==
    ASSUME CInv, NEW CONSTANT a \in Actors, astray \subseteq astray', OwnRow(a) \/ Status(a)
    PROVE  Kept(a)
<1>1. PICK r, w, q : r = run[a] /\ w = was[a] /\ q = run'[a]
  OBVIOUS
<1>2. r \in Runs /\ Mine(a, r, w, rows, live) /\ r.pc \in {"own", "status"}
  BY <1>1, MyRun DEF OwnRow, Status
<1>3. /\ run' = [run EXCEPT ![a] = q] /\ UNCHANGED <<rows, live>>
      /\ Goto(q, r, "status") \/ Goto(q, r, "write") \/ Fails(q, r, "failed")
  BY <1>1, <1>2 DEF CInv, TypeOK, OwnRow, Status, Ask, Tx, To, Goto, Fails, Fault
<1>4. r.op \in {"apiEdit", "apiDelete"}
  BY <1>2 DEF Mine, RunOK, Stage
<1>5. q \in Runs /\ Like(q, r) /\ q.pc \in {"status", "write", "failed"}
  BY <1>2, <1>3, GotoFields DEF Fails, Pcs
<1>6. RunOK(a, q)
  BY <1>2, <1>4, <1>5 DEF Mine, RunOK, Stage, Like
<1>7. Progress(a, q, w, rows, live) /\ Atomic(a, q, w, rows)
  BY <1>2, <1>4, <1>5 DEF Mine, Progress, Atomic, Like
<1>8. QED
  BY <1>1, <1>3, <1>5, <1>6, <1>7, KeptSame DEF Mine

\* A change outside the database, of a node whose rule is then not spoken of any
\* more if a row wanted it.
LEMMA StrayGood ==
    ASSUME RowsOK, RunningIsWritten, NEW n, NEW x \in Lives, UNCHANGED rows,
           live' = [live EXCEPT ![n] = x], Strays({n}),
           n \in Nodes /\ x.origin = "ui" => live[n].origin = "ui"
    PROVE  Good
<1>1. live' \in [Nodes -> Lives] /\ \A m \in Nodes : m # n => live'[m] = live[m]
  BY DEF RowsOK
<1>2. n \in Nodes => live'[n] = x
  BY DEF RowsOK
<1>3. ASSUME NEW m \in Nodes \ astray'
      PROVE  /\ live'[m].origin = "ui" => \E p \in Places : m \in At(p, rows[p])
             /\ \A p \in Places : m \in At(p, rows[p]) =>
                  /\ \A s \in Places : m \in At(s, rows[s]) => s = p
                  /\ live'[m] \in {Api, Ui(rows[p].body)}
  <2>1. m \in Nodes \ astray
    BY DEF Strays
  <2>2. /\ live[m].origin = "ui" => \E p \in Places : m \in At(p, rows[p])
        /\ \A p \in Places : m \in At(p, rows[p]) =>
             /\ \A s \in Places : m \in At(s, rows[s]) => s = p
             /\ live[m] \in {Api, Ui(rows[p].body)}
    BY <2>1 DEF RunningIsWritten
  <2>3. CASE m = n
    <3>1. \A p \in Places : m \notin At(p, rows[p])
      BY <2>3 DEF Strays
    <3>2. QED
      BY <1>2, <2>2, <2>3, <3>1
  <2>4. CASE m # n
    BY <1>1, <2>2, <2>4
  <2>5. QED
    BY <2>3, <2>4
<1>4. RunningIsWritten'
  BY <1>3 DEF RunningIsWritten, At
<1>5. QED
  BY <1>1, <1>4 DEF Good, RowsOK

\* A change of a rule of the API: what it hits counts as astray.
LEMMA WriteStep ==
    ASSUME CInv, NEW CONSTANT a \in Actors, Strays({run[a].to}), Write(a)
    PROVE  Kept(a)
<1>1. PICK r, w, q : r = run[a] /\ w = was[a] /\ q = run'[a]
  OBVIOUS
<1>2. /\ r \in Runs /\ Mine(a, r, w, rows, live) /\ r.pc = "write" /\ RowsOK /\ RunningIsWritten
  BY <1>1, MyRun DEF Write
<1>3. PICK x : x = IF r.op = "apiDelete" THEN None ELSE [live[r.to] EXCEPT !.body = Keep]
  OBVIOUS
<1>4. /\ run' = [run EXCEPT ![a] = q] /\ UNCHANGED rows
      /\ live' = [live EXCEPT ![r.to] = x] \/ UNCHANGED live
      /\ Goto(q, r, "ok") \/ Fails(q, r, "failed")
  BY <1>1, <1>2, <1>3 DEF CInv, TypeOK, Write, Tx, To, Goto, Fails, Fault
<1>5. r.op \in {"apiEdit", "apiDelete"}
  BY <1>2 DEF Mine, RunOK, Stage
<1>6. q \in Runs /\ Like(q, r) /\ q.pc \in {"ok", "failed"}
  BY <1>2, <1>4, GotoFields DEF Fails, Pcs
<1>7. RunOK(a, q)
  BY <1>2, <1>5, <1>6 DEF Mine, RunOK, Stage, Like
<1>8. Progress(a, q, w, rows', live') /\ Atomic(a, q, w, rows')
  BY <1>5, <1>6 DEF Progress, Atomic, Like
<1>9. Good
  <2>1. astray \subseteq astray'
    BY DEF Strays
  <2>2. CASE UNCHANGED live
    BY <1>2, <1>4, <2>1, <2>2, SameGood
  <2>3. CASE live' = [live EXCEPT ![r.to] = x] /\ r.to \in Nodes
    <3>1. live[r.to] \in Lives
      BY <1>2, <2>3 DEF RowsOK
    <3>2. x \in Lives /\ (x.origin = "ui" => live[r.to].origin = "ui")
      <4>1. CASE r.op = "apiDelete"
        BY <1>3, <4>1, LiveKinds
      <4>2. CASE r.op # "apiDelete"
        BY <1>3, <3>1, <4>2, LiveKinds
      <4>3. QED
        BY <4>1, <4>2
    <3>3. QED
      BY <1>1, <1>2, <1>4, <2>3, <3>2, StrayGood
  <2>4. CASE live' = [live EXCEPT ![r.to] = x] /\ r.to \notin Nodes
    <3>1. UNCHANGED live
      BY <1>2, <2>4 DEF RowsOK
    <3>2. QED
      BY <1>2, <1>4, <2>1, <3>1, SameGood
  <2>5. QED
    BY <1>4, <2>2, <2>3, <2>4
<1>10. QED
  BY <1>1, <1>4, <1>6, <1>7, <1>8, <1>9, KeptBy DEF Mine

\* All steps of a request.
LEMMA StepKept ==
    ASSUME CInv, NEW CONSTANT a \in Actors, Step(a),
           Strays(IF run[a].pc = "write" THEN {run[a].to} ELSE {})
    PROVE  Kept(a)
<1>1. astray \subseteq astray'
  BY DEF Strays
<1>2. CASE Write(a)
  <2>1. Strays({run[a].to})
    BY <1>2 DEF Write
  <2>2. QED
    BY <1>2, <2>1, WriteStep
<1>3. QED
  BY <1>1, <1>2, InspectStep, ReadStep, EditInPlaceStep, ShadowStep, DeleteStep, CheckStep, AddStep,
     RecheckStep, ReaddStep, RemoveStep, UnmakeStep, ListStep, EachStep, OwnRowStep DEF Step

(***************************************************************************)
(* The other steps, and all of them.                                       *)
(***************************************************************************)

\* To whoever only watches, a step changes nothing, or the rows it began with
\* count no more.
LEMMA Watching ==
    ASSUME CInv, NEW b \in Actors, run'[b] = run[b],
           was'[b] = Nobody \/ (was'[b] = was[b] /\ UNCHANGED <<rows, live>>)
    PROVE  Mine(b, run'[b], was'[b], rows', live')
<1>1. Mine(b, run[b], was[b], rows, live)
  BY DEF CInv
<1>2. CASE was'[b] = Nobody
  BY <1>1, <1>2 DEF Mine, Progress, Atomic
<1>3. CASE was'[b] = was[b] /\ UNCHANGED <<rows, live>>
  BY <1>1, <1>3
<1>4. QED
  BY <1>2, <1>3

\* What Watched says of each request.
LEMMA WatchedFacts ==
    ASSUME CInv, NEW S, Watched(S)
    PROVE  /\ \A a \in S \intersect Actors : was'[a] = was[a]
           /\ \A a \in Actors :
                \/ was'[a] = Nobody
                \/ was'[a] = was[a] /\ (a \in S \/ UNCHANGED <<rows, live>>)
           /\ was' \in [Actors -> {Nobody} \union [Places -> {NoRow} \union Rows]]
<1>1. \A a \in Actors :
        \/ was'[a] = was[a] /\ (a \in S \/ UNCHANGED <<rows, live>>)
        \/ was'[a] = Nobody /\ a \notin S
  BY DEF Watched
<1>2. was \in [Actors -> {Nobody} \union [Places -> {NoRow} \union Rows]]
  BY DEF CInv, TypeOK
<1>3. \A a \in S \intersect Actors : was'[a] = was[a]
  BY <1>1
<1>4. was' \in [Actors -> {Nobody} \union [Places -> {NoRow} \union Rows]]
  BY <1>2 DEF Watched
<1>5. QED
  BY <1>1, <1>3, <1>4

\* The bound on refusals.
LEMMA RefusalsCount ==
    ASSUME CInv, NEW a \in Actors, Step(a)
    PROVE  refusals' \in 0..MaxRefusals
<1>1. refusals \in 0..MaxRefusals /\ MaxRefusals \in Nat
  BY CompoundAssumption DEF CInv, TypeOK
<1>2. UNCHANGED refusals \/ (refusals > 0 /\ refusals' = refusals - 1)
  <2>1. CASE Inspect(a) \/ Read(a)
    BY <2>1 DEF Inspect, Read, Ask, Tx
  <2>2. CASE EditInPlace(a) \/ Shadow(a) \/ Delete(a) \/ Check(a) \/ Add(a)
    BY <2>2 DEF EditInPlace, Shadow, Delete, Check, Add, Ask, Tx
  <2>3. CASE Recheck(a) \/ Readd(a) \/ Remove(a) \/ Unmake(a)
    BY <2>3 DEF Recheck, Readd, Remove, Unmake, Ask, Tx
  <2>4. CASE List(a) \/ Each(a)
    BY <2>4 DEF List, Each, Goes, Tx
  <2>5. CASE OwnRow(a) \/ Status(a) \/ Write(a)
    BY <2>5 DEF OwnRow, Status, Write, Ask, Tx
  <2>6. QED
    BY <2>1, <2>2, <2>3, <2>4, <2>5 DEF Step
<1>3. QED
  BY <1>1, <1>2

\* A step of a request keeps the invariant, for all requests.
LEMMA StepInv ==
    ASSUME CInv, NEW CONSTANT a \in Actors, Step(a), Watched({a}), UNCHANGED left,
           Strays(IF run[a].pc = "write" THEN {run[a].to} ELSE {})
    PROVE  CInv'
<1>1. Kept(a)
  BY StepKept
<1>2. /\ was'[a] = was[a]
      /\ \A b \in Actors \ {a} :
           was'[b] = Nobody \/ (was'[b] = was[b] /\ UNCHANGED <<rows, live>>)
      /\ was' \in [Actors -> {Nobody} \union [Places -> {NoRow} \union Rows]]
  BY WatchedFacts
<1>3. ASSUME NEW CONSTANT b \in Actors
      PROVE  Mine(b, run'[b], was'[b], rows', live')
  <2>1. CASE b = a
    BY <1>1, <1>2, <2>1 DEF Kept
  <2>2. CASE b # a
    BY <1>1, <1>2, <2>2, Watching DEF Kept
  <2>3. QED
    BY <2>1, <2>2
<1>4. astray' \subseteq Nodes
  BY RowKinds DEF CInv, TypeOK, Strays, At
<1>5. TypeOK'
  BY <1>1, <1>2, <1>4, RefusalsCount DEF CInv, TypeOK, Kept, Good, RowsOK, Lives
<1>6. QED
  BY <1>1, <1>3, <1>5 DEF CInv, Kept, Good

\* What a request is at its beginning.
LEMMA RequestFields ==
    ASSUME NEW op \in Ops, NEW pc \in Pcs, NEW at \in Places \union {Nobody},
           NEW to \in Places \union {Nobody}, NEW rule \in Sketches
    PROVE  LET r == Request(op, pc, at, to, rule) IN
           /\ r \in Runs /\ r.op = op /\ r.pc = pc /\ r.at = at /\ r.to = to /\ r.rule = rule
           /\ r.snap = NoRow
BY RowKinds DEF Request, Runs

\* Begin writes the actor in as the owner.
LEMMA OwnedFields ==
    ASSUME NEW r \in Runs, NEW a \in Actors
    PROVE  LET q == [r EXCEPT !.rule.owner = a] IN
           /\ q \in Runs /\ q.op = r.op /\ q.pc = r.pc /\ q.at = r.at /\ q.to = r.to
           /\ q.snap = r.snap /\ q.rule \in Sketches /\ q.rule.owner = a
           /\ q.rule.body = r.rule.body /\ q.rule.on = r.rule.on /\ q.rule.off = r.rule.off
<1>1. PICK x : x = [r.rule EXCEPT !.owner = a]
  OBVIOUS
<1>2. r.rule \in Sketches
  BY DEF Runs
<1>3. /\ x \in Sketches /\ x.owner = a /\ x.body = r.rule.body /\ x.on = r.rule.on
      /\ x.off = r.rule.off
  BY <1>1, <1>2 DEF Sketches
<1>4. PICK q : q = [r EXCEPT !.rule = x]
  OBVIOUS
<1>5. q = [r EXCEPT !.rule.owner = a]
  BY <1>1, <1>4
<1>6. /\ q \in Runs /\ q.op = r.op /\ q.pc = r.pc /\ q.at = r.at /\ q.to = r.to
      /\ q.snap = r.snap /\ q.rule = x
  BY <1>3, <1>4 DEF Runs
<1>7. QED
  BY <1>3, <1>5, <1>6

\* Names of requests and of states.
LEMMA Names ==
    /\ \A op \in {"add", "import", "copy", "move", "pauseNode", "resumeNode", "apiEdit", "apiDelete"} :
         op \in Ops
    /\ \A pc \in {"check", "inspect", "read", "list", "own"} : pc \in Pcs
BY DEF Ops, Pcs

\* The requests, and what they are once they have an owner.
LEMMA NewRun ==
    ASSUME NEW r \in Requests, NEW a \in Actors, Allowed(a, r)
    PROVE  LET q == [r EXCEPT !.rule.owner = a] IN
           /\ q \in Runs /\ RunOK(a, q) /\ q.pc \in {"check", "inspect", "read", "list", "own"}
           /\ q.snap = NoRow /\ ~DeletedFirst(q) /\ (q.op = "import" => q.pc = "inspect")
<1> DEFINE q == [r EXCEPT !.rule.owner = a]
<1>1. NoRow \in Sketches /\ \A n \in Nodes : n \in Places
  BY RowKinds DEF Places
<1>2. ASSUME r \in Runs
      PROVE  /\ q \in Runs /\ q.op = r.op /\ q.pc = r.pc /\ q.at = r.at /\ q.to = r.to
             /\ q.snap = r.snap /\ q.rule \in Sketches /\ q.rule.owner = a
             /\ q.rule.body = r.rule.body /\ q.rule.on = r.rule.on /\ q.rule.off = r.rule.off
  BY <1>2, OwnedFields
<1> HIDE DEF q
<1>3. CASE r \in AddRequests
  <2>1. PICK p \in Places, b \in Bodies : r = Request("add", "check", Nobody, p, NewRule(b))
    BY <1>3 DEF AddRequests
  <2>2. PICK y : y = NewRule(b)
    OBVIOUS
  <2>3. y \in Sketches /\ y.body = b /\ y.on = TRUE /\ y.off = {}
    BY <2>2 DEF Sketches, Sketch, NewRule
  <2>4. r = Request("add", "check", Nobody, p, y)
    BY <2>1, <2>2
  <2>5. /\ r \in Runs /\ r.op = "add" /\ r.pc = "check" /\ r.to = p /\ r.rule = y
        /\ r.snap = NoRow
    <3>1. "add" \in Ops /\ "check" \in Pcs
      BY Names
    <3>2. QED
      BY <2>3, <2>4, <3>1, RequestFields
  <2>6. /\ q \in Runs /\ q.op = "add" /\ q.pc = "check" /\ q.to = p /\ q.snap = NoRow
        /\ q.rule \in Sketches /\ q.rule.owner = a /\ q.rule.body = b /\ q.rule.on = TRUE
        /\ q.rule.off = {}
    BY <1>2, <2>3, <2>5
  <2>7. q.rule \in Rows
    BY <2>6 DEF Rows, Sketches
  <2>8. QED
    BY <2>6, <2>7 DEF RunOK, Stage, RowFor, DeletedFirst, q
<1>4. CASE r \in ImportRequests
  <2>1. PICK p \in Places, b \in Bodies, on \in BOOLEAN, off \in (SUBSET Nodes) \union {Keep} :
          r = Request("import", "inspect", p, p, Sketch(b, on, off))
    BY <1>4 DEF ImportRequests
  <2>2. PICK y : y = Sketch(b, on, off)
    OBVIOUS
  <2>3. y \in Sketches /\ y.body = b
    BY <2>2 DEF Sketches, Sketch
  <2>4. r = Request("import", "inspect", p, p, y)
    BY <2>1, <2>2
  <2>5. /\ r \in Runs /\ r.op = "import" /\ r.pc = "inspect" /\ r.at = p /\ r.to = p
        /\ r.rule = y /\ r.snap = NoRow
    BY <2>3, <2>4, Names, RequestFields
  <2>6. /\ q \in Runs /\ q.op = "import" /\ q.pc = "inspect" /\ q.at = p /\ q.to = p
        /\ q.snap = NoRow /\ q.rule.owner = a /\ q.rule.body = b
    BY <1>2, <2>3, <2>5
  <2>7. QED
    BY <2>6 DEF RunOK, Stage, DeletedFirst, q
<1>5. CASE r \in CopyRequests \union NodeRequests \union ApiRequests
  <2>1. /\ r \in Runs /\ r.snap = NoRow /\ r.to \in Places
        /\ \/ /\ r.op \in {"copy", "move"} /\ r.pc = "read"
              /\ r.at \in Places /\ r.to # r.at
           \/ r.op \in {"pauseNode", "resumeNode"} /\ r.pc = "list"
           \/ r.op \in {"apiEdit", "apiDelete"} /\ r.pc = "own"
    <3>1. CASE r \in CopyRequests
      <4>1. PICK op \in {"copy", "move"}, p \in Places, t \in Places :
              r = Request(op, "read", p, t, NoRow)
        BY <3>1 DEF CopyRequests
      <4>2. r \in Runs /\ r.op = op /\ r.pc = "read" /\ r.at = p /\ r.to = t /\ r.snap = NoRow
        BY <1>1, <4>1, Names, RequestFields
      <4>3. QED
        BY <4>2 DEF Allowed
    <3>2. CASE r \in NodeRequests
      <4>1. PICK op \in {"pauseNode", "resumeNode"}, n \in Nodes :
              r = Request(op, "list", Nobody, n, NoRow)
        BY <3>2 DEF NodeRequests
      <4>2. r \in Runs /\ r.op = op /\ r.pc = "list" /\ r.to = n /\ r.snap = NoRow
        <5>1. op \in Ops /\ "list" \in Pcs
          BY Names
        <5>2. QED
          BY <1>1, <4>1, <5>1, RequestFields
      <4>3. QED
        BY <1>1, <4>1, <4>2
    <3>3. CASE r \in ApiRequests
      <4>1. PICK op \in {"apiEdit", "apiDelete"}, n \in Nodes :
              r = Request(op, "own", Nobody, n, NoRow)
        BY <3>3 DEF ApiRequests
      <4>2. r \in Runs /\ r.op = op /\ r.pc = "own" /\ r.to = n /\ r.snap = NoRow
        <5>1. op \in Ops /\ "own" \in Pcs
          BY Names
        <5>2. QED
          BY <1>1, <4>1, <5>1, RequestFields
      <4>3. QED
        BY <1>1, <4>1, <4>2
    <3>4. QED
      BY <1>5, <3>1, <3>2, <3>3
  <2>2. /\ q \in Runs /\ q.op = r.op /\ q.pc = r.pc /\ q.at = r.at /\ q.to = r.to
        /\ q.snap = NoRow
    BY <1>2, <2>1
  <2>3. QED
    BY <2>1, <2>2 DEF RunOK, Stage, DeletedFirst, q
<1>6. QED
  BY <1>3, <1>4, <1>5 DEF Requests, RevertRequests

\* A request that begins has changed nothing.
LEMMA BeginInv ==
    ASSUME CInv, NEW CONSTANT a \in Actors, Begin(a)
    PROVE  CInv'
<1>1. PICK r \in Requests :
        Allowed(a, r) /\ run' = [run EXCEPT ![a] = [r EXCEPT !.rule.owner = a]]
  BY DEF Begin
<1>2. PICK q : q = [r EXCEPT !.rule.owner = a]
  OBVIOUS
<1>3. /\ q \in Runs /\ RunOK(a, q) /\ q.pc \in {"check", "inspect", "read", "list", "own"}
      /\ q.snap = NoRow /\ ~DeletedFirst(q) /\ (q.op = "import" => q.pc = "inspect")
  BY <1>1, <1>2, NewRun
<1>4. /\ UNCHANGED <<rows, live, astray, refusals>> /\ left > 0 /\ left' = left - 1
      /\ was' = [was EXCEPT ![a] = rows]
  BY DEF Begin
<1>5. RowsOK /\ RunningIsWritten /\ run' = [run EXCEPT ![a] = q] /\ run \in [Actors -> Runs]
  BY <1>1, <1>2 DEF CInv, TypeOK, RowsOK, Lives
<1>6. Good
  BY <1>4, <1>5, SameGood
<1>7. ASSUME NEW CONSTANT b \in Actors
      PROVE  /\ was'[b] = Nobody \/ was'[b] \in [Places -> {NoRow} \union Rows]
             /\ Mine(b, run'[b], was'[b], rows', live')
  <2>1. CASE b = a
    <3>1. was'[b] = rows /\ run'[b] = q
      BY <1>4, <1>5, <2>1 DEF CInv, TypeOK
    <3>2. Progress(a, q, rows, rows', live') /\ Atomic(a, q, rows, rows')
      BY <1>3, <1>4 DEF Progress, Atomic
    <3>3. QED
      BY <1>3, <1>5, <2>1, <3>1, <3>2 DEF Mine, RowsOK
  <2>2. CASE b # a
    <3>1. was'[b] = was[b] /\ run'[b] = run[b]
      BY <1>4, <1>5, <2>2 DEF CInv, TypeOK
    <3>2. QED
      BY <1>4, <3>1, Watching DEF CInv, TypeOK
  <2>3. QED
    BY <2>1, <2>2
<1>8. TypeOK'
  <2>1. left' \in 0..MaxRequests
    BY <1>4, CompoundAssumption DEF CInv, TypeOK
  <2>2. run' \in [Actors -> Runs]
    BY <1>3, <1>5
  <2>3. QED
    BY <1>4, <1>6, <1>7, <2>1, <2>2 DEF CInv, TypeOK, Good, RowsOK, Lives
<1>9. QED
  BY <1>6, <1>7, <1>8 DEF CInv, Good

\* A request that has returned is none.
LEMMA ReturnInv ==
    ASSUME CInv, NEW CONSTANT a \in Actors, Return(a)
    PROVE  CInv'
<1>1. /\ UNCHANGED <<rows, live, astray, left, refusals>>
      /\ run' = [run EXCEPT ![a] = NoRun] /\ was' = [was EXCEPT ![a] = Nobody]
  BY DEF Return
<1>2. RowsOK /\ RunningIsWritten /\ run \in [Actors -> Runs]
  BY DEF CInv, TypeOK, RowsOK, Lives
<1>3. Good
  BY <1>1, <1>2, SameGood
<1>4. NoRun \in Runs /\ RunOK(a, NoRun)
  BY RowKinds DEF NoRun, Request, Runs, Ops, Pcs, RunOK, Stage, DeletedFirst
<1>5. ASSUME NEW CONSTANT b \in Actors
      PROVE  /\ was'[b] = Nobody \/ was'[b] \in [Places -> {NoRow} \union Rows]
             /\ Mine(b, run'[b], was'[b], rows', live')
  <2>1. CASE b = a
    BY <1>1, <1>2, <1>4, <2>1 DEF Mine, Progress, Atomic, CInv, TypeOK
  <2>2. CASE b # a
    <3>1. was'[b] = was[b] /\ run'[b] = run[b]
      BY <1>1, <1>2, <2>2 DEF CInv, TypeOK
    <3>2. QED
      BY <1>1, <3>1, Watching DEF CInv, TypeOK
  <2>3. QED
    BY <2>1, <2>2
<1>6. TypeOK'
  BY <1>1, <1>2, <1>3, <1>4, <1>5 DEF CInv, TypeOK, Good, RowsOK, Lives
<1>7. QED
  BY <1>3, <1>5, <1>6 DEF CInv, Good

\* A step of others, after which no request knows the rows it began with.
LEMMA OthersInv ==
    ASSUME CInv, Good, UNCHANGED run, Watched({}), astray' \subseteq Nodes,
           left' \in 0..MaxRequests, UNCHANGED refusals
    PROVE  CInv'
<1>1. /\ \A b \in Actors : was'[b] = Nobody \/ (was'[b] = was[b] /\ UNCHANGED <<rows, live>>)
      /\ was' \in [Actors -> {Nobody} \union [Places -> {NoRow} \union Rows]]
  BY WatchedFacts
<1>2. ASSUME NEW CONSTANT b \in Actors
      PROVE  Mine(b, run'[b], was'[b], rows', live')
  BY <1>1, Watching
<1>3. TypeOK'
  BY <1>1 DEF CInv, TypeOK, Good, RowsOK, Lives
<1>4. QED
  BY <1>2, <1>3 DEF CInv, Good

\* One request fewer to come.
LEMMA LeftCount ==
    ASSUME CInv, left > 0, left' = left - 1
    PROVE  left' \in 0..MaxRequests
BY CompoundAssumption DEF CInv, TypeOK

\* A request of one transaction.
LEMMA SingleInv ==
    ASSUME CInv, NEW CONSTANT a \in Actors, Single(a), Watched({}), UNCHANGED astray
    PROVE  CInv'
<1>1. RowsOK /\ RunningIsWritten /\ astray \subseteq astray'
  BY DEF CInv, TypeOK, RowsOK, Lives
<1>2. PICK p \in Places :
         \/ CanEdit(a, p) /\ \E b \in Bodies : Edited(p, b)
         \/ Deleted(p)
         \/ \E on \in BOOLEAN : CanSwitch(a, p, on) /\ Switched(p, on)
         \/ \E n \in Members[p], on \in BOOLEAN : CanStop(a, p, n, on) /\ NodeStopped(p, n, on)
  BY DEF Single
<1>3. Good
  <2>1. CASE CanEdit(a, p) /\ \E b \in Bodies : Edited(p, b)
    BY <1>1, <2>1, EditedGood
  <2>2. CASE Deleted(p)
    BY <1>1, <2>2, DeletedGood
  <2>3. CASE \E on \in BOOLEAN : CanSwitch(a, p, on) /\ Switched(p, on)
    BY <1>1, <2>3, SwitchedGood
  <2>4. CASE \E n \in Members[p], on \in BOOLEAN : CanStop(a, p, n, on) /\ NodeStopped(p, n, on)
    BY <1>1, <2>4, NodeStoppedGood
  <2>5. QED
    BY <1>2, <2>1, <2>2, <2>3, <2>4
<1>4. UNCHANGED <<run, refusals>> /\ left > 0 /\ left' = left - 1
  BY DEF Single
<1>5. left' \in 0..MaxRequests
  BY <1>4, LeftCount
<1>6. astray' \subseteq Nodes
  BY DEF CInv, TypeOK
<1>7. QED
  BY <1>3, <1>4, <1>5, <1>6, OthersInv

\* A rule of an API client comes or goes.
LEMMA ClientInv ==
    ASSUME CInv, NEW CONSTANT n \in Nodes, Client(n), Watched({}), Strays({n})
    PROVE  CInv'
<1>1. RowsOK /\ RunningIsWritten
  BY DEF CInv, TypeOK, RowsOK, Lives
<1>2. /\ UNCHANGED <<rows, run, refusals>> /\ left > 0 /\ left' = left - 1
      /\ live' = [live EXCEPT ![n] = IF live[n] = Api THEN None ELSE Api]
  BY DEF Client
<1>3. PICK x : x = IF live[n] = Api THEN None ELSE Api
  OBVIOUS
<1>4. x \in Lives /\ x.origin # "ui"
  BY <1>3, LiveKinds
<1>5. Good
  BY <1>1, <1>2, <1>3, <1>4, StrayGood
<1>6. left' \in 0..MaxRequests
  BY <1>2, LeftCount
<1>7. astray' \subseteq Nodes
  BY DEF CInv, TypeOK, Strays
<1>8. QED
  BY <1>2, <1>5, <1>6, <1>7, OthersInv

\* A step that changes nothing.
LEMMA StutterInv ==
    ASSUME CInv, UNCHANGED vars
    PROVE  CInv'
BY DEF CInv, TypeOK, RunningIsWritten, vars

\* Every step keeps the invariant.
LEMMA NextInv == CInv /\ [Next]_vars => CInv'
<1> SUFFICES ASSUME CInv, [Next]_vars
             PROVE  CInv'
  OBVIOUS
<1>1. ASSUME NEW CONSTANT a \in Actors, Begin(a)
      PROVE  CInv'
  BY <1>1, BeginInv
<1>2. ASSUME NEW CONSTANT a \in Actors, Return(a)
      PROVE  CInv'
  BY <1>2, ReturnInv
<1>3. ASSUME NEW CONSTANT a \in Actors, Single(a), Watched({}), UNCHANGED astray
      PROVE  CInv'
  BY <1>3, SingleInv
<1>4. ASSUME NEW CONSTANT a \in Actors, Step(a), Watched({a}), UNCHANGED left,
             Strays(IF run[a].pc = "write" THEN {run[a].to} ELSE {})
      PROVE  CInv'
  BY <1>4, StepInv
<1>5. ASSUME NEW CONSTANT n \in Nodes, Client(n), Watched({}), Strays({n})
      PROVE  CInv'
  BY <1>5, ClientInv
<1>6. CASE UNCHANGED vars
  BY <1>6, StutterInv
<1>7. QED
  BY <1>1, <1>2, <1>3, <1>4, <1>5, <1>6 DEF Next

\* The invariant holds at first, whatever rows and rules of the API there are.
LEMMA InitInv == Init => CInv
<1> SUFFICES ASSUME Init
             PROVE  CInv
  OBVIOUS
<1>1. /\ run = [a \in Actors |-> NoRun] /\ was = [a \in Actors |-> Nobody] /\ astray = {}
      /\ left = MaxRequests /\ refusals = MaxRefusals
      /\ rows \in [Places -> {NoRow} \union Rows]
      /\ live \in [Nodes -> {None, Api} \union {Ui(b) : b \in Bodies}]
      /\ \A p \in Places, q \in Places : p # q => At(p, rows[p]) \intersect At(q, rows[q]) = {}
  BY DEF Init
<1>2. NoRun \in Runs /\ \A a \in Actors : RunOK(a, NoRun)
  BY RowKinds DEF NoRun, Request, Runs, Ops, Pcs, RunOK, Stage, DeletedFirst
<1>3. TypeOK
  BY <1>1, <1>2, CompoundAssumption DEF TypeOK
<1>4. \A a \in Actors : Mine(a, run[a], was[a], rows, live)
  BY <1>1, <1>2 DEF Mine, Progress, Atomic
<1>5. ASSUME NEW n \in Nodes
      PROVE  /\ live[n].origin = "ui" => \E q \in Places : n \in At(q, rows[q])
             /\ \A q \in Places : n \in At(q, rows[q]) =>
                  /\ \A s \in Places : n \in At(s, rows[s]) => s = q
                  /\ live[n] \in {Api, Ui(rows[q].body)}
  <2>1. live[n] # Api =>
          live[n] = IF \E p \in Places : n \in At(p, rows[p])
                    THEN Ui(rows[CHOOSE p \in Places : n \in At(p, rows[p])].body) ELSE None
    BY DEF Init
  <2>2. ASSUME NEW q \in Places, n \in At(q, rows[q])
        PROVE  (\A s \in Places : n \in At(s, rows[s]) => s = q) /\ live[n] \in {Api, Ui(rows[q].body)}
    <3>1. \A s \in Places : n \in At(s, rows[s]) => s = q
      BY <1>1, <2>2
    <3>2. PICK c : c = CHOOSE p \in Places : n \in At(p, rows[p])
      OBVIOUS
    <3>3. c \in Places /\ n \in At(c, rows[c])
      BY <2>2, <3>2, Zenon
    <3>4. c = q
      BY <3>1, <3>3
    <3>5. QED
      BY <2>1, <2>2, <3>1, <3>2, <3>4
  <2>3. CASE \E q \in Places : n \in At(q, rows[q])
    BY <2>2, <2>3
  <2>4. CASE ~\E q \in Places : n \in At(q, rows[q])
    BY <2>1, <2>4, LiveKinds
  <2>5. QED
    BY <2>3, <2>4
<1>6. RunningIsWritten
  <2> SUFFICES ASSUME NEW n \in Nodes \ astray, NEW here,
                      here = {p \in Places : n \in At(p, rows[p])}
               PROVE  /\ live[n].origin = "ui" => here # {}
                      /\ \A p \in here : here = {p} /\ live[n] \in {Api, Ui(rows[p].body)}
    BY DEF RunningIsWritten
  <2>1. ASSUME NEW p \in here
        PROVE  here = {p} /\ live[n] \in {Api, Ui(rows[p].body)}
    BY <1>5
  <2>2. QED
    BY <1>5, <2>1
<1>7. QED
  BY <1>3, <1>4, <1>6 DEF CInv

(***************************************************************************)
(* Whose rows a request changes.                                           *)
(***************************************************************************)

\* What a user's transaction may do to the row of p.
OwnOnly(a, p) == rows'[p] # rows[p] => {rows[p].owner, rows'[p].owner} \subseteq {a, Nobody}

\* A row of his that is edited, deleted, paused or stopped on a node.
LEMMA OwnChanged ==
    ASSUME RowsOK, NEW a \in Actors \ Admins, NEW p \in Places, NEW q \in Places, Own(a, q),
           \/ \E b : Edited(q, b)
           \/ Deleted(q)
           \/ \E on \in BOOLEAN : Switched(q, on)
           \/ \E n : \E on \in BOOLEAN : NodeStopped(q, n, on)
    PROVE  OwnOnly(a, p)
<1>1. rows[q] \in Rows /\ rows[q].owner = a
  BY RowFields DEF Own
<1> DEFINE SameOwner == /\ rows' = [rows EXCEPT ![q] = rows'[q]]
                        /\ rows'[q] = NoRow \/ rows'[q].owner = rows[q].owner
<1>2. SameOwner
  <2>1. ASSUME NEW b, Edited(q, b)
        PROVE  SameOwner
    <3>1. PICK x : x = [hard |-> rows[q].body.hard, soft |-> b.soft]
      OBVIOUS
    <3>2. rows' = [rows EXCEPT ![q].body = x]
      BY <2>1, <3>1 DEF Edited
    <3>3. QED
      BY <1>1, <3>2 DEF RowsOK, Rows
  <2>2. ASSUME Deleted(q)
        PROVE  SameOwner
    BY <2>2 DEF Deleted, RowsOK
  <2>3. ASSUME NEW on \in BOOLEAN, Switched(q, on)
        PROVE  SameOwner
    BY <1>1, <2>3 DEF Switched, RowsOK, Rows
  <2>4. ASSUME NEW n, NEW on \in BOOLEAN, NodeStopped(q, n, on)
        PROVE  SameOwner
    <3>1. PICK S : S = IF on THEN rows[q].off \ {n} ELSE rows[q].off \union {n}
      OBVIOUS
    <3>2. rows' = [rows EXCEPT ![q] = [rows[q] EXCEPT !.off = S]]
      BY <2>4, <3>1 DEF NodeStopped
    <3>3. QED
      BY <1>1, <3>2 DEF RowsOK, Rows
  <2>5. QED
    BY <2>1, <2>2, <2>3, <2>4
<1>3. CASE p = q
  BY <1>1, <1>2, <1>3, RowKinds DEF OwnOnly
<1>4. CASE p # q
  BY <1>2, <1>4 DEF OwnOnly, RowsOK
<1>5. QED
  BY <1>3, <1>4

\* A row of his that is put in.
LEMMA OwnAdded ==
    ASSUME RowsOK, NEW a \in Actors \ Admins, NEW p \in Places, NEW q \in Places, NEW r,
           CanAdd(q, r), Added(q, r), r.owner = a
    PROVE  OwnOnly(a, p)
BY RowKinds DEF OwnOnly, RowsOK, Added, CanAdd

\* The steps of a user's request change only his own rows.
LEMMA OwnStep ==
    ASSUME CInv, NEW CONSTANT a \in Actors \ Admins, NEW p \in Places, Step(a)
    PROVE  OwnOnly(a, p)
<1>1. PICK r : r = run[a]
  OBVIOUS
<1>2. r \in Runs /\ RunOK(a, r) /\ RowsOK
  BY <1>1, MyRun DEF Mine
<1>3. UNCHANGED rows => OwnOnly(a, p)
  BY DEF OwnOnly
<1>4. CASE Inspect(a) \/ Read(a) \/ Shadow(a) \/ Check(a) \/ Recheck(a)
  BY <1>3, <1>4 DEF Inspect, Read, Shadow, Check, Recheck, Ask, Tx
<1>5. CASE List(a) \/ OwnRow(a) \/ Status(a) \/ Write(a)
  BY <1>3, <1>5 DEF List, OwnRow, Status, Write, Ask, Goes, Tx
<1>6. CASE EditInPlace(a)
  <2>1. r.at \in Places
    BY <1>1, <1>2, <1>6 DEF EditInPlace, RunOK, Stage
  <2>2. UNCHANGED rows \/ (Own(a, r.at) /\ Edited(r.at, r.rule.body))
    BY <1>1, <1>6 DEF EditInPlace, Ask, Tx, CanEdit
  <2>3. QED
    BY <1>2, <1>3, <2>1, <2>2, OwnChanged
<1>7. CASE Delete(a) \/ Remove(a)
  <2>1. r.at \in Places
    BY <1>1, <1>2, <1>7 DEF Delete, Remove, RunOK, Stage
  <2>2. UNCHANGED rows \/ (Own(a, r.at) /\ Deleted(r.at))
    BY <1>1, <1>7 DEF Delete, Remove, Tx
  <2>3. QED
    BY <1>2, <1>3, <2>1, <2>2, OwnChanged
<1>8. CASE Unmake(a)
  <2>1. r.to \in Places
    BY <1>1, <1>2, <1>8 DEF Unmake, RunOK, Stage
  <2>2. UNCHANGED rows \/ (Own(a, r.to) /\ Deleted(r.to))
    BY <1>1, <1>8 DEF Unmake, Tx
  <2>3. QED
    BY <1>2, <1>3, <2>1, <2>2, OwnChanged
<1>9. CASE Add(a)
  <2>1. r.to \in Places /\ r.rule.owner = a
    BY <1>1, <1>2, <1>9 DEF Add, RunOK, Stage, RowFor
  <2>2. UNCHANGED rows \/ (CanAdd(r.to, r.rule) /\ Added(r.to, r.rule))
    BY <1>1, <1>9 DEF Add, Tx
  <2>3. QED
    BY <1>2, <1>3, <2>1, <2>2, OwnAdded
<1>10. CASE Readd(a)
  <2>1. r.at \in Places /\ r.snap.owner = a
    BY <1>1, <1>2, <1>10 DEF Readd, RunOK, Stage, RowFor
  <2>2. UNCHANGED rows \/ (CanAdd(r.at, r.snap) /\ Added(r.at, r.snap))
    BY <1>1, <1>10 DEF Readd, Tx
  <2>3. QED
    BY <1>2, <1>3, <2>1, <2>2, OwnAdded
<1>11. CASE Each(a)
  <2>1. \/ UNCHANGED rows
        \/ \E q \in r.todo, on \in BOOLEAN :
             /\ Own(a, q)
             /\ Switched(q, on) \/ NodeStopped(q, r.to, on)
    BY <1>1, <1>11 DEF Each, Goes, Tx, CanSwitch, CanStop
  <2>2. r.todo \subseteq Places
    BY <1>2 DEF Runs
  <2>3. CASE UNCHANGED rows
    BY <1>3, <2>3
  <2>4. ASSUME NEW q \in r.todo, NEW on \in BOOLEAN, Own(a, q),
               Switched(q, on) \/ NodeStopped(q, r.to, on)
        PROVE  OwnOnly(a, p)
    <3>1. CASE Switched(q, on)
      BY <1>2, <2>2, <2>4, <3>1, OwnChanged
    <3>2. CASE NodeStopped(q, r.to, on)
      <4>1. \E n : \E x \in BOOLEAN : NodeStopped(q, n, x)
        BY <3>2
      <4>2. QED
        BY <1>2, <2>2, <2>4, <4>1, OwnChanged
    <3>3. QED
      BY <2>4, <3>1, <3>2
  <2>5. QED
    BY <2>1, <2>3, <2>4
<1>12. QED
  BY <1>4, <1>5, <1>6, <1>7, <1>8, <1>9, <1>10, <1>11 DEF Step

(***************************************************************************)
(* The theorems.                                                           *)
(***************************************************************************)

\* The inductive invariant: the types, what each request remembers and how far
\* it has come, and what the nodes run.
THEOREM CompoundInductive == Spec => []CInv
<1>1. Init => CInv
  BY InitInv
<1>2. CInv /\ [Next]_vars => CInv'
  BY NextInv
<1>3. QED
  BY <1>1, <1>2, PTL DEF Spec

\* However many requests overlap, a node runs the rule of the one row that wants it
\* there, and no rule of the UI when no row does.
THEOREM RunsWhatIsWritten == Spec => []RunningIsWritten
<1>1. CInv => RunningIsWritten
  BY DEF CInv
<1>2. QED
  BY <1>1, CompoundInductive, PTL

\* An import, revert, copy, move or stop of a node, undisturbed, has done all it is
\* for when it ends well, and nothing when it fails and could take back.
THEOREM CompoundAtomic == Spec => []AsIfAtomic
<1>1. CInv => AsIfAtomic
  BY AtomicParts DEF CInv
<1>2. QED
  BY <1>1, CompoundInductive, PTL

\* Nobody but an administrator changes, deletes or puts back a row of another
\* owner, although rows are read, judged and written at different times.
THEOREM UsersKeepToTheirRows == Spec => OwnRowsOnly
<1> DEFINE P == \A a \in Actors \ Admins, p \in Places :
                  run'[a] # run[a] /\ rows'[p] # rows[p]
                  => {rows[p].owner, rows'[p].owner} \subseteq {a, Nobody}
<1>1. CInv /\ [Next]_vars => [P]_vars
  <2> SUFFICES ASSUME CInv, Next, NEW CONSTANT a \in Actors \ Admins, NEW CONSTANT p \in Places,
                      run'[a] # run[a], rows'[p] # rows[p]
               PROVE  {rows[p].owner, rows'[p].owner} \subseteq {a, Nobody}
    OBVIOUS
  <2>1. ASSUME NEW CONSTANT b \in Actors, Begin(b) \/ Return(b)
        PROVE  FALSE
    BY <2>1 DEF Begin, Return
  <2>2. ASSUME NEW CONSTANT b \in Actors, Single(b)
        PROVE  FALSE
    BY <2>2 DEF Single
  <2>3. ASSUME NEW CONSTANT n \in Nodes, Client(n)
        PROVE  FALSE
    BY <2>3 DEF Client
  <2>4. ASSUME NEW CONSTANT b \in Actors, Step(b),
               Strays(IF run[b].pc = "write" THEN {run[b].to} ELSE {})
        PROVE  OwnOnly(a, p)
    <3>1. b = a
      BY <2>4, StepKept DEF Kept
    <3>2. QED
      BY <2>4, <3>1, OwnStep
  <2>5. QED
    BY <2>1, <2>2, <2>3, <2>4 DEF Next, OwnOnly
<1>2. QED
  BY <1>1, CompoundInductive, PTL DEF Spec, OwnRowsOnly
=============================================================================

------------------------ MODULE RulePlacementProofs ------------------------
(* The inductive invariant of RulePlacement and what follows from it.      *)
EXTENDS RulePlacement, TLAPS

(***************************************************************************)
(* What the operators on rows and rules return.                            *)
(***************************************************************************)

\* The fields of overrides and rows.
LEMMA OverrideFields ==
    ASSUME NEW o \in Overrides
    PROVE  /\ o.addr \in Addrs \union {Keep}
           /\ o.body \in Bodies \union {Keep}
           /\ o.off \in BOOLEAN
BY PlacementAssumption

\* The fields of a row; the missing row is never on.
LEMMA RowFields ==
    ASSUME NEW r \in Rows
    PROVE  /\ r.on \in BOOLEAN
           /\ r = NoRow => ~r.on
           /\ r # NoRow => r.body \in Bodies
<1>1. CASE r = NoRow
  BY <1>1 DEF NoRow
<1>2. CASE r # NoRow
  BY <1>2 DEF Rows
<1>3. QED
  BY <1>1, <1>2

\* The rule a node runs has an address, and a body whenever it is on.
LEMMA EffectiveType ==
    ASSUME NEW r \in Rows, NEW o \in Overrides
    PROVE  /\ Effective(r, o).addr \in Addrs
           /\ Effective(r, o).on \in BOOLEAN
           /\ Effective(r, o).on => r.on /\ Effective(r, o).body \in Bodies
<1>1. Effective(r, o).addr \in Addrs
  BY OverrideFields, PlacementAssumption DEF Effective
<1>2. Effective(r, o).on = (r.on /\ ~o.off)
  BY DEF Effective
<1>3. Effective(r, o).on => r # NoRow
  BY <1>2, RowFields
<1>4. r # NoRow => Effective(r, o).body \in Bodies
  BY OverrideFields, RowFields DEF Effective
<1>5. QED
  BY <1>1, <1>2, <1>3, <1>4

\* The slots of a node, as pairs.
LEMMA SlotFields ==
    ASSUME NEW s \in Slots
    PROVE  s[1] \in Nodes /\ s[2] \in Addrs /\ s = <<s[1], s[2]>>
BY DEF Slots

\* The four kinds of content of a listener exclude each other.
LEMMA LiveKinds ==
    /\ Empty \in Live /\ Empty.origin = "none"
    /\ \A b \in Bodies : Ui(b) \in Live /\ Ui(b).origin = "ui" /\ Ui(b).body = b
    /\ \A v \in Live : \/ v = Empty
                       \/ \E b \in Bodies : v = Ui(b)
                       \/ v \in Foreign /\ v.origin \in {"api", "static"}
    /\ \A b, d : Ui(b) = Ui(d) => b = d
    /\ \A b : Ui(b) # Empty
    /\ \A v \in Live : v.origin = "ui" => \E b \in Bodies : v = Ui(b)
    /\ \A v \in Live : v.origin = "none" => v = Empty
<1>1. /\ Empty.origin = "none"
      /\ \A b : Ui(b).origin = "ui" /\ Ui(b).body = b
  BY DEF Empty, Ui
<1>2. Empty \in Live /\ \A b \in Bodies : Ui(b) \in Live
  BY DEF Live, Wanted
<1>3. \A v \in Foreign : v.origin \in {"api", "static"}
  BY DEF Foreign
<1>4. \A v \in Live : v = Empty \/ v \in Foreign \/ \E b \in Bodies : v = Ui(b)
  BY DEF Live, Wanted
<1>5. QED
  BY <1>1, <1>2, <1>3, <1>4

\* What agreeing with the database means for each thing it may want.
LEMMA AgreesKinds ==
    /\ \A v : Agrees(v, Empty) <=> v.origin # "ui"
    /\ \A v, b : Agrees(v, Ui(b)) <=> v = Ui(b)
    /\ Agrees(Empty, Empty)
BY LiveKinds DEF Agrees

\* The rule wanted on a listener of node n.
LEMMA ExpectedAt ==
    ASSUME NEW r \in Rows, NEW os \in [Nodes -> Overrides], NEW s \in Slots
    PROVE  Expected(r, os, s) =
             IF Effective(r, os[s[1]]).on /\ s = At(s[1], Effective(r, os[s[1]]))
             THEN Ui(Effective(r, os[s[1]]).body) ELSE Empty
BY SlotFields DEF Expected, At

\* It is nothing or a UI rule.
LEMMA ExpectedType ==
    ASSUME NEW r \in Rows, NEW os \in [Nodes -> Overrides], NEW s \in Slots
    PROVE  Expected(r, os, s) \in Wanted
<1>1. os[s[1]] \in Overrides
  BY SlotFields
<1>2. QED
  BY <1>1, ExpectedAt, EffectiveType DEF Wanted

\* How a node ended is not a call it still has to make.
LEMMA DoneIsNoCall == Done \notin Calls /\ Failed \notin Calls /\ Done # Failed
BY DEF Done, Failed, Calls

\* The calls about a node's rule.
LEMMA CallTypes ==
    ASSUME NEW n \in Nodes, NEW e, e.addr \in Addrs
    PROVE  /\ At(n, e) \in Slots /\ At(n, e)[1] = n
           /\ Get(n, e) \in Calls /\ Delete(n, e) \in Calls
           /\ e.body \in Bodies => Post(n, e) \in Calls
           /\ \A w \in Bodies : e.body \in Bodies => Patch(n, e, w) \in Calls
BY DEF At, Slots, Get, Delete, Post, Patch, Calls

\* A call names its listener, so calls to different listeners differ.
LEMMA CallFields ==
    ASSUME NEW c \in Calls
    PROVE  /\ c.slot \in Slots
           /\ c.verb \in {"GET", "DELETE", "POST", "PATCH"}
           /\ c.verb = "POST" => c.body \in Bodies
           /\ c.verb = "PATCH" => c.body \in Bodies /\ c.was \in Bodies
BY DEF Calls

(***************************************************************************)
(* What a call leaves behind: the answers of rproxy, and no answer at all. *)
(***************************************************************************)
Outcomes(c, v) == Answers(c, v) \union {NoAnswer(v)}

\* A GET changes nothing.
LEMMA GetOutcome ==
    ASSUME NEW c, NEW v, NEW a \in Outcomes(c, v), c.verb = "GET"
    PROVE  a.now = v /\ a.code \in {"ok", "refused"}
BY DEF Outcomes, Answers, NoAnswer

\* A POST succeeds exactly on a free listener (rproxy answers 409 otherwise).
LEMMA PostOutcome ==
    ASSUME NEW c, NEW v, NEW a \in Outcomes(c, v), c.verb = "POST"
    PROVE  \/ a.code = "ok" /\ v = Empty /\ a.now = Ui(c.body)
           \/ a.code = "refused" /\ a.now = v
BY DEF Outcomes, Answers, NoAnswer

\* A DELETE empties the listener, or finds nothing, or finds a static rule.
LEMMA DeleteOutcome ==
    ASSUME NEW c, NEW v, NEW a \in Outcomes(c, v), c.verb = "DELETE"
    PROVE  \/ a.code = "ok" /\ v # Empty /\ v.origin # "static" /\ a.now = Empty
           \/ a.code = "missing" /\ v = Empty /\ a.now = v
           \/ a.code = "static" /\ v.origin = "static" /\ a.now = v
           \/ a.code = "refused" /\ a.now = v
<1>1. CASE a = NoAnswer(v)
  BY <1>1 DEF NoAnswer
<1>2. CASE a \in Answers(c, v) /\ v = Empty
  BY <1>2 DEF Answers
<1>3. CASE a \in Answers(c, v) /\ v # Empty /\ v.origin = "static"
  BY <1>3 DEF Answers
<1>4. CASE a \in Answers(c, v) /\ v # Empty /\ v.origin # "static"
  BY <1>4 DEF Answers
<1>5. QED
  BY <1>1, <1>2, <1>3, <1>4 DEF Outcomes

\* A PATCH of the content it takes the rule to have yields the new content.
LEMMA PatchOutcome ==
    ASSUME NEW c \in Calls, NEW v \in Live, NEW a \in Outcomes(c, v), c.verb = "PATCH"
    PROVE  \/ /\ a.code = "ok" /\ v # Empty /\ v.origin # "static"
              /\ a.now \in Live /\ a.now.origin = v.origin
              /\ v.body \in {c.was, c.body} /\ v.origin = "ui" => a.now = Ui(c.body)
           \/ a.code = "missing" /\ v = Empty /\ a.now = v
           \/ a.code = "static" /\ v.origin = "static" /\ a.now = v
           \/ a.code = "refused" /\ a.now = v
<1>1. CASE a = NoAnswer(v)
  BY <1>1 DEF NoAnswer
<1>2. CASE a \in Answers(c, v) /\ v = Empty
  BY <1>2 DEF Answers
<1>3. CASE a \in Answers(c, v) /\ v # Empty /\ v.origin = "static"
  BY <1>3 DEF Answers
<1>4. CASE a \in Answers(c, v) /\ v # Empty /\ v.origin # "static"
  <2>1. PICK w \in Patched(c, v) : a = [code |-> "ok", now |-> w]
    BY <1>4 DEF Answers
  <2>2. PICK b \in Bodies : /\ w = [v EXCEPT !.body = b]
                            /\ v.body \in {c.was, c.body} => b = c.body
    BY CallFields DEF Patched
  <2>3. v \in {Ui(d) : d \in Bodies} \union [origin : {"api"}, body : Bodies]
    BY <1>4 DEF Live, Wanted, Foreign
  <2>4. w \in Live /\ w.origin = v.origin
    BY <2>2, <2>3 DEF Live, Wanted, Foreign, Ui
  <2>5. v.body \in {c.was, c.body} /\ v.origin = "ui" => w = Ui(c.body)
    BY <2>2, <2>3 DEF Ui
  <2>6. QED
    BY <1>4, <2>1, <2>4, <2>5
<1>5. QED
  BY <1>1, <1>2, <1>3, <1>4 DEF Outcomes

\* The listener holds a rule rproxy can hold.
LEMMA OutcomeType ==
    ASSUME NEW c \in Calls, NEW v \in Live, NEW a \in Outcomes(c, v)
    PROVE  a.now \in Live /\ a.code \in {"ok", "missing", "static", "refused"}
BY CallFields, GetOutcome, PostOutcome, DeleteOutcome, PatchOutcome, LiveKinds

(***************************************************************************)
(* One step of a node's program.                                           *)
(***************************************************************************)
Old(s) == Expected(row, ovs, s)
New(s) == Expected(tx.row, tx.ovs, s)

\* The fields of a transaction that is under way.
LEMMA TxFields ==
    ASSUME TypeOK
    PROVE  tx.row \in Rows /\ tx.ovs \in [Nodes -> Overrides]
<1>1. NoRow \in Rows /\ NoOvs \in [Nodes -> Overrides]
  BY PlacementAssumption DEF Rows, NoOvs
<1>2. CASE tx = NoTx
  BY <1>1, <1>2 DEF NoTx
<1>3. CASE tx # NoTx
  BY <1>3 DEF TypeOK, Txs
<1>4. QED
  BY <1>2, <1>3

\* The node's rule before and after the change, and what its listeners want.
LEMMA Sides ==
    ASSUME TypeOK, NEW n \in Nodes
    PROVE  /\ Before(n).addr \in Addrs /\ After(n).addr \in Addrs
           /\ Before(n).on \in BOOLEAN /\ After(n).on \in BOOLEAN
           /\ Before(n).on => Before(n).body \in Bodies
           /\ After(n).on => After(n).body \in Bodies
           /\ \A s \in Slots : s[1] = n =>
                /\ Old(s) = IF Before(n).on /\ s = At(n, Before(n))
                            THEN Ui(Before(n).body) ELSE Empty
                /\ New(s) = IF After(n).on /\ s = At(n, After(n))
                            THEN Ui(After(n).body) ELSE Empty
<1>1. row \in Rows /\ ovs \in [Nodes -> Overrides]
  BY DEF TypeOK
<1>2. tx.row \in Rows /\ tx.ovs \in [Nodes -> Overrides]
  BY TxFields
<1>3. /\ Before(n).addr \in Addrs /\ Before(n).on \in BOOLEAN
      /\ Before(n).on => Before(n).body \in Bodies
  BY <1>1, EffectiveType DEF Before
<1>4. /\ After(n).addr \in Addrs /\ After(n).on \in BOOLEAN
      /\ After(n).on => After(n).body \in Bodies
  BY <1>2, EffectiveType DEF After
<1>5. ASSUME NEW s \in Slots, s[1] = n
      PROVE  /\ Old(s) = IF Before(n).on /\ s = At(n, Before(n))
                         THEN Ui(Before(n).body) ELSE Empty
             /\ New(s) = IF After(n).on /\ s = At(n, After(n))
                         THEN Ui(After(n).body) ELSE Empty
  BY <1>1, <1>2, <1>5, ExpectedAt DEF Old, New, Before, After
<1>6. QED
  BY <1>3, <1>4, <1>5

\* What Answered, Refused and TimedOut have in common.
StepOf(n, c, a) ==
    /\ tx # NoTx /\ c = call[n] /\ c \in Calls
    /\ a \in Outcomes(c, live[c.slot])
    /\ Reply(n, c, a)
    /\ live' = [live EXCEPT ![c.slot] = a.now]
    /\ suspect' \in SUBSET Slots
    /\ suspect \ suspect' \subseteq Resent(n)
    /\ Restoring(n) /\ a.code # "ok" => c.slot \in suspect'
    /\ UNCHANGED <<row, ovs, tx, tail, raced>>

\* A node's part of the invariant, with the types of its variables.
NodeOk(n) ==
    /\ NodeInv(n)
    /\ call[n] \in Calls \union {Done, Failed}
    /\ undo[n] \in SUBSET Calls

\* The acting node goes on with call nc, or has failed.
LEMMA GoesOn ==
    ASSUME TypeOK, NEW n \in Nodes, UNCHANGED <<row, ovs, tx>>,
           NEW nc \in Calls \union {Failed}, call'[n] = nc, undo'[n] = {},
           nc \in Calls => CallShape(n, nc)',
           \A s \in Slots \ suspect' : s[1] = n =>
             IF Moving(n) /\ nc \in Calls /\ nc.verb = "POST" /\ s = At(n, Before(n))
             THEN Agrees(live'[s], Empty) /\ (s \notin raced' => live'[s] = Empty)
             ELSE Agrees(live'[s], Old(s))
    PROVE  NodeOk(n)'
<1>1. /\ Before(n)' = Before(n) /\ After(n)' = After(n)
      /\ Moving(n)' <=> Moving(n)
      /\ \A s : Expected(row, ovs, s)' = Old(s)
  BY DEF Before, After, Moving, Old, Expected
<1>2. nc # Done
  BY DoneIsNoCall
<1>3. UndoShape(undo[n], n)'
  BY DEF UndoShape
<1>4. HalfMoved(n)' <=> (Moving(n) /\ nc \in Calls /\ nc.verb = "POST")
  BY <1>1 DEF HalfMoved
<1>5. ASSUME NEW s \in Slots, s \notin suspect', s[1] = n
      PROVE  IF (HalfMoved(n) /\ s = At(n, Before(n)))'
             THEN Agrees(live'[s], Empty) /\ (s \notin raced' => live'[s] = Empty)
             ELSE Agrees(live'[s], Expected(row, ovs, s)')
  BY <1>1, <1>4, <1>5 DEF At
<1>6. QED
  BY <1>2, <1>3, <1>5 DEF NodeInv, NodeOk

\* The acting node ends well, leaving the undo calls U.
LEMMA EndsWell ==
    ASSUME TypeOK, NEW n \in Nodes, UNCHANGED <<row, ovs, tx>>,
           NEW U \in SUBSET Calls, call'[n] = Done, undo'[n] = U,
           \A c \in U : c.slot[1] = n /\ c.verb # "GET",
           \A c, d \in U : c.slot = d.slot => c = d,
           \A s \in Slots \ suspect' : s[1] = n =>
             /\ \A c \in U : c.slot = s =>
                  /\ Reverses(c, Old(s), New(s)) /\ Agrees(live'[s], New(s))
                  /\ c.verb = "POST" /\ s \notin raced' => live'[s] = Empty
             /\ (\A c \in U : c.slot # s) =>
                  Agrees(live'[s], Old(s)) /\ Agrees(live'[s], New(s))
    PROVE  NodeOk(n)'
<1>1. \A s : Expected(row, ovs, s)' = Old(s) /\ Expected(tx.row, tx.ovs, s)' = New(s)
  BY DEF Old, New, Expected
<1>2. UndoShape(undo[n], n)'
  BY DEF UndoShape
<1>3. ASSUME NEW s \in Slots, s \notin suspect', s[1] = n
      PROVE  DoneAgrees(n, s)'
  BY <1>1, <1>3 DEF DoneAgrees, Possible
<1>4. ~HalfMoved(n)'
  BY DoneIsNoCall DEF HalfMoved
<1>5. QED
  BY <1>2, <1>3, <1>4, DoneIsNoCall DEF NodeInv, NodeOk

\* addForwardingRule: what a node of an add does next keeps the node's invariant.
LEMMA AddStep ==
    ASSUME IInv, NEW n \in Nodes, NEW c, NEW a, StepOf(n, c, a), tx.op = "add"
    PROVE  NodeOk(n)'
<1> DEFINE f == After(n)
<1>1. /\ TypeOK /\ row = NoRow /\ NodeInv(n) /\ CallShape(n, c) /\ c \in Calls
      /\ c = call[n] /\ c # Done
  BY DoneIsNoCall DEF IInv, TxShape, StepOf, NodeInv
<1>2. f.on /\ c = Post(n, f) /\ f.addr \in Addrs /\ f.body \in Bodies
  BY <1>1, Sides DEF CallShape
<1>3. ~Before(n).on
  BY <1>1 DEF Before, Effective, NoRow
<1>4. c.verb = "POST" /\ c.slot = At(n, f) /\ c.body = f.body
  BY <1>2 DEF Post
<1>5. \A s \in Slots : s[1] = n =>
        Old(s) = Empty /\ New(s) = IF s = At(n, f) THEN Ui(f.body) ELSE Empty
  BY <1>1, <1>2, <1>3, Sides
<1>6. \A s \in Slots \ suspect : s[1] = n => Agrees(live[s], Empty)
  BY <1>1, <1>5 DEF NodeInv, HalfMoved, Moving, Old
<1>7. suspect \subseteq suspect' /\ live' = [live EXCEPT ![c.slot] = a.now]
  BY DEF StepOf, Resent
<1>8. live \in [Slots -> Live] /\ At(n, f) \in Slots
  BY <1>1, <1>2, CallTypes DEF TypeOK
<1>9. AddReply(n, c, a)
  BY DEF StepOf, Reply
<1>10. call \in [Nodes -> Calls \union {Done, Failed}] /\ undo \in [Nodes -> SUBSET Calls]
  BY <1>1 DEF TypeOK
<1>11. CASE a.code = "ok"
  <2>1. live[c.slot] = Empty /\ a.now = Ui(f.body)
    BY <1>4, <1>11, PostOutcome DEF StepOf
  <2>2. call'[n] = Done /\ undo'[n] = {Delete(n, f)}
    BY <1>9, <1>10, <1>11 DEF AddReply, Settle, Fail
  <2>3. Delete(n, f) \in Calls /\ Delete(n, f).verb = "DELETE" /\ Delete(n, f).slot = At(n, f)
        /\ At(n, f)[1] = n
    BY <1>2, CallTypes DEF Delete
  <2>4. \A s \in Slots \ suspect' : s[1] = n =>
          IF s = At(n, f) THEN live'[s] = Ui(f.body) ELSE Agrees(live'[s], Empty)
    BY <1>4, <1>6, <1>7, <1>8, <2>1
  <2>5. Reverses(Delete(n, f), Empty, Ui(f.body))
    BY <2>3 DEF Reverses
  <2>6. QED
    BY <1>1, <1>5, <2>2, <2>3, <2>4, <2>5, AgreesKinds, EndsWell DEF StepOf
<1>12. CASE a.code # "ok"
  <2>1. a.now = live[c.slot]
    BY <1>4, <1>12, PostOutcome DEF StepOf
  <2>2. call'[n] = Failed /\ undo'[n] = {}
    BY <1>9, <1>10, <1>12 DEF AddReply, Settle, Fail
  <2>3. \A s \in Slots \ suspect' : s[1] = n => Agrees(live'[s], Old(s))
    BY <1>5, <1>6, <1>7, <1>8, <1>4, <2>1
  <2>4. QED
    BY <1>1, <2>2, <2>3, GoesOn, DoneIsNoCall DEF StepOf
<1>13. QED
  BY <1>11, <1>12

\* What the proofs of the other operations begin with.
LEMMA StepFacts ==
    ASSUME IInv, NEW n \in Nodes, NEW c, NEW a, StepOf(n, c, a)
    PROVE  /\ TypeOK /\ TxShape /\ NodeInv(n) /\ CallShape(n, c) /\ c \in Calls
           /\ c = call[n] /\ c # Done /\ tx # NoTx
           /\ UNCHANGED <<row, ovs, tx, raced>>
           /\ live \in [Slots -> Live] /\ c.slot \in Slots
           /\ live' = [live EXCEPT ![c.slot] = a.now]
           /\ a \in Outcomes(c, live[c.slot]) /\ live[c.slot] \in Live
           /\ call \in [Nodes -> Calls \union {Done, Failed}]
           /\ undo \in [Nodes -> SUBSET Calls]
           /\ tx.op # "resend" => suspect \subseteq suspect'
           /\ undo[n] = {}
           /\ \A s \in Slots \ suspect : s[1] = n =>
                IF HalfMoved(n) /\ s = At(n, Before(n))
                THEN Agrees(live[s], Empty) /\ (s \notin raced => live[s] = Empty)
                ELSE Agrees(live[s], Old(s))
<1>1. TypeOK /\ TxShape /\ NodeInv(n) /\ c \in Calls /\ c = call[n]
  BY DEF IInv, StepOf
<1>2. c # Done
  BY <1>1, DoneIsNoCall
<1>3. CallShape(n, c) /\ undo[n] = {}
  BY <1>1, <1>2 DEF NodeInv
<1>4. \A s \in Slots \ suspect : s[1] = n =>
        IF HalfMoved(n) /\ s = At(n, Before(n))
        THEN Agrees(live[s], Empty) /\ (s \notin raced => live[s] = Empty)
        ELSE Agrees(live[s], Old(s))
  BY <1>1, <1>2 DEF NodeInv, Old
<1>5. tx.op # "resend" => suspect \subseteq suspect'
  BY DEF StepOf, Resent
<1>6. live \in [Slots -> Live] /\ c.slot \in Slots
  BY <1>1, CallFields DEF TypeOK
<1>7. /\ call \in [Nodes -> Calls \union {Done, Failed}]
      /\ undo \in [Nodes -> SUBSET Calls]
  BY <1>1 DEF TypeOK
<1>8. QED
  BY <1>1, <1>2, <1>3, <1>4, <1>5, <1>6, <1>7 DEF StepOf

\* editForwardingRule: the guard, the PATCH or the POST of a missing rule, the undo.
LEMMA EditStep ==
    ASSUME IInv, NEW n \in Nodes, NEW c, NEW a, StepOf(n, c, a), tx.op = "edit"
    PROVE  NodeOk(n)'
<1> DEFINE e == Before(n)
           f == After(n)
           p == At(n, f)
<1>1. /\ TypeOK /\ c \in Calls /\ c.slot \in Slots
      /\ UNCHANGED <<row, ovs, tx, raced>> /\ suspect \subseteq suspect'
      /\ live' = [live EXCEPT ![c.slot] = a.now] /\ live \in [Slots -> Live]
      /\ call \in [Nodes -> Calls \union {Done, Failed}]
      /\ undo \in [Nodes -> SUBSET Calls]
      /\ a \in Outcomes(c, live[c.slot])
  BY StepFacts
<1>2. /\ tx.node \in {n, NoNode}
      /\ e.on /\ f.on /\ e.addr = f.addr
      /\ \/ c = Get(n, f) \/ c = Patch(n, f, e.body)
         \/ c = Post(n, f) /\ p \in suspect
  BY StepFacts DEF CallShape
<1>3. /\ e.addr \in Addrs /\ f.addr \in Addrs /\ e.body \in Bodies /\ f.body \in Bodies
      /\ \A s \in Slots : s[1] = n =>
           /\ Old(s) = IF s = p THEN Ui(e.body) ELSE Empty
           /\ New(s) = IF s = p THEN Ui(f.body) ELSE Empty
  BY <1>1, <1>2, Sides DEF At
<1>4. /\ p \in Slots /\ p[1] = n /\ c.slot = p
      /\ Delete(n, f) \in Calls /\ Post(n, f) \in Calls /\ Get(n, f) \in Calls
      /\ Patch(n, f, e.body) \in Calls /\ Patch(n, e, f.body) \in Calls
  <2>1. /\ p \in Slots /\ p[1] = n /\ Delete(n, f) \in Calls /\ Post(n, f) \in Calls
        /\ Get(n, f) \in Calls /\ Patch(n, f, e.body) \in Calls
    BY <1>3, CallTypes
  <2>2. Patch(n, e, f.body) \in Calls
    BY <1>3, CallTypes
  <2>3. c.slot = p
    BY <1>2 DEF Get, Patch, Post
  <2>4. QED
    BY <2>1, <2>2, <2>3
<1>5. ~Moving(n)
  BY DEF Moving
<1>6. \A s \in Slots \ suspect : s[1] = n => Agrees(live[s], Old(s))
  BY <1>5, StepFacts DEF HalfMoved
<1>7. EditReply(n, c, a)
  BY DEF StepOf, Reply
<1>8. a.now = live[p] => \A s \in Slots \ suspect' : s[1] = n => Agrees(live'[s], Old(s))
  BY <1>1, <1>4, <1>6
<1>9. \A nc \in {Patch(n, f, e.body), Post(n, f)} :
        (nc = Post(n, f) => p \in suspect') => CallShape(n, nc)'
  <2>1. Before(n)' = e /\ After(n)' = f /\ tx' = tx /\ At(n, f)' = p
    BY <1>1 DEF Before, After, At
  <2>2. Patch(n, f, e.body)' = Patch(n, f, e.body) /\ Post(n, f)' = Post(n, f)
    BY <2>1 DEF Patch, Post, At
  <2>3. QED
    BY <1>2, <2>1, <2>2 DEF CallShape
<1>10. ASSUME call'[n] = Failed, undo'[n] = {}, a.now = live[p]
       PROVE  NodeOk(n)'
  BY <1>1, <1>5, <1>8, <1>10, GoesOn, DoneIsNoCall
<1>11. ASSUME NEW nc \in {Patch(n, f, e.body), Post(n, f)},
              nc = Post(n, f) => p \in suspect',
              call'[n] = nc, undo'[n] = {}, a.now = live[p]
       PROVE  NodeOk(n)'
  BY <1>1, <1>4, <1>5, <1>8, <1>9, <1>11, GoesOn
<1>12. CASE c.verb = "GET"
  <2>1. a.now = live[p] /\ a.code \in {"ok", "refused"}
    BY <1>1, <1>4, <1>12, GetOutcome
  <2>2. call'[n] \in {Patch(n, f, e.body), Failed} /\ undo'[n] = {}
    BY <1>1, <1>7, <1>12, <2>1 DEF EditReply, Then, Settle, Fail
  <2>3. Patch(n, f, e.body) # Post(n, f)
    BY DEF Patch, Post
  <2>4. QED
    BY <2>1, <2>2, <2>3, <1>10, <1>11
<1>13. CASE c.verb = "PATCH"
  <2>1. c = Patch(n, f, e.body)
    BY <1>2, <1>13 DEF Get, Post
  <2>2. c.was = e.body /\ c.body = f.body
    BY <2>1 DEF Patch
  <2>3. CASE a.code = "ok"
    <3>1. call'[n] = Done /\ undo'[n] = {Patch(n, e, f.body)}
      BY <1>1, <1>7, <1>13, <2>3 DEF EditReply, Then, Settle, Fail
    <3>2. p \notin suspect' => live'[p] = Ui(f.body)
      <4>1. p \notin suspect' => live[p] = Ui(e.body)
        BY <1>1, <1>3, <1>4, <1>6, AgreesKinds
      <4>2. live[p] = Ui(e.body) => a.now = Ui(f.body)
        BY <1>1, <1>3, <1>4, <1>13, <2>2, <2>3, PatchOutcome, LiveKinds
      <4>3. QED
        BY <4>1, <4>2, <1>1, <1>4
    <3>3. \A s \in Slots \ suspect' : s[1] = n /\ s # p => Agrees(live'[s], Empty)
      BY <1>1, <1>3, <1>4, <1>6
    <3>4. /\ Reverses(Patch(n, e, f.body), Ui(e.body), Ui(f.body))
          /\ Patch(n, e, f.body).verb = "PATCH" /\ Patch(n, e, f.body).slot = p
      BY <1>2 DEF Reverses, Patch, At
    <3>5. QED
      BY <1>1, <1>3, <1>4, <3>1, <3>2, <3>3, <3>4, AgreesKinds, EndsWell
  <2>4. CASE a.code = "missing"
    <3>1. a.now = live[p] /\ live[p] = Empty
      BY <1>1, <1>4, <1>13, <2>4, PatchOutcome
    <3>2. p \in suspect'
      BY <1>1, <1>3, <1>4, <1>6, <3>1, AgreesKinds, LiveKinds
    <3>3. call'[n] = Post(n, f) /\ undo'[n] = {}
      BY <1>1, <1>7, <1>13, <2>4 DEF EditReply, Then, Settle, Fail
    <3>4. QED
      BY <3>1, <3>2, <3>3, <1>11
  <2>5. CASE a.code \notin {"ok", "missing"}
    <3>1. a.now = live[p]
      BY <1>1, <1>4, <1>13, <2>5, PatchOutcome
    <3>2. call'[n] = Failed /\ undo'[n] = {}
      BY <1>1, <1>7, <1>13, <2>5 DEF EditReply, Then, Settle, Fail
    <3>3. QED
      BY <3>1, <3>2, <1>10
  <2>6. QED
    BY <2>3, <2>4, <2>5
<1>14. CASE c.verb = "POST"
  <2>1. p \in suspect'
    BY <1>1, <1>2, <1>14 DEF Get, Patch
  <2>2. CASE a.code = "ok"
    <3>1. call'[n] = Done /\ undo'[n] = {Delete(n, f)}
      BY <1>1, <1>7, <1>14, <2>2 DEF EditReply, Then, Settle, Fail
    <3>2. \A s \in Slots \ suspect' : s[1] = n => s # p /\ Agrees(live'[s], Empty)
      BY <1>1, <1>3, <1>4, <1>6, <2>1
    <3>3. Delete(n, f).verb = "DELETE" /\ Delete(n, f).slot = p
      BY DEF Delete
    <3>4. QED
      BY <1>1, <1>3, <1>4, <3>1, <3>2, <3>3, EndsWell
  <2>3. CASE a.code # "ok"
    <3>1. a.now = live[p] /\ a.code = "refused"
      BY <1>1, <1>4, <1>14, <2>3, PostOutcome
    <3>2. call'[n] = Failed /\ undo'[n] = {}
      BY <1>1, <1>7, <1>14, <3>1 DEF EditReply, Then, Settle, Fail
    <3>3. QED
      BY <3>1, <3>2, <1>10
  <2>4. QED
    BY <2>2, <2>3
<1>15. QED
  BY <1>2, <1>12, <1>13, <1>14 DEF Get, Patch, Post

\* deleteForwardingRule and pauseForwardingRule: the guard, the DELETE, the undo.
LEMMA RemoveStep ==
    ASSUME IInv, NEW n \in Nodes, NEW c, NEW a, StepOf(n, c, a),
           tx.op \in {"delete", "pause"}
    PROVE  NodeOk(n)'
<1> DEFINE e == Before(n)
           p == At(n, e)
<1>1. /\ TypeOK /\ c \in Calls /\ c.slot \in Slots
      /\ UNCHANGED <<row, ovs, tx, raced>> /\ suspect \subseteq suspect'
      /\ live' = [live EXCEPT ![c.slot] = a.now] /\ live \in [Slots -> Live]
      /\ call \in [Nodes -> Calls \union {Done, Failed}]
      /\ undo \in [Nodes -> SUBSET Calls]
      /\ a \in Outcomes(c, live[c.slot])
  BY StepFacts
<1>2. tx.node \in {n, NoNode} /\ e.on /\ (c = Get(n, e) \/ c = Delete(n, e))
  BY StepFacts DEF CallShape
<1>3. ~After(n).on
  <2>1. ~tx.row.on
    <3>1. CASE tx.op = "delete"
      BY <3>1, StepFacts, RowFields, TxFields DEF TxShape
    <3>2. CASE tx.op = "pause"
      <4>1. tx.row = [row EXCEPT !.on = FALSE] /\ row \in Rows
        BY <3>2, StepFacts DEF TxShape, TypeOK
      <4>2. QED
        BY <4>1 DEF Rows, NoRow
    <3>3. QED
      BY <3>1, <3>2
  <2>2. QED
    BY <2>1 DEF After, Effective
<1>4. /\ e.addr \in Addrs /\ e.body \in Bodies
      /\ \A s \in Slots : s[1] = n =>
           /\ Old(s) = IF s = p THEN Ui(e.body) ELSE Empty
           /\ New(s) = Empty
  BY <1>1, <1>2, <1>3, Sides
<1>5. p \in Slots /\ p[1] = n /\ Delete(n, e) \in Calls /\ Post(n, e) \in Calls
  BY <1>4, CallTypes
<1>6. c.slot = p
  BY <1>2 DEF Get, Delete
<1>7. ~Moving(n)
  BY DEF Moving
<1>8. \A s \in Slots \ suspect : s[1] = n => Agrees(live[s], Old(s))
  BY <1>7, StepFacts DEF HalfMoved
<1>9. RemoveReply(n, c, a)
  BY DEF StepOf, Reply
<1>10. a.now = live[p] => \A s \in Slots \ suspect' : s[1] = n => Agrees(live'[s], Old(s))
  BY <1>1, <1>6, <1>8
<1>11. p \in suspect' \/ live[p] = Ui(e.body)
  BY <1>1, <1>4, <1>5, <1>8, AgreesKinds
<1>12. ASSUME call'[n] = Failed, undo'[n] = {}, a.now = live[p]
       PROVE  NodeOk(n)'
  BY <1>1, <1>7, <1>10, <1>12, GoesOn, DoneIsNoCall
<1>13. ASSUME call'[n] = Done, undo'[n] = {}, a.now = live[p], p \in suspect'
       PROVE  NodeOk(n)'
  BY <1>1, <1>4, <1>10, <1>13, EndsWell
<1>14. CASE c.verb = "GET"
  <2>1. a.now = live[p] /\ a.code \in {"ok", "refused"}
    BY <1>1, <1>6, <1>14, GetOutcome
  <2>2. CASE a.code = "ok" /\ Shadowing(a.now)
    <3>1. p \in suspect'
      BY <1>4, <1>11, <2>1, <2>2, LiveKinds DEF Shadowing
    <3>2. call'[n] = Done /\ undo'[n] = {}
      BY <1>1, <1>9, <1>14, <2>2 DEF RemoveReply, Then, Settle, Fail
    <3>3. QED
      BY <2>1, <3>1, <3>2, <1>13
  <2>3. CASE a.code = "ok" /\ ~Shadowing(a.now)
    <3>1. PICK nc \in Calls : nc = Delete(n, e)
      BY <1>5
    <3>2. call'[n] = nc /\ undo'[n] = {}
      BY <1>1, <1>9, <1>14, <2>3, <3>1 DEF RemoveReply, Then, Settle, Fail
    <3>3. CallShape(n, nc)'
      <4>1. Before(n)' = e /\ tx' = tx /\ Delete(n, e)' = Delete(n, e)
        BY <1>1 DEF Before, Delete, At
      <4>2. QED
        BY <1>2, <3>1, <4>1 DEF CallShape
    <3>4. QED
      BY <1>1, <1>7, <1>10, <2>1, <3>2, <3>3, GoesOn
  <2>4. CASE a.code = "refused"
    <3>1. call'[n] = Failed /\ undo'[n] = {}
      BY <1>1, <1>9, <1>14, <2>4 DEF RemoveReply, Then, Settle, Fail
    <3>2. QED
      BY <2>1, <3>1, <1>12
  <2>5. QED
    BY <2>1, <2>2, <2>3, <2>4
<1>15. CASE c.verb = "DELETE"
  <2>1. CASE a.code = "ok"
    <3>1. call'[n] = Done /\ undo'[n] = {Post(n, e)}
      BY <1>1, <1>9, <1>15, <2>1 DEF RemoveReply, Then, Settle, Fail
    <3>2. a.now = Empty
      BY <1>1, <1>15, <2>1, DeleteOutcome
    <3>3. \A s \in Slots \ suspect' : s[1] = n =>
            IF s = p THEN live'[s] = Empty ELSE Agrees(live'[s], Empty)
      BY <1>1, <1>4, <1>6, <1>8, <3>2
    <3>4. /\ Reverses(Post(n, e), Ui(e.body), Empty)
          /\ Post(n, e).verb = "POST" /\ Post(n, e).slot = p
      BY DEF Reverses, Post
    <3>5. QED
      BY <1>1, <1>4, <1>5, <3>1, <3>3, <3>4, AgreesKinds, EndsWell
  <2>2. CASE a.code = "missing"
    <3>1. a.now = live[p] /\ live[p] = Empty
      BY <1>1, <1>6, <1>15, <2>2, DeleteOutcome
    <3>2. call'[n] = Done /\ undo'[n] = {}
      BY <1>1, <1>9, <1>15, <2>2 DEF RemoveReply, Then, Settle, Fail
    <3>3. QED
      BY <1>4, <1>11, <3>1, <3>2, <1>13, LiveKinds
  <2>3. CASE a.code = "static"
    <3>1. a.now = live[p] /\ live[p].origin = "static"
      BY <1>1, <1>6, <1>15, <2>3, DeleteOutcome
    <3>2. call'[n] \in {Done, Failed} /\ undo'[n] = {}
      BY <1>1, <1>9, <1>15, <2>3 DEF RemoveReply, Then, Settle, Fail
    <3>3. QED
      BY <1>4, <1>11, <3>1, <3>2, <1>12, <1>13, LiveKinds
  <2>4. CASE a.code = "refused"
    <3>1. a.now = live[p]
      BY <1>1, <1>6, <1>15, <2>4, DeleteOutcome
    <3>2. call'[n] = Failed /\ undo'[n] = {}
      BY <1>1, <1>9, <1>15, <2>4 DEF RemoveReply, Then, Settle, Fail
    <3>3. QED
      BY <3>1, <3>2, <1>12
  <2>5. QED
    BY <1>1, <1>15, <2>1, <2>2, <2>3, <2>4, DeleteOutcome
<1>16. QED
  BY <1>2, <1>14, <1>15 DEF Get, Delete

\* resumeForwardingRule: the guard, the POST, the undo.
LEMMA ResumeStep ==
    ASSUME IInv, NEW n \in Nodes, NEW c, NEW a, StepOf(n, c, a), tx.op = "resume"
    PROVE  NodeOk(n)'
<1> DEFINE f == After(n)
           p == At(n, f)
<1>1. /\ TypeOK /\ c \in Calls /\ c.slot \in Slots
      /\ UNCHANGED <<row, ovs, tx, raced>> /\ suspect \subseteq suspect'
      /\ live' = [live EXCEPT ![c.slot] = a.now] /\ live \in [Slots -> Live]
      /\ call \in [Nodes -> Calls \union {Done, Failed}]
      /\ undo \in [Nodes -> SUBSET Calls]
      /\ a \in Outcomes(c, live[c.slot])
  BY StepFacts
<1>2. tx.node \in {n, NoNode} /\ ~Before(n).on /\ f.on /\ (c = Get(n, f) \/ c = Post(n, f))
  BY StepFacts DEF CallShape
<1>3. /\ f.addr \in Addrs /\ f.body \in Bodies
      /\ \A s \in Slots : s[1] = n =>
           /\ Old(s) = Empty
           /\ New(s) = IF s = p THEN Ui(f.body) ELSE Empty
  BY <1>1, <1>2, Sides
<1>4. p \in Slots /\ p[1] = n /\ Delete(n, f) \in Calls /\ Post(n, f) \in Calls
  BY <1>3, CallTypes
<1>5. c.slot = p
  BY <1>2 DEF Get, Post
<1>6. ~Moving(n)
  BY DEF Moving
<1>7. \A s \in Slots \ suspect : s[1] = n => Agrees(live[s], Empty)
  BY <1>3, <1>6, StepFacts DEF HalfMoved
<1>8. ResumeReply(n, c, a)
  BY DEF StepOf, Reply
<1>9. a.now = live[p] => \A s \in Slots \ suspect' : s[1] = n => Agrees(live'[s], Old(s))
  BY <1>1, <1>3, <1>5, <1>7
<1>10. CASE a.code # "ok"
  <2>1. a.now = live[p]
    BY <1>1, <1>2, <1>5, <1>10, GetOutcome, PostOutcome DEF Get, Post
  <2>2. call'[n] = Failed /\ undo'[n] = {}
    BY <1>1, <1>8, <1>10 DEF ResumeReply, Then, Settle, Fail
  <2>3. QED
    BY <1>1, <1>6, <1>9, <2>1, <2>2, GoesOn, DoneIsNoCall
<1>11. CASE a.code = "ok" /\ c.verb = "GET"
  <2>1. a.now = live[p]
    BY <1>1, <1>5, <1>11, GetOutcome
  <2>2. call'[n] \in {Failed, Post(n, f)} /\ undo'[n] = {}
    BY <1>1, <1>8, <1>11 DEF ResumeReply, Then, Settle, Fail
  <2>3. CASE call'[n] = Failed
    BY <1>1, <1>6, <1>9, <2>1, <2>2, <2>3, GoesOn, DoneIsNoCall
  <2>4. CASE call'[n] = Post(n, f)
    <3>1. PICK nc \in Calls : nc = Post(n, f)
      BY <1>4
    <3>2. CallShape(n, nc)'
      <4>1. Before(n)' = Before(n) /\ After(n)' = f /\ tx' = tx /\ Post(n, f)' = Post(n, f)
        BY <1>1 DEF Before, After, Post, At
      <4>2. QED
        BY <1>2, <3>1, <4>1 DEF CallShape
    <3>3. QED
      BY <1>1, <1>6, <1>9, <2>1, <2>2, <2>4, <3>1, <3>2, GoesOn
  <2>5. QED
    BY <2>2, <2>3, <2>4
<1>12. CASE a.code = "ok" /\ c.verb = "POST"
  <2>1. a.now = Ui(f.body)
    BY <1>1, <1>2, <1>12, PostOutcome DEF Get, Post
  <2>2. call'[n] = Done /\ undo'[n] = {Delete(n, f)}
    BY <1>1, <1>8, <1>12 DEF ResumeReply, Then, Settle, Fail
  <2>3. \A s \in Slots \ suspect' : s[1] = n =>
          IF s = p THEN live'[s] = Ui(f.body) ELSE Agrees(live'[s], Empty)
    BY <1>1, <1>5, <1>7, <2>1
  <2>4. /\ Reverses(Delete(n, f), Empty, Ui(f.body))
        /\ Delete(n, f).verb = "DELETE" /\ Delete(n, f).slot = p
    BY DEF Reverses, Delete
  <2>5. QED
    BY <1>1, <1>3, <1>4, <2>2, <2>3, <2>4, AgreesKinds, EndsWell
<1>13. QED
  BY <1>2, <1>10, <1>11, <1>12 DEF Get, Post

(* The override operation, by what it does on the node: start, stop, change *)
(* or move the rule.                                                        *)

\* applyNodeChange when the override puts the rule on this node.
LEMMA OverrideStart ==
    ASSUME IInv, NEW n \in Nodes, NEW c, NEW a, StepOf(n, c, a), tx.op = "override",
           ~Before(n).on, After(n).on
    PROVE  NodeOk(n)'
<1> DEFINE f == After(n)
           p == At(n, f)
<1>1. /\ TypeOK /\ c \in Calls /\ c.slot \in Slots
      /\ UNCHANGED <<row, ovs, tx, raced>> /\ suspect \subseteq suspect'
      /\ live' = [live EXCEPT ![c.slot] = a.now] /\ live \in [Slots -> Live]
      /\ call \in [Nodes -> Calls \union {Done, Failed}]
      /\ undo \in [Nodes -> SUBSET Calls]
      /\ a \in Outcomes(c, live[c.slot])
  BY StepFacts
<1>2. ~Moving(n)
  BY DEF Moving
<1>3. tx.node \in {n, NoNode} /\ (c = Get(n, f) \/ c = Post(n, f))
  BY <1>2, StepFacts DEF CallShape
<1>4. /\ f.addr \in Addrs /\ f.body \in Bodies
      /\ \A s \in Slots : s[1] = n =>
           /\ Old(s) = Empty
           /\ New(s) = IF s = p THEN Ui(f.body) ELSE Empty
  BY <1>1, Sides
<1>5. p \in Slots /\ p[1] = n /\ Delete(n, f) \in Calls /\ Post(n, f) \in Calls
  BY <1>4, CallTypes
<1>6. c.slot = p
  BY <1>3 DEF Get, Post
<1>7. \A s \in Slots \ suspect : s[1] = n => Agrees(live[s], Empty)
  BY <1>2, <1>4, StepFacts DEF HalfMoved
<1>8. OverrideReply(n, c, a)
  BY DEF StepOf, Reply
<1>9. a.now = live[p] => \A s \in Slots \ suspect' : s[1] = n => Agrees(live'[s], Old(s))
  BY <1>1, <1>4, <1>6, <1>7
<1>10. CASE a.code # "ok"
  <2>1. a.now = live[p] /\ a.code = "refused"
    BY <1>1, <1>3, <1>6, <1>10, GetOutcome, PostOutcome DEF Get, Post
  <2>2. call'[n] = Failed /\ undo'[n] = {}
    BY <1>1, <1>3, <1>6, <1>8, <2>1 DEF OverrideReply, Then, Settle, Fail, Get, Post
  <2>3. QED
    BY <1>1, <1>2, <1>9, <2>1, <2>2, GoesOn, DoneIsNoCall
<1>11. CASE a.code = "ok" /\ c.verb = "GET"
  <2>1. a.now = live[p]
    BY <1>1, <1>6, <1>11, GetOutcome
  <2>2. call'[n] \in {Failed, Post(n, f)} /\ undo'[n] = {}
    BY <1>1, <1>8, <1>11 DEF OverrideReply, ChangeCall, Then, Settle, Fail
  <2>3. CASE call'[n] = Failed
    BY <1>1, <1>2, <1>9, <2>1, <2>2, <2>3, GoesOn, DoneIsNoCall
  <2>4. CASE call'[n] = Post(n, f)
    <3>1. PICK nc \in Calls : nc = Post(n, f)
      BY <1>5
    <3>2. CallShape(n, nc)'
      <4>1. Before(n)' = Before(n) /\ After(n)' = f /\ tx' = tx /\ Post(n, f)' = Post(n, f)
        BY <1>1 DEF Before, After, Post, At
      <4>2. QED
        BY <1>3, <3>1, <4>1 DEF CallShape
    <3>3. QED
      BY <1>1, <1>2, <1>9, <2>1, <2>2, <2>4, <3>1, <3>2, GoesOn
  <2>5. QED
    BY <2>2, <2>3, <2>4
<1>12. CASE a.code = "ok" /\ c.verb = "POST"
  <2>1. a.now = Ui(f.body)
    BY <1>1, <1>3, <1>12, PostOutcome DEF Get, Post
  <2>2. call'[n] = Done /\ undo'[n] = {Delete(n, f)}
    BY <1>1, <1>6, <1>8, <1>12 DEF OverrideReply, Then, Settle, Fail
  <2>3. \A s \in Slots \ suspect' : s[1] = n =>
          IF s = p THEN live'[s] = Ui(f.body) ELSE Agrees(live'[s], Empty)
    BY <1>1, <1>6, <1>7, <2>1
  <2>4. /\ Reverses(Delete(n, f), Empty, Ui(f.body))
        /\ Delete(n, f).verb = "DELETE" /\ Delete(n, f).slot = p
    BY DEF Reverses, Delete
  <2>5. QED
    BY <1>1, <1>4, <1>5, <2>2, <2>3, <2>4, AgreesKinds, EndsWell
<1>13. QED
  BY <1>3, <1>10, <1>11, <1>12 DEF Get, Post

\* applyNodeChange when the override takes the rule off this node.
LEMMA OverrideStop ==
    ASSUME IInv, NEW n \in Nodes, NEW c, NEW a, StepOf(n, c, a), tx.op = "override",
           Before(n).on, ~After(n).on
    PROVE  NodeOk(n)'
<1> DEFINE e == Before(n)
           p == At(n, e)
<1>1. /\ TypeOK /\ c \in Calls /\ c.slot \in Slots
      /\ UNCHANGED <<row, ovs, tx, raced>> /\ suspect \subseteq suspect'
      /\ live' = [live EXCEPT ![c.slot] = a.now] /\ live \in [Slots -> Live]
      /\ call \in [Nodes -> Calls \union {Done, Failed}]
      /\ undo \in [Nodes -> SUBSET Calls]
      /\ a \in Outcomes(c, live[c.slot])
  BY StepFacts
<1>2. ~Moving(n)
  BY DEF Moving
<1>3. tx.node \in {n, NoNode} /\ (c = Get(n, e) \/ c = Delete(n, e))
  BY <1>2, StepFacts DEF CallShape
<1>4. /\ e.addr \in Addrs /\ e.body \in Bodies
      /\ \A s \in Slots : s[1] = n =>
           /\ Old(s) = IF s = p THEN Ui(e.body) ELSE Empty
           /\ New(s) = Empty
  BY <1>1, Sides
<1>5. p \in Slots /\ p[1] = n /\ Delete(n, e) \in Calls /\ Post(n, e) \in Calls
  BY <1>4, CallTypes
<1>6. c.slot = p
  BY <1>3 DEF Get, Delete
<1>7. \A s \in Slots \ suspect : s[1] = n => Agrees(live[s], Old(s))
  BY <1>2, StepFacts DEF HalfMoved
<1>8. OverrideReply(n, c, a)
  BY DEF StepOf, Reply
<1>9. a.now = live[p] => \A s \in Slots \ suspect' : s[1] = n => Agrees(live'[s], Old(s))
  BY <1>1, <1>6, <1>7
<1>10. p \in suspect' \/ live[p] = Ui(e.body)
  BY <1>1, <1>4, <1>5, <1>7, AgreesKinds
<1>11. ASSUME call'[n] = Failed, undo'[n] = {}, a.now = live[p]
       PROVE  NodeOk(n)'
  BY <1>1, <1>2, <1>9, <1>11, GoesOn, DoneIsNoCall
<1>12. CASE c.verb = "GET"
  <2>1. a.now = live[p] /\ a.code \in {"ok", "refused"}
    BY <1>1, <1>6, <1>12, GetOutcome
  <2>2. CASE a.code = "ok" /\ Shadowing(a.now)
    <3>1. p \in suspect'
      BY <1>4, <1>10, <2>1, <2>2, LiveKinds DEF Shadowing
    <3>2. call'[n] = Done /\ undo'[n] = {}
      BY <1>1, <1>8, <1>12, <2>2 DEF OverrideReply, Then, Settle, Fail
    <3>3. QED
      BY <1>1, <1>4, <1>9, <2>1, <3>1, <3>2, EndsWell
  <2>3. CASE a.code = "ok" /\ ~Shadowing(a.now)
    <3>1. PICK nc \in Calls : nc = Delete(n, e)
      BY <1>5
    <3>2. call'[n] = nc /\ undo'[n] = {}
      BY <1>1, <1>8, <1>12, <2>3, <3>1 DEF OverrideReply, ChangeCall, Then, Settle, Fail
    <3>3. CallShape(n, nc)'
      <4>1. Before(n)' = e /\ After(n)' = After(n) /\ tx' = tx /\ Delete(n, e)' = Delete(n, e)
        BY <1>1 DEF Before, After, Delete, At
      <4>2. QED
        BY <1>3, <3>1, <4>1 DEF CallShape
    <3>4. QED
      BY <1>1, <1>2, <1>9, <2>1, <3>2, <3>3, GoesOn
  <2>4. CASE a.code = "refused"
    <3>1. call'[n] = Failed /\ undo'[n] = {}
      BY <1>1, <1>8, <1>12, <2>4 DEF OverrideReply, Then, Settle, Fail
    <3>2. QED
      BY <2>1, <3>1, <1>11
  <2>5. QED
    BY <2>1, <2>2, <2>3, <2>4
<1>13. CASE c.verb = "DELETE" /\ a.code \in {"ok", "missing"}
  <2>1. call'[n] = Done /\ undo'[n] = {Post(n, e)}
    BY <1>1, <1>8, <1>13 DEF OverrideReply, Then, Settle, Fail
  <2>2. a.now = Empty
    BY <1>1, <1>13, DeleteOutcome
  <2>3. \A s \in Slots \ suspect' : s[1] = n =>
          IF s = p THEN live'[s] = Empty ELSE Agrees(live'[s], Empty)
    BY <1>1, <1>4, <1>6, <1>7, <2>2
  <2>4. /\ Reverses(Post(n, e), Ui(e.body), Empty)
        /\ Post(n, e).verb = "POST" /\ Post(n, e).slot = p
    BY DEF Reverses, Post
  <2>5. QED
    BY <1>1, <1>4, <1>5, <2>1, <2>3, <2>4, AgreesKinds, EndsWell
<1>14. CASE c.verb = "DELETE" /\ a.code \in {"static", "refused"}
  <2>1. a.now = live[p]
    BY <1>1, <1>6, <1>14, DeleteOutcome
  <2>2. call'[n] = Failed /\ undo'[n] = {}
    BY <1>1, <1>8, <1>14 DEF OverrideReply, Then, Settle, Fail
  <2>3. QED
    BY <2>1, <2>2, <1>11
<1>15. c.verb = "DELETE" => a.code \in {"ok", "missing", "static", "refused"}
  BY <1>1, DeleteOutcome
<1>16. QED
  BY <1>3, <1>12, <1>13, <1>14, <1>15 DEF Get, Delete

\* applyNodeChange when the rule stays on its address: a PATCH.
LEMMA OverrideChange ==
    ASSUME IInv, NEW n \in Nodes, NEW c, NEW a, StepOf(n, c, a), tx.op = "override",
           Before(n).on, After(n).on, Before(n).addr = After(n).addr
    PROVE  NodeOk(n)'
<1> DEFINE e == Before(n)
           f == After(n)
           p == At(n, f)
<1>1. /\ TypeOK /\ c \in Calls /\ c.slot \in Slots
      /\ UNCHANGED <<row, ovs, tx, raced>> /\ suspect \subseteq suspect'
      /\ live' = [live EXCEPT ![c.slot] = a.now] /\ live \in [Slots -> Live]
      /\ call \in [Nodes -> Calls \union {Done, Failed}]
      /\ undo \in [Nodes -> SUBSET Calls]
      /\ a \in Outcomes(c, live[c.slot])
  BY StepFacts
<1>2. ~Moving(n)
  BY DEF Moving
<1>3. /\ tx.node \in {n, NoNode}
      /\ \/ c = Get(n, e) \/ c = Patch(n, f, e.body)
         \/ c = Post(n, f) /\ p \in suspect
  BY <1>2, StepFacts DEF CallShape
<1>4. /\ e.addr \in Addrs /\ f.addr \in Addrs /\ e.body \in Bodies /\ f.body \in Bodies
      /\ At(n, e) = p
      /\ \A s \in Slots : s[1] = n =>
           /\ Old(s) = IF s = p THEN Ui(e.body) ELSE Empty
           /\ New(s) = IF s = p THEN Ui(f.body) ELSE Empty
  BY <1>1, Sides DEF At
<1>5. /\ p \in Slots /\ p[1] = n /\ c.slot = p
      /\ Delete(n, f) \in Calls /\ Post(n, f) \in Calls
      /\ Patch(n, f, e.body) \in Calls /\ Patch(n, e, f.body) \in Calls
  <2>1. /\ p \in Slots /\ p[1] = n /\ Delete(n, f) \in Calls /\ Post(n, f) \in Calls
        /\ Patch(n, f, e.body) \in Calls
    BY <1>4, CallTypes
  <2>2. Patch(n, e, f.body) \in Calls
    BY <1>4, CallTypes
  <2>3. c.slot = p
    BY <1>3, <1>4 DEF Get, Patch, Post
  <2>4. QED
    BY <2>1, <2>2, <2>3
<1>6. \A s \in Slots \ suspect : s[1] = n => Agrees(live[s], Old(s))
  BY <1>2, StepFacts DEF HalfMoved
<1>7. OverrideReply(n, c, a)
  BY DEF StepOf, Reply
<1>8. a.now = live[p] => \A s \in Slots \ suspect' : s[1] = n => Agrees(live'[s], Old(s))
  BY <1>1, <1>5, <1>6
<1>9. \A nc \in {Patch(n, f, e.body), Post(n, f)} :
        (nc = Post(n, f) => p \in suspect') => CallShape(n, nc)'
  <2>1. /\ Before(n)' = e /\ After(n)' = f /\ tx' = tx /\ At(n, f)' = p
        /\ Moving(n)' <=> Moving(n)
    BY <1>1 DEF Before, After, At, Moving
  <2>2. Patch(n, f, e.body)' = Patch(n, f, e.body) /\ Post(n, f)' = Post(n, f)
    BY <2>1 DEF Patch, Post, At
  <2>3. QED
    BY <1>2, <1>3, <2>1, <2>2 DEF CallShape
<1>10. ASSUME call'[n] = Failed, undo'[n] = {}, a.now = live[p]
       PROVE  NodeOk(n)'
  BY <1>1, <1>2, <1>8, <1>10, GoesOn, DoneIsNoCall
<1>11. ASSUME NEW nc \in {Patch(n, f, e.body), Post(n, f)},
              nc = Post(n, f) => p \in suspect',
              call'[n] = nc, undo'[n] = {}, a.now = live[p]
       PROVE  NodeOk(n)'
  BY <1>1, <1>2, <1>5, <1>8, <1>9, <1>11, GoesOn
<1>12. CASE c.verb = "GET"
  <2>1. a.now = live[p] /\ a.code \in {"ok", "refused"}
    BY <1>1, <1>5, <1>12, GetOutcome
  <2>2. call'[n] \in {Patch(n, f, e.body), Failed} /\ undo'[n] = {}
    BY <1>1, <1>7, <1>12, <2>1 DEF OverrideReply, ChangeCall, Then, Settle, Fail
  <2>3. Patch(n, f, e.body) # Post(n, f)
    BY DEF Patch, Post
  <2>4. QED
    BY <2>1, <2>2, <2>3, <1>10, <1>11
<1>13. CASE c.verb = "PATCH"
  <2>1. c = Patch(n, f, e.body)
    BY <1>3, <1>13 DEF Get, Post
  <2>2. c.was = e.body /\ c.body = f.body
    BY <2>1 DEF Patch
  <2>3. CASE a.code = "ok"
    <3>1. call'[n] = Done /\ undo'[n] = {Patch(n, e, f.body)}
      BY <1>1, <1>7, <1>13, <2>3 DEF OverrideReply, Then, Settle, Fail
    <3>2. p \notin suspect' => live'[p] = Ui(f.body)
      <4>1. p \notin suspect' => live[p] = Ui(e.body)
        BY <1>1, <1>4, <1>5, <1>6, AgreesKinds
      <4>2. live[p] = Ui(e.body) => a.now = Ui(f.body)
        BY <1>1, <1>4, <1>5, <1>13, <2>2, <2>3, PatchOutcome, LiveKinds
      <4>3. QED
        BY <4>1, <4>2, <1>1, <1>5
    <3>3. \A s \in Slots \ suspect' : s[1] = n /\ s # p => Agrees(live'[s], Empty)
      BY <1>1, <1>4, <1>5, <1>6
    <3>4. /\ Reverses(Patch(n, e, f.body), Ui(e.body), Ui(f.body))
          /\ Patch(n, e, f.body).verb = "PATCH" /\ Patch(n, e, f.body).slot = p
      BY <1>4 DEF Reverses, Patch
    <3>5. QED
      BY <1>1, <1>4, <1>5, <3>1, <3>2, <3>3, <3>4, AgreesKinds, EndsWell
  <2>4. CASE a.code = "missing"
    <3>1. a.now = live[p] /\ live[p] = Empty
      BY <1>1, <1>5, <1>13, <2>4, PatchOutcome
    <3>2. p \in suspect'
      BY <1>1, <1>4, <1>5, <1>6, <3>1, AgreesKinds, LiveKinds
    <3>3. call'[n] = Post(n, f) /\ undo'[n] = {}
      BY <1>1, <1>7, <1>13, <2>4 DEF OverrideReply, Then, Settle, Fail
    <3>4. QED
      BY <3>1, <3>2, <3>3, <1>11
  <2>5. CASE a.code \in {"static", "refused"}
    <3>1. a.now = live[p]
      BY <1>1, <1>5, <1>13, <2>5, PatchOutcome
    <3>2. call'[n] = Failed /\ undo'[n] = {}
      BY <1>1, <1>7, <1>13, <2>5 DEF OverrideReply, Then, Settle, Fail
    <3>3. QED
      BY <3>1, <3>2, <1>10
  <2>6. QED
    BY <1>1, <1>13, <2>3, <2>4, <2>5, PatchOutcome
<1>14. CASE c.verb = "POST"
  <2>1. p \in suspect'
    BY <1>1, <1>3, <1>14 DEF Get, Patch
  <2>2. CASE a.code = "ok"
    <3>1. call'[n] = Done /\ undo'[n] = {Delete(n, f)}
      BY <1>1, <1>5, <1>7, <1>14, <2>2 DEF OverrideReply, Then, Settle, Fail
    <3>2. \A s \in Slots \ suspect' : s[1] = n => s # p /\ Agrees(live'[s], Empty)
      BY <1>1, <1>4, <1>5, <1>6, <2>1
    <3>3. Delete(n, f).verb = "DELETE" /\ Delete(n, f).slot = p
      BY DEF Delete
    <3>4. QED
      BY <1>1, <1>4, <1>5, <3>1, <3>2, <3>3, EndsWell
  <2>3. CASE a.code # "ok"
    <3>1. a.now = live[p] /\ a.code = "refused"
      BY <1>1, <1>5, <1>14, <2>3, PostOutcome
    <3>2. call'[n] = Failed /\ undo'[n] = {}
      BY <1>1, <1>4, <1>5, <1>7, <1>14, <3>1 DEF OverrideReply, Then, Settle, Fail
    <3>3. QED
      BY <3>1, <3>2, <1>10
  <2>4. QED
    BY <2>2, <2>3
<1>15. QED
  BY <1>3, <1>12, <1>13, <1>14 DEF Get, Patch, Post

\* applyNodeChange when the rule changes its address: DELETE, POST, and POST of
\* the old rule if that fails.
LEMMA OverrideMove ==
    ASSUME IInv, NEW n \in Nodes, NEW c, NEW a, StepOf(n, c, a), tx.op = "override",
           Before(n).on, After(n).on, Before(n).addr # After(n).addr
    PROVE  NodeOk(n)'
<1> DEFINE e == Before(n)
           f == After(n)
           p == At(n, e)
           q == At(n, f)
<1>1. /\ TypeOK /\ c \in Calls /\ c.slot \in Slots
      /\ UNCHANGED <<row, ovs, tx, raced>> /\ suspect \subseteq suspect'
      /\ live' = [live EXCEPT ![c.slot] = a.now] /\ live \in [Slots -> Live]
      /\ call \in [Nodes -> Calls \union {Done, Failed}]
      /\ undo \in [Nodes -> SUBSET Calls]
      /\ a \in Outcomes(c, live[c.slot])
  BY StepFacts
<1>2. Moving(n)
  BY DEF Moving
<1>3. /\ tx.node \in {n, NoNode}
      /\ \/ c = Get(n, e) \/ c = Get(n, f) \/ c = Delete(n, e)
         \/ c = Post(n, f) \/ c = Post(n, e)
  BY <1>2, StepFacts DEF CallShape
<1>4. /\ e.addr \in Addrs /\ f.addr \in Addrs /\ e.body \in Bodies /\ f.body \in Bodies
      /\ \A s \in Slots : s[1] = n =>
           /\ Old(s) = IF s = p THEN Ui(e.body) ELSE Empty
           /\ New(s) = IF s = q THEN Ui(f.body) ELSE Empty
  BY <1>1, Sides
<1>5. /\ p \in Slots /\ p[1] = n /\ q \in Slots /\ q[1] = n /\ p # q
      /\ Get(n, f) \in Calls /\ Delete(n, e) \in Calls
      /\ Post(n, f) \in Calls /\ Post(n, e) \in Calls /\ Delete(n, f) \in Calls
  <2>1. p \in Slots /\ p[1] = n /\ Delete(n, e) \in Calls /\ Post(n, e) \in Calls
    BY <1>4, CallTypes
  <2>2. /\ q \in Slots /\ q[1] = n /\ Get(n, f) \in Calls
        /\ Post(n, f) \in Calls /\ Delete(n, f) \in Calls
    BY <1>4, CallTypes
  <2>3. p # q
    BY DEF At
  <2>4. QED
    BY <2>1, <2>2, <2>3
<1>6. /\ Get(n, e).verb = "GET" /\ Get(n, e).slot = p
      /\ Get(n, f).verb = "GET" /\ Get(n, f).slot = q
      /\ Delete(n, e).verb = "DELETE" /\ Delete(n, e).slot = p
      /\ Delete(n, f).verb = "DELETE" /\ Delete(n, f).slot = q
      /\ Post(n, e).verb = "POST" /\ Post(n, e).slot = p /\ Post(n, e).body = e.body
      /\ Post(n, f).verb = "POST" /\ Post(n, f).slot = q /\ Post(n, f).body = f.body
  BY DEF Get, Delete, Post
<1>7. \A s \in Slots \ suspect : s[1] = n =>
        IF c.verb = "POST" /\ s = p
        THEN Agrees(live[s], Empty) /\ (s \notin raced => live[s] = Empty)
        ELSE Agrees(live[s], Old(s))
  BY <1>1, <1>2, StepFacts DEF HalfMoved
<1>8. OverrideReply(n, c, a)
  BY DEF StepOf, Reply
<1>9. ASSUME NEW nc \in {Get(n, f), Delete(n, e), Post(n, f), Post(n, e)}
      PROVE  CallShape(n, nc)'
  <2>1. /\ Before(n)' = e /\ After(n)' = f /\ tx' = tx /\ (Moving(n)' <=> Moving(n))
    BY <1>1 DEF Before, After, Moving
  <2>2. /\ Get(n, f)' = Get(n, f) /\ Delete(n, e)' = Delete(n, e)
        /\ Post(n, f)' = Post(n, f) /\ Post(n, e)' = Post(n, e)
    BY <2>1 DEF Get, Delete, Post, At
  <2>3. QED
    BY <1>2, <1>3, <2>1, <2>2 DEF CallShape
\* Failed, with the listeners as before the change
<1>10. ASSUME call'[n] = Failed, undo'[n] = {},
              \A s \in Slots \ suspect' : s[1] = n => Agrees(live'[s], Old(s))
       PROVE  NodeOk(n)'
  BY <1>1, <1>10, GoesOn, DoneIsNoCall
\* on to a call before the old listener is stopped
<1>11. ASSUME NEW nc \in {Get(n, f), Delete(n, e)}, call'[n] = nc, undo'[n] = {},
              \A s \in Slots \ suspect' : s[1] = n => Agrees(live'[s], Old(s))
       PROVE  NodeOk(n)'
  BY <1>1, <1>5, <1>6, <1>9, <1>11, GoesOn
\* on to a call after that
<1>12. ASSUME NEW nc \in {Post(n, f), Post(n, e)}, call'[n] = nc, undo'[n] = {},
              p \notin suspect' =>
                Agrees(live'[p], Empty) /\ (p \notin raced => live'[p] = Empty),
              \A s \in Slots \ suspect' : s[1] = n /\ s # p => Agrees(live'[s], Old(s))
       PROVE  NodeOk(n)'
  <2>1. nc \in Calls \union {Failed} /\ CallShape(n, nc)'
    BY <1>5, <1>9
  <2>2. ASSUME NEW s \in Slots \ suspect', s[1] = n
        PROVE  IF Moving(n) /\ nc \in Calls /\ nc.verb = "POST" /\ s = p
               THEN Agrees(live'[s], Empty) /\ (s \notin raced' => live'[s] = Empty)
               ELSE Agrees(live'[s], Old(s))
    BY <1>1, <1>2, <1>5, <1>6, <1>12, <2>2
  <2>3. QED
    BY <1>1, <1>12, <2>1, <2>2, GoesOn
<1>13. CASE c.verb = "GET"
  <2>1. a.now = live[c.slot] /\ a.code \in {"ok", "refused"}
    BY <1>1, <1>13, GetOutcome
  <2>2. \A s \in Slots \ suspect' : s[1] = n => Agrees(live'[s], Old(s))
    BY <1>1, <1>7, <1>13, <2>1
  <2>3. call'[n] \in {Failed, Get(n, f), Delete(n, e)} /\ undo'[n] = {}
    BY <1>1, <1>3, <1>5, <1>6, <1>8, <1>13, <2>1
    DEF OverrideReply, ChangeCall, Then, Settle, Fail
  <2>4. QED
    BY <2>2, <2>3, <1>10, <1>11
<1>14. CASE c.verb = "DELETE"
  <2>1. c.slot = p
    BY <1>3, <1>6, <1>14
  <2>2. CASE a.code \in {"ok", "missing"}
    <3>1. a.now = Empty
      BY <1>1, <1>14, <2>2, DeleteOutcome
    <3>2. call'[n] = Post(n, f) /\ undo'[n] = {}
      BY <1>1, <1>8, <1>14, <2>2 DEF OverrideReply, Then, Settle, Fail
    <3>3. live'[p] = Empty
      BY <1>1, <2>1, <3>1
    <3>4. \A s \in Slots \ suspect' : s[1] = n /\ s # p => Agrees(live'[s], Old(s))
      BY <1>1, <1>7, <1>14, <2>1, <3>1
    <3>5. QED
      BY <3>2, <3>3, <3>4, <1>12, AgreesKinds
  <2>3. CASE a.code \in {"static", "refused"}
    <3>1. a.now = live[p]
      BY <1>1, <1>14, <2>1, <2>3, DeleteOutcome
    <3>2. call'[n] = Failed /\ undo'[n] = {}
      BY <1>1, <1>8, <1>14, <2>3 DEF OverrideReply, Then, Settle, Fail
    <3>3. \A s \in Slots \ suspect' : s[1] = n => Agrees(live'[s], Old(s))
      BY <1>1, <1>7, <1>14, <2>1, <3>1
    <3>4. QED
      BY <3>2, <3>3, <1>10
  <2>4. QED
    BY <1>1, <1>14, <2>2, <2>3, DeleteOutcome
<1>15. CASE c = Post(n, f)
  <2>1. c.verb = "POST" /\ c.slot = q
    BY <1>6, <1>15
  <2>2. CASE a.code = "ok"
    <3>1. a.now = Ui(f.body)
      BY <1>1, <1>6, <1>15, <2>1, <2>2, PostOutcome
    <3>2. call'[n] = Done /\ undo'[n] = {Delete(n, f), Post(n, e)}
      BY <1>1, <1>8, <2>1, <2>2 DEF OverrideReply, Then, Settle, Fail
    <3>3. \A s \in Slots \ suspect' : s[1] = n =>
            CASE s = q -> live'[s] = Ui(f.body)
              [] s = p -> Agrees(live'[s], Empty) /\ (s \notin raced => live'[s] = Empty)
              [] OTHER -> Agrees(live'[s], Empty)
      BY <1>1, <1>4, <1>5, <1>7, <2>1, <3>1
    <3>4. /\ Reverses(Delete(n, f), Empty, Ui(f.body))
          /\ Reverses(Post(n, e), Ui(e.body), Empty)
      BY <1>6 DEF Reverses
    <3>5. ASSUME NEW s \in Slots \ suspect', s[1] = n
          PROVE  /\ \A d \in {Delete(n, f), Post(n, e)} : d.slot = s =>
                      /\ Reverses(d, Old(s), New(s)) /\ Agrees(live'[s], New(s))
                      /\ d.verb = "POST" /\ s \notin raced' => live'[s] = Empty
                 /\ (\A d \in {Delete(n, f), Post(n, e)} : d.slot # s) =>
                      Agrees(live'[s], Old(s)) /\ Agrees(live'[s], New(s))
      BY <1>1, <1>4, <1>5, <1>6, <3>3, <3>4, <3>5, AgreesKinds
    <3>6. {Delete(n, f), Post(n, e)} \in SUBSET Calls
      BY <1>5
    <3>7. QED
      BY <1>1, <1>5, <1>6, <3>2, <3>5, <3>6, EndsWell
  <2>3. CASE a.code # "ok"
    <3>1. a.now = live[q] /\ a.code = "refused"
      BY <1>1, <2>1, <2>3, PostOutcome
    <3>2. call'[n] = Post(n, e) /\ undo'[n] = {}
      BY <1>1, <1>2, <1>8, <2>1, <3>1 DEF OverrideReply, Then, Settle, Fail
    <3>3. p \notin suspect' =>
            Agrees(live'[p], Empty) /\ (p \notin raced => live'[p] = Empty)
      BY <1>1, <1>5, <1>7, <2>1, <3>1
    <3>4. \A s \in Slots \ suspect' : s[1] = n /\ s # p => Agrees(live'[s], Old(s))
      BY <1>1, <1>5, <1>7, <2>1, <3>1
    <3>5. QED
      BY <3>2, <3>3, <3>4, <1>12
  <2>4. QED
    BY <2>2, <2>3
<1>16. CASE c = Post(n, e)
  <2>1. c.verb = "POST" /\ c.slot = p
    BY <1>6, <1>16
  <2>2. call'[n] = Failed /\ undo'[n] = {}
    BY <1>1, <1>5, <1>8, <2>1 DEF OverrideReply, Then, Settle, Fail
  <2>3. p \notin suspect' => a.now = Ui(e.body)
    <3>1. Restoring(n)
      BY <1>1, <1>5, <2>1, StepFacts DEF Restoring
    <3>2. a.code = "ok" => a.now = Ui(e.body)
      BY <1>1, <1>6, <1>16, <2>1, PostOutcome
    <3>3. QED
      BY <2>1, <3>1, <3>2 DEF StepOf
  <2>4. \A s \in Slots \ suspect' : s[1] = n => Agrees(live'[s], Old(s))
    BY <1>1, <1>4, <1>5, <1>7, <2>1, <2>3, AgreesKinds
  <2>5. QED
    BY <2>2, <2>4, <1>10
<1>17. QED
  BY <1>3, <1>6, <1>13, <1>14, <1>15, <1>16

\* changeOverride: the four cases of applyNodeChange together.
LEMMA OverrideStep ==
    ASSUME IInv, NEW n \in Nodes, NEW c, NEW a, StepOf(n, c, a), tx.op = "override"
    PROVE  NodeOk(n)'
<1>1. Before(n).on \in BOOLEAN /\ After(n).on \in BOOLEAN
  BY StepFacts, Sides
<1>2. Before(n).on \/ After(n).on
  BY StepFacts DEF CallShape, Moving
<1>3. QED
  BY <1>1, <1>2, OverrideStart, OverrideStop, OverrideChange, OverrideMove

\* resendOne: it may only touch a listener that is already suspect.
LEMMA ResendStep ==
    ASSUME IInv, NEW n \in Nodes, NEW c, NEW a, StepOf(n, c, a), tx.op = "resend"
    PROVE  NodeOk(n)'
<1> DEFINE e == Before(n)
           p == At(n, e)
<1>1. /\ TypeOK /\ c \in Calls /\ c.slot \in Slots
      /\ UNCHANGED <<row, ovs, tx, raced>>
      /\ live' = [live EXCEPT ![c.slot] = a.now] /\ live \in [Slots -> Live]
      /\ call \in [Nodes -> Calls \union {Done, Failed}]
      /\ undo \in [Nodes -> SUBSET Calls]
      /\ a \in Outcomes(c, live[c.slot]) /\ live[c.slot] \in Live
  BY StepFacts
<1>2. tx.row = row /\ tx.ovs = ovs
  BY StepFacts DEF TxShape
<1>3. ~Moving(n)
  BY DEF Moving
<1>4. /\ tx.node \in {n, NoNode}
      /\ \/ c = Get(n, e)
         \/ /\ p \in suspect
            /\ \/ c = Delete(n, e)
               \/ e.on /\ c = Post(n, e)
               \/ /\ e.on /\ c.slot = p /\ c.verb = "PATCH" /\ c.body = e.body
                  /\ p \notin raced => live[p] = Ui(c.was)
  BY StepFacts DEF CallShape
<1>5. /\ e.addr \in Addrs /\ e.on \in BOOLEAN /\ (e.on => e.body \in Bodies)
      /\ \A s \in Slots : s[1] = n =>
           /\ Old(s) = IF e.on /\ s = p THEN Ui(e.body) ELSE Empty
           /\ New(s) = Old(s)
  <2>1. \A s : New(s) = Old(s)
    BY <1>2 DEF Old, New
  <2>2. QED
    BY <1>1, <2>1, Sides
<1>6. /\ p \in Slots /\ p[1] = n /\ Delete(n, e) \in Calls
      /\ e.on => Post(n, e) \in Calls /\ \A w \in Bodies : Patch(n, e, w) \in Calls
  BY <1>5, CallTypes
<1>7. /\ Get(n, e).verb = "GET" /\ Get(n, e).slot = p
      /\ Delete(n, e).verb = "DELETE" /\ Delete(n, e).slot = p
      /\ Post(n, e).verb = "POST" /\ Post(n, e).slot = p /\ Post(n, e).body = e.body
      /\ \A w : /\ Patch(n, e, w).verb = "PATCH" /\ Patch(n, e, w).slot = p
                /\ Patch(n, e, w).body = e.body /\ Patch(n, e, w).was = w
  BY DEF Get, Delete, Post, Patch
<1>8. c.slot = p
  BY <1>4, <1>7
<1>9. \A s \in Slots \ suspect : s[1] = n => Agrees(live[s], Old(s))
  BY <1>3, StepFacts DEF HalfMoved
<1>10. ResendReply(n, c, a)
  BY DEF StepOf, Reply
<1>11. /\ call'[n] # Done => suspect \subseteq suspect'
       /\ \A s \in Slots \ suspect' : s \in suspect => s = p /\ p \notin raced
  BY DEF StepOf, Resent
\* the node ends, with its listener as the database says unless it is suspect
<1>12. ASSUME call'[n] = Done, undo'[n] = {},
              p \notin raced => Agrees(live'[p], Old(p)),
              p \notin suspect => Agrees(live'[p], Old(p))
       PROVE  NodeOk(n)'
  <2>1. \A s \in Slots \ suspect' : s[1] = n => Agrees(live'[s], Old(s))
    BY <1>1, <1>6, <1>8, <1>9, <1>11, <1>12
  <2>2. {} \in SUBSET Calls
    OBVIOUS
  <2>3. QED
    BY <1>1, <1>5, <1>12, <2>1, <2>2, EndsWell
<1>13. ASSUME call'[n] = Failed, undo'[n] = {}, a.now = live[p]
       PROVE  NodeOk(n)'
  <2>1. \A s \in Slots \ suspect' : s[1] = n => Agrees(live'[s], Old(s))
    BY <1>1, <1>8, <1>9, <1>11, <1>13, DoneIsNoCall
  <2>2. QED
    BY <1>1, <1>3, <1>13, <2>1, GoesOn, DoneIsNoCall
\* on to a call to a listener that is known to differ
<1>14. ASSUME NEW nc \in Calls, call'[n] = nc, undo'[n] = {}, p \in suspect,
              \/ nc = Delete(n, e)
              \/ e.on /\ nc = Post(n, e)
              \/ e.on /\ \E w : nc = Patch(n, e, w) /\ live'[p] = Ui(w)
       PROVE  NodeOk(n)'
  <2>1. nc # Done
    BY DoneIsNoCall
  <2>2. \A s \in Slots \ suspect' : s[1] = n => Agrees(live'[s], Old(s))
    BY <1>1, <1>8, <1>9, <1>11, <1>14, <2>1
  <2>3. CallShape(n, nc)'
    <3>1. /\ Before(n)' = e /\ tx' = tx /\ At(n, e)' = p
          /\ Delete(n, e)' = Delete(n, e) /\ Post(n, e)' = Post(n, e)
      BY <1>1 DEF Before, At, Delete, Post
    <3>2. p \in suspect'
      BY <1>11, <1>14, <2>1
    <3>3. \A w : nc = Patch(n, e, w) =>
            nc.slot = p /\ nc.verb = "PATCH" /\ nc.body = e.body /\ nc.was = w
      BY <1>7
    <3>4. /\ tx.node \in {n, NoNode}
          /\ \/ nc = Delete(n, e)
             \/ e.on /\ nc = Post(n, e)
             \/ /\ e.on /\ nc.slot = p /\ nc.verb = "PATCH" /\ nc.body = e.body
                /\ live'[p] = Ui(nc.was)
      BY <1>4, <1>14, <3>3
    <3>5. QED
      BY <3>1, <3>2, <3>4 DEF CallShape
  <2>4. QED
    BY <1>1, <1>3, <1>14, <2>2, <2>3, GoesOn
<1>15. CASE a.code # "ok"
  <2>1. a.now = live[p]
    BY <1>1, <1>8, <1>15, CallFields, GetOutcome, PostOutcome, DeleteOutcome, PatchOutcome
  <2>2. call'[n] = Failed /\ undo'[n] = {}
    BY <1>1, <1>10, <1>15 DEF ResendReply, Then, Settle, Fail
  <2>3. QED
    BY <1>13, <2>1, <2>2
<1>16. CASE a.code = "ok" /\ c.verb = "GET"
  <2>1. a.now = live[p] /\ live'[p] = live[p] /\ live[p] \in Live
    BY <1>1, <1>6, <1>8, <1>16, GetOutcome
  <2>2. p \in suspect \/ Agrees(live[p], Old(p))
    BY <1>6, <1>9
  <2>3. undo'[n] = {}
    BY <1>1, <1>10, <1>16 DEF ResendReply, Then, Settle, Fail
  <2>4. \/ call'[n] = Failed
        \/ call'[n] = Done /\ live[p] = IF e.on THEN Ui(e.body) ELSE Empty
        \/ ~e.on /\ live[p].origin = "ui" /\ call'[n] = Delete(n, e)
        \/ e.on /\ live[p] = Empty /\ call'[n] = Post(n, e)
        \/ /\ e.on /\ live[p].origin = "ui" /\ live[p] # Ui(e.body)
           /\ call'[n] \in {Delete(n, e), Patch(n, e, live[p].body)}
    BY <1>1, <1>5, <1>10, <1>16, <2>1 DEF ResendReply, Then, Settle, Fail
  <2>5. CASE call'[n] = Failed
    BY <2>1, <2>3, <2>5, <1>13
  <2>6. CASE call'[n] = Done /\ live[p] = IF e.on THEN Ui(e.body) ELSE Empty
    <3>1. Agrees(live'[p], Old(p))
      BY <1>5, <1>6, <2>1, <2>6, AgreesKinds
    <3>2. QED
      BY <2>3, <2>6, <3>1, <1>12
  <2>7. CASE ~e.on /\ live[p].origin = "ui" /\ call'[n] = Delete(n, e)
    <3>1. p \in suspect
      BY <1>5, <1>6, <2>2, <2>7, AgreesKinds
    <3>2. QED
      BY <1>6, <2>3, <2>7, <3>1, <1>14
  <2>8. CASE e.on /\ live[p] = Empty /\ call'[n] = Post(n, e)
    <3>1. p \in suspect
      BY <1>5, <1>6, <2>2, <2>8, AgreesKinds, LiveKinds
    <3>2. QED
      BY <1>6, <2>3, <2>8, <3>1, <1>14
  <2>9. CASE /\ e.on /\ live[p].origin = "ui" /\ live[p] # Ui(e.body)
             /\ call'[n] \in {Delete(n, e), Patch(n, e, live[p].body)}
    <3>1. p \in suspect
      BY <1>5, <1>6, <2>2, <2>9, AgreesKinds
    <3>2. PICK b \in Bodies : live[p] = Ui(b)
      BY <2>1, <2>9, LiveKinds
    <3>3. live[p].body = b
      BY <3>2, LiveKinds
    <3>4. PICK nc \in Calls : call'[n] = nc /\ nc \in {Delete(n, e), Patch(n, e, b)}
      BY <1>6, <2>9, <3>3
    <3>5. QED
      BY <1>6, <2>1, <2>3, <2>9, <3>1, <3>2, <3>4, <1>14
  <2>10. QED
    BY <2>4, <2>5, <2>6, <2>7, <2>8, <2>9
<1>17. CASE a.code = "ok" /\ c.verb = "DELETE"
  <2>1. live'[p] = Empty /\ p \in suspect
    BY <1>1, <1>4, <1>6, <1>7, <1>8, <1>17, DeleteOutcome
  <2>2. call'[n] = (IF e.on THEN Post(n, e) ELSE Done) /\ undo'[n] = {}
    BY <1>1, <1>10, <1>17 DEF ResendReply, Then, Settle, Fail
  <2>3. CASE e.on
    BY <1>6, <2>1, <2>2, <2>3, <1>14
  <2>4. CASE ~e.on
    BY <1>5, <1>6, <2>1, <2>2, <2>4, <1>12, AgreesKinds
  <2>5. QED
    BY <2>3, <2>4
<1>18. CASE a.code = "ok" /\ c.verb \in {"POST", "PATCH"}
  <2>1. p \in suspect /\ e.on /\ c.body = e.body
    BY <1>4, <1>7, <1>18
  <2>2. call'[n] = Done /\ undo'[n] = {}
    BY <1>1, <1>10, <1>18 DEF ResendReply, Then, Settle, Fail
  <2>3. p \notin raced => live'[p] = Ui(e.body)
    <3>1. CASE c.verb = "POST"
      BY <1>1, <1>8, <1>18, <2>1, <3>1, PostOutcome
    <3>2. CASE c.verb = "PATCH"
      <4>1. p \notin raced => live[p] = Ui(c.was)
        BY <1>4, <1>7, <3>2
      <4>2. live[p] = Ui(c.was) => a.now = Ui(e.body)
        BY <1>1, <1>8, <1>18, <2>1, <3>2, PatchOutcome, LiveKinds, CallFields
      <4>3. QED
        BY <1>1, <1>8, <4>1, <4>2
    <3>3. QED
      BY <1>18, <3>1, <3>2
  <2>4. Old(p) = Ui(e.body)
    BY <1>5, <1>6, <2>1
  <2>5. QED
    BY <2>1, <2>2, <2>3, <2>4, <1>12, AgreesKinds
<1>19. QED
  BY <1>1, <1>15, <1>16, <1>17, <1>18, CallFields

\* Whatever the operation, an answer keeps the invariant of the node.
LEMMA ReplyStep ==
    ASSUME IInv, NEW n \in Nodes, NEW c, NEW a, StepOf(n, c, a)
    PROVE  NodeOk(n)'
<1>1. Reply(n, c, a)
  BY DEF StepOf
<1>2. tx.op \in {"add", "edit", "delete", "pause", "resume", "override", "resend"}
  BY <1>1 DEF Reply
<1>3. QED
  BY <1>2, AddStep, EditStep, RemoveStep, ResumeStep, OverrideStep, ResendStep

\* A reply settles the acting node and no other.
LEMMA ReplySettles ==
    ASSUME NEW n, NEW c, NEW a, Reply(n, c, a)
    PROVE  \E nc, U : Settle(n, nc, U)
<1>1. AddReply(n, c, a) \/ ResumeReply(n, c, a) => \E nc, U : Settle(n, nc, U)
  BY DEF AddReply, ResumeReply, Then, Fail
<1>2. EditReply(n, c, a) => \E nc, U : Settle(n, nc, U)
  BY DEF EditReply, Then, Fail
<1>3. RemoveReply(n, c, a) => \E nc, U : Settle(n, nc, U)
  BY DEF RemoveReply, Then, Fail
<1>4. OverrideReply(n, c, a) => \E nc, U : Settle(n, nc, U)
  BY DEF OverrideReply, Then, Fail
<1>5. ResendReply(n, c, a) => \E nc, U : Settle(n, nc, U)
  BY DEF ResendReply, Then, Fail
<1>6. QED
  BY <1>1, <1>2, <1>3, <1>4, <1>5 DEF Reply

\* The calls of a node go to its own listeners.
LEMMA CallSlot ==
    ASSUME TypeOK, tx # NoTx, NEW n \in Nodes, NEW c \in Calls, CallShape(n, c)
    PROVE  c.slot[1] = n
<1>1. tx.op \in Ops
  BY DEF TypeOK, Txs
<1>2. \A e : At(n, e)[1] = n
  BY DEF At
<1>3. \A e, w : /\ Get(n, e).slot = At(n, e) /\ Post(n, e).slot = At(n, e)
                /\ Delete(n, e).slot = At(n, e) /\ Patch(n, e, w).slot = At(n, e)
  BY DEF Get, Post, Delete, Patch
<1>4. c.slot \in {At(n, Before(n)), At(n, After(n))}
  <2>1. CASE tx.op \in {"add", "delete", "pause", "resume"}
    BY <1>3, <2>1 DEF CallShape
  <2>2. CASE tx.op \in {"edit", "override"}
    BY <1>3, <2>2 DEF CallShape
  <2>3. CASE tx.op = "resend"
    BY <1>3, <2>3 DEF CallShape
  <2>4. QED
    BY <1>1, <2>1, <2>2, <2>3 DEF Ops
<1>5. QED
  BY <1>2, <1>4

(***************************************************************************)
(* Nodes that a step does not act on.                                      *)
(***************************************************************************)
LEMMA Undisturbed ==
    ASSUME TypeOK, tx # NoTx, NEW m \in Nodes, NodeInv(m), UNCHANGED <<row, ovs, tx>>,
           call'[m] = call[m], undo'[m] = undo[m],
           Settled /\ SomeFailed => (Settled /\ SomeFailed)',
           \A s \in Slots : s[1] = m =>
             /\ s \in suspect => s \in suspect'
             /\ s \in raced => s \in raced'
             /\ s \notin raced' => live'[s] = live[s]
             /\ s \notin suspect' => \A w \in Wanted : Agrees(live[s], w) => Agrees(live'[s], w)
    PROVE  NodeInv(m)'
<1>1. /\ Before(m)' = Before(m) /\ After(m)' = After(m)
      /\ At(m, Before(m))' = At(m, Before(m)) /\ At(m, After(m))' = At(m, After(m))
      /\ Moving(m)' <=> Moving(m)
      /\ \A s : /\ Expected(row, ovs, s)' = Expected(row, ovs, s)
                /\ Expected(tx.row, tx.ovs, s)' = Expected(tx.row, tx.ovs, s)
  BY DEF Before, After, At, Moving, Expected
<1>2. UndoShape(undo[m], m)' /\ (call[m] # Done => undo[m] = {})'
  BY DEF NodeInv, UndoShape
<1>3. HalfMoved(m)' <=> HalfMoved(m)
  BY <1>1 DEF HalfMoved
<1>wanted. /\ Empty \in Wanted
      /\ \A s \in Slots : /\ Expected(row, ovs, s) \in Wanted
                        /\ Expected(tx.row, tx.ovs, s) \in Wanted
  BY TxFields, ExpectedType DEF Wanted, TypeOK
<1>4. ASSUME call[m] \in Calls
      PROVE  CallShape(m, call[m])'
  <2>1. CallShape(m, call[m]) /\ tx.op \in Ops
    BY <1>4 DEF NodeInv, TypeOK, Txs
  <2>2. /\ At(m, Before(m)) \in Slots /\ At(m, After(m)) \in Slots
        /\ At(m, Before(m))[1] = m /\ At(m, After(m))[1] = m
    BY Sides, CallTypes
  <2>3. \A w : /\ Get(m, Before(m))' = Get(m, Before(m)) /\ Get(m, After(m))' = Get(m, After(m))
               /\ Post(m, Before(m))' = Post(m, Before(m))
               /\ Post(m, After(m))' = Post(m, After(m))
               /\ Delete(m, Before(m))' = Delete(m, Before(m))
               /\ Patch(m, After(m), Before(m).body)' = Patch(m, After(m), Before(m).body)
    BY <1>1 DEF Get, Post, Delete, Patch
  <2>4. CASE tx.op \in {"add", "delete", "pause", "resume"}
    BY <1>1, <2>1, <2>3, <2>4 DEF CallShape
  <2>5. CASE tx.op = "edit"
    BY <1>1, <2>1, <2>2, <2>3, <2>5 DEF CallShape
  <2>6. CASE tx.op = "override"
    BY <1>1, <2>1, <2>2, <2>3, <2>6 DEF CallShape
  <2>7. CASE tx.op = "resend"
    BY <1>1, <2>1, <2>2, <2>3, <2>7 DEF CallShape
  <2>8. QED
    BY <2>1, <2>4, <2>5, <2>6, <2>7 DEF Ops
<1>5. ASSUME NEW s \in Slots \ suspect', s[1] = m
      PROVE  /\ call[m] = Done => DoneAgrees(m, s)'
             /\ (HalfMoved(m) /\ s = At(m, Before(m)))
                  => (Agrees(live[s], Empty) /\ (s \notin raced => live[s] = Empty))'
             /\ call[m] # Done /\ ~(HalfMoved(m) /\ s = At(m, Before(m)))
                  => Agrees(live[s], Expected(row, ovs, s))'
  <2>1. s \in Slots \ suspect
    BY <1>5
  <2>2. CASE call[m] = Done
    <3>1. ~HalfMoved(m)
      BY <2>2, DoneIsNoCall DEF HalfMoved
    <3>2. DoneAgrees(m, s)
      BY <1>5, <2>1, <2>2, <3>1 DEF NodeInv
    <3>3. \A c \in undo[m] : c.slot = s => (Possible(c) => Possible(c)')
      BY <1>5 DEF Possible
    <3>4. DoneAgrees(m, s)'
      <4> DEFINE old == Expected(row, ovs, s)
                 new == Expected(tx.row, tx.ovs, s)
                 U == {c \in undo[m] : c.slot = s}
      <4>1. /\ \A c \in U : Reverses(c, old, new) /\ Agrees(live'[s], new) /\ Possible(c)'
            /\ U = {} => /\ Agrees(live'[s], old)
                         /\ ~(Settled /\ SomeFailed)' => Agrees(live'[s], new)
        BY <1>5, <1>wanted, <3>2, <3>3 DEF DoneAgrees
      <4>2. old' = old /\ new' = new /\ U' = U
        BY <1>1
      <4>3. QED
        BY <4>1, <4>2 DEF DoneAgrees
    <3>5. QED
      BY <2>2, <3>1, <3>4
  <2>3. CASE call[m] # Done /\ HalfMoved(m) /\ s = At(m, Before(m))
    BY <1>5, <1>wanted, <2>1, <2>3 DEF NodeInv
  <2>4. CASE call[m] # Done /\ ~(HalfMoved(m) /\ s = At(m, Before(m)))
    BY <1>1, <1>5, <1>wanted, <2>1, <2>4 DEF NodeInv
  <2>5. QED
    BY <2>2, <2>3, <2>4, DoneIsNoCall DEF HalfMoved
<1>6. QED
  BY <1>1, <1>2, <1>3, <1>4, <1>5 DEF NodeInv

(***************************************************************************)
(* What the invariant says of the listeners of a node.                     *)
(***************************************************************************)
LEMMA NodeSlots ==
    ASSUME NEW n \in Nodes, NodeInv(n), NEW s \in Slots \ suspect, s[1] = n
    PROVE  /\ call[n] = Done => DoneAgrees(n, s)
           /\ call[n] = Failed => Agrees(live[s], Old(s))
<1>1. call[n] \in {Done, Failed} => ~HalfMoved(n)
  BY DoneIsNoCall DEF HalfMoved
<1>2. QED
  BY <1>1, DoneIsNoCall DEF NodeInv, Old

\* A listener the transaction does not change agrees with the row throughout.
LEMMA Stable ==
    ASSUME TypeOK, NEW n \in Nodes, NodeInv(n),
           NEW s \in Slots \ (suspect \union InFlight), s[1] = n
    PROVE  Agrees(live[s], Old(s))
<1>1. Old(s) = New(s)
  BY DEF InFlight, Old, New
<1>2. CASE call[n] = Done
  <2>1. DoneAgrees(n, s)
    BY <1>2, NodeSlots
  <2>2. QED
    BY <1>1, <2>1 DEF DoneAgrees, Old, New
<1>3. CASE call[n] # Done /\ HalfMoved(n) /\ s = At(n, Before(n))
  <2>1. Before(n).on /\ After(n).on /\ Before(n).addr # After(n).addr
    BY <1>3 DEF HalfMoved, Moving
  <2>2. s # At(n, After(n))
    BY <1>3, <2>1 DEF At
  <2>3. Old(s) = Ui(Before(n).body) /\ New(s) = Empty
    BY <1>3, <2>1, <2>2, Sides
  <2>4. QED
    BY <1>1, <2>3, LiveKinds
<1>4. CASE call[n] # Done /\ ~(HalfMoved(n) /\ s = At(n, Before(n)))
  BY <1>4 DEF NodeInv, Old
<1>5. QED
  BY <1>2, <1>3, <1>4

(***************************************************************************)
(* The steps of a node preserve the invariant.                             *)
(***************************************************************************)
LEMMA AsStep ==
    ASSUME IInv, NEW n \in Nodes, Answered(n) \/ Refused(n) \/ TimedOut(n)
    PROVE  /\ \E a : StepOf(n, call[n], a)
           /\ orphans' \in SUBSET Calls
           /\ SlotsOf(orphans') \subseteq suspect'
<1> DEFINE c == call[n]
<1>1. /\ TypeOK /\ SlotsOf(orphans) \subseteq suspect
      /\ live \in [Slots -> Live] /\ suspect \in SUBSET Slots /\ orphans \in SUBSET Calls
      /\ tx # NoTx /\ c \in Calls
  BY DEF IInv, TypeOK, OrphansSuspect, Answered, Refused, TimedOut
<1>2. c.slot \in Slots
  BY <1>1, CallFields
<1>3. Restoring(n) => Resent(n) = {}
  BY DEF Restoring, Resent
<1>4. CASE Answered(n)
  <2>1. PICK a \in Answers(c, live[c.slot]) :
          /\ Reply(n, c, a)
          /\ live' = [live EXCEPT ![c.slot] = a.now]
          /\ suspect' = (suspect \union
                           IF Restoring(n) /\ a.code # "ok" THEN {c.slot} ELSE {})
                         \ Resent(n)
    BY <1>4 DEF Answered
  <2>2. orphans' = orphans /\ UNCHANGED <<row, ovs, tx, tail, raced>>
    BY <1>4 DEF Answered
  <2>3. a \in Outcomes(c, live[c.slot])
    BY <2>1 DEF Outcomes
  <2>4. suspect' \in SUBSET Slots /\ suspect \ suspect' \subseteq Resent(n)
    BY <1>1, <1>2, <2>1
  <2>5. Restoring(n) /\ a.code # "ok" => c.slot \in suspect'
    BY <1>3, <2>1
  <2>6. SlotsOf(orphans') \subseteq suspect'
    BY <1>1, <2>1, <2>2 DEF Resent
  <2>7. StepOf(n, c, a)
    BY <1>1, <2>1, <2>2, <2>3, <2>4, <2>5 DEF StepOf
  <2>8. QED
    BY <1>1, <2>2, <2>6, <2>7
<1>5. CASE Refused(n) \/ TimedOut(n)
  <2> DEFINE a == NoAnswer(live[c.slot])
  <2>1. /\ Reply(n, c, a) /\ live' = live /\ UNCHANGED <<row, ovs, tx, tail, raced>>
        /\ suspect \subseteq suspect' /\ suspect' \subseteq suspect \union {c.slot}
        /\ Restoring(n) => c.slot \in suspect'
        /\ orphans' = orphans \/ (orphans' = orphans \union {c} /\ c.slot \in suspect')
    <3>1. CASE Refused(n)
      BY <3>1 DEF Refused
    <3>2. CASE TimedOut(n)
      BY <3>2 DEF TimedOut
    <3>3. QED
      BY <1>5, <3>1, <3>2
  <2>2. a \in Outcomes(c, live[c.slot]) /\ a.now = live[c.slot]
    BY DEF Outcomes, NoAnswer
  <2>3. live' = [live EXCEPT ![c.slot] = a.now]
    BY <1>1, <1>2, <2>1, <2>2
  <2>4. orphans' \in SUBSET Calls /\ SlotsOf(orphans') \subseteq suspect'
    BY <1>1, <2>1 DEF SlotsOf
  <2>5. StepOf(n, c, a)
    BY <1>1, <1>2, <2>1, <2>2, <2>3 DEF StepOf
  <2>6. QED
    BY <2>4, <2>5
<1>6. QED
  BY <1>4, <1>5

\* Only its own listeners can lose their suspicion when a node ends a resend.
LEMMA ResentOwn ==
    ASSUME NEW n \in Nodes, NEW s \in Resent(n)
    PROVE  s[1] = n
BY DEF Resent, At

\* A node's answer, refusal or timeout keeps the whole invariant.
LEMMA NodeReplies ==
    ASSUME IInv, NEW n \in Nodes, Answered(n) \/ Refused(n) \/ TimedOut(n)
    PROVE  IInv'
<1> DEFINE c == call[n]
<1>1. PICK a : StepOf(n, c, a)
  BY AsStep
<1>2. /\ TypeOK /\ TxShape /\ TailInv /\ tx # NoTx /\ c \in Calls
      /\ \A m \in Nodes : NodeInv(m)
      /\ UNCHANGED <<row, ovs, tx, tail, raced>>
      /\ suspect \ suspect' \subseteq Resent(n) /\ suspect' \in SUBSET Slots
      /\ live' = [live EXCEPT ![c.slot] = a.now]
      /\ Reply(n, c, a) /\ a \in Outcomes(c, live[c.slot])
  BY <1>1 DEF IInv, StepOf
<1>3. c.slot \in Slots /\ c.slot[1] = n
  <2>1. CallShape(n, c)
    BY <1>1, StepFacts
  <2>2. QED
    BY <1>2, <2>1, CallSlot, CallFields
<1>4. NodeOk(n)'
  BY <1>1, ReplyStep
<1>5. PICK nc, U : Settle(n, nc, U)
  BY <1>2, ReplySettles
<1>6. ASSUME NEW m \in Nodes \ {n}
      PROVE  call'[m] = call[m] /\ undo'[m] = undo[m]
  BY <1>2, <1>5, <1>6 DEF Settle, TypeOK
<1>7. live' \in [Slots -> Live]
  BY <1>2, <1>3, OutcomeType DEF TypeOK
<1>8. TypeOK'
  <2>1. /\ call' = [call EXCEPT ![n] = nc] /\ undo' = [undo EXCEPT ![n] = U]
        /\ nc \in Calls \union {Done, Failed} /\ U \in SUBSET Calls
    BY <1>2, <1>4, <1>5 DEF Settle, NodeOk, TypeOK
  <2>2. /\ call' \in [Nodes -> Calls \union {Done, Failed}]
        /\ undo' \in [Nodes -> SUBSET Calls]
    BY <1>2, <2>1 DEF TypeOK
  <2>3. orphans' \in SUBSET Calls
    BY AsStep
  <2>4. QED
    BY <1>2, <1>7, <2>2, <2>3 DEF TypeOK
<1>9. ~Settled
  BY <1>2, DoneIsNoCall DEF Settled
<1>10. ASSUME NEW m \in Nodes \ {n}
       PROVE  NodeInv(m)'
  <2>1. ASSUME NEW s \in Slots, s[1] = m
        PROVE  live'[s] = live[s] /\ (s \in suspect => s \in suspect')
    BY <1>2, <1>3, <1>10, <2>1, ResentOwn DEF TypeOK
  <2>2. QED
    BY <1>2, <1>6, <1>9, <2>1, Undisturbed
<1>11. OrphansSuspect'
  BY AsStep DEF OrphansSuspect
<1>12. TxShape'
  BY <1>2 DEF TxShape
<1>13. tail' = {} /\ tx' # NoTx
  BY <1>2 DEF TailInv
<1>14. TailInv' /\ IdleInv'
  BY <1>13 DEF TailInv, IdleInv
<1>15. QED
  BY <1>4, <1>8, <1>10, <1>11, <1>12, <1>14 DEF IInv, NodeOk

(***************************************************************************)
(* Undo: of a transaction, and of one whose COMMIT failed.                 *)
(***************************************************************************)

\* An undo call that went through leaves the old rule on its listener.
LEMMA Undone ==
    ASSUME NEW c \in Calls, NEW v \in Live, NEW a \in Answers(c, v), NEW old, NEW new,
           Reverses(c, old, new), Agrees(v, new),
           a.code = "ok" \/ (a.code = "missing" /\ c.verb = "DELETE")
    PROVE  Agrees(a.now, old)
<1>1. a \in Outcomes(c, v)
  BY DEF Outcomes
<1>2. CASE c.verb = "GET"
  BY <1>2 DEF Reverses
<1>3. CASE c.verb = "DELETE"
  BY <1>1, <1>3, DeleteOutcome, AgreesKinds DEF Reverses
<1>4. CASE c.verb = "POST"
  BY <1>1, <1>4, PostOutcome, AgreesKinds DEF Reverses
<1>5. CASE c.verb = "PATCH"
  <2>1. old = Ui(c.body) /\ v = Ui(c.was)
    BY <1>5, AgreesKinds DEF Reverses
  <2>2. v.origin = "ui" /\ v.body = c.was
    BY <1>5, <2>1, CallFields, LiveKinds
  <2>3. a.code = "ok"
    BY <1>5
  <2>4. a.now = Ui(c.body)
    BY <1>1, <1>5, <2>2, <2>3, PatchOutcome
  <2>5. QED
    BY <2>1, <2>4, AgreesKinds
<1>6. QED
  BY <1>2, <1>3, <1>4, <1>5, CallFields

\* A shorter list of undo calls, the dropped ones undone or made suspect.
LEMMA LessUndo ==
    ASSUME TypeOK, NEW n \in Nodes, NodeInv(n), UNCHANGED <<row, ovs, tx, call>>,
           Settled, SomeFailed, undo[n] # {},
           undo'[n] \subseteq undo[n], suspect \subseteq suspect', raced' = raced,
           \A s \in Slots \ suspect' : s[1] = n =>
             \/ live'[s] = live[s] /\ \A c \in undo[n] \ undo'[n] : c.slot # s
             \/ /\ \A c \in undo'[n] : c.slot # s
                /\ Agrees(live'[s], Old(s))
    PROVE  NodeOk(n)'
<1>1. call[n] = Done /\ call'[n] = Done /\ UndoShape(undo[n], n) /\ undo[n] \in SUBSET Calls
  BY DEF NodeInv, TypeOK
<1>2. /\ Settled' /\ SomeFailed'
      /\ \A s : /\ Expected(row, ovs, s)' = Expected(row, ovs, s)
                /\ Expected(tx.row, tx.ovs, s)' = Expected(tx.row, tx.ovs, s)
  BY DEF Settled, SomeFailed, Expected
<1>3. ~HalfMoved(n)'
  BY <1>1, DoneIsNoCall DEF HalfMoved
<1>4. UndoShape(undo[n], n)'
  BY <1>1 DEF UndoShape
<1>5. ASSUME NEW s \in Slots \ suspect', s[1] = n
      PROVE  DoneAgrees(n, s)'
  <2> DEFINE old == Expected(row, ovs, s)
             new == Expected(tx.row, tx.ovs, s)
             U == {c \in undo[n] : c.slot = s}
             V == {c \in undo'[n] : c.slot = s}
  <2>1. /\ \A c \in U : Reverses(c, old, new) /\ Agrees(live[s], new) /\ Possible(c)
        /\ U = {} => Agrees(live[s], old)
    <3>1. DoneAgrees(n, s)
      BY <1>1, <1>5, NodeSlots
    <3>2. QED
      BY <3>1 DEF DoneAgrees
  <2>2. /\ \A c \in V : Reverses(c, old, new) /\ Agrees(live'[s], new) /\ Possible(c)'
        /\ V = {} => Agrees(live'[s], old)
    <3>1. CASE live'[s] = live[s] /\ \A c \in undo[n] \ undo'[n] : c.slot # s
      <4>1. V = U
        BY <3>1
      <4>2. \A c \in U : Possible(c) => Possible(c)'
        BY <3>1 DEF Possible
      <4>3. QED
        BY <2>1, <3>1, <4>1, <4>2
    <3>2. CASE (\A c \in undo'[n] : c.slot # s) /\ Agrees(live'[s], Old(s))
      BY <3>2 DEF Old
    <3>3. QED
      BY <1>5, <3>1, <3>2
  <2>3. old' = old /\ new' = new /\ U' = V
    BY <1>2
  <2>4. QED
    BY <1>2, <2>2, <2>3 DEF DoneAgrees
<1>6. QED
  BY <1>1, <1>3, <1>4, <1>5, DoneIsNoCall DEF NodeInv, NodeOk

\* What Undo and UndoLost share: node n has fewer undo calls left, and no
\* listener of another node is touched.
LEMMA UndoFrame ==
    ASSUME IInv, NEW n \in Nodes, Settled, SomeFailed, NodeOk(n)',
           undo' = [undo EXCEPT ![n] = undo'[n]],
           UNCHANGED <<row, ovs, tx, call, tail, raced>>,
           live' \in [Slots -> Live], suspect' \in SUBSET Slots, suspect \subseteq suspect',
           orphans' \in SUBSET Calls, SlotsOf(orphans') \subseteq suspect',
           \A s \in Slots : s[1] # n => live'[s] = live[s]
    PROVE  IInv'
<1>1. TypeOK /\ TxShape /\ TailInv /\ tx # NoTx /\ (\A m \in Nodes : NodeInv(m))
  BY DEF IInv, Settled
<1>2. TypeOK'
  <2>1. undo' \in [Nodes -> SUBSET Calls]
    BY <1>1 DEF TypeOK, NodeOk
  <2>2. QED
    BY <1>1, <2>1 DEF TypeOK
<1>3. ASSUME NEW m \in Nodes \ {n}
      PROVE  NodeInv(m)'
  <2>1. undo'[m] = undo[m] /\ call'[m] = call[m]
    BY <1>1, <1>3 DEF TypeOK
  <2>2. Settled' /\ SomeFailed'
    BY DEF Settled, SomeFailed
  <2>3. QED
    BY <1>1, <1>3, <2>1, <2>2, Undisturbed
<1>4. OrphansSuspect' /\ TxShape'
  BY <1>1 DEF OrphansSuspect, TxShape
<1>5. tail' = {} /\ tx' # NoTx
  BY <1>1 DEF TailInv
<1>6. TailInv' /\ IdleInv'
  BY <1>5 DEF TailInv, IdleInv
<1>7. QED
  BY <1>2, <1>3, <1>4, <1>6 DEF IInv, NodeOk

\* An undo call after a partial failure keeps the invariant.
LEMMA UndoStep ==
    ASSUME IInv, NEW n \in Nodes, Undo(n)
    PROVE  IInv'
<1>1. /\ TypeOK /\ NodeInv(n) /\ Settled /\ SomeFailed
      /\ UNCHANGED <<row, ovs, tx, call, tail, orphans, raced>>
      /\ live \in [Slots -> Live] /\ undo[n] \in SUBSET Calls
      /\ suspect \in SUBSET Slots /\ orphans \in SUBSET Calls
      /\ OrphansSuspect
  BY DEF IInv, Undo, Settled, TypeOK
<1>2. PICK c \in Ready(undo[n]) : \E a \in Answers(c, live[c.slot]) :
         /\ live' = [live EXCEPT ![c.slot] = a.now]
         /\ \/ /\ UndoOk(undo[n], c, a)
               /\ undo' = [undo EXCEPT ![n] = @ \ {c}]
               /\ UNCHANGED suspect
            \/ /\ ~UndoOk(undo[n], c, a)
               /\ undo' = [undo EXCEPT ![n] = {}]
               /\ suspect' = suspect \union SlotsOf(undo[n])
  BY DEF Undo
<1>3. PICK a \in Answers(c, live[c.slot]) :
         /\ live' = [live EXCEPT ![c.slot] = a.now]
         /\ \/ /\ UndoOk(undo[n], c, a)
               /\ undo' = [undo EXCEPT ![n] = @ \ {c}]
               /\ UNCHANGED suspect
            \/ /\ ~UndoOk(undo[n], c, a)
               /\ undo' = [undo EXCEPT ![n] = {}]
               /\ suspect' = suspect \union SlotsOf(undo[n])
  BY <1>2
<1>4. /\ c \in undo[n] /\ c \in Calls /\ c.slot \in Slots /\ c.slot[1] = n
      /\ \A d \in undo[n] : d.slot = c.slot => d = c
      /\ \A d \in undo[n] : d.slot \in Slots
  BY <1>1, <1>2, CallFields DEF Ready, NodeInv, UndoShape
<1>5. a.now \in Live
  BY <1>1, <1>3, <1>4, OutcomeType DEF Outcomes
<1>6. live' \in [Slots -> Live] /\ \A s \in Slots : s # c.slot => live'[s] = live[s]
  BY <1>1, <1>3, <1>5
<1>7. undo \in [Nodes -> SUBSET Calls]
  BY <1>1 DEF TypeOK
<1>8. /\ undo' = [undo EXCEPT ![n] = undo'[n]] /\ undo'[n] \subseteq undo[n]
      /\ suspect \subseteq suspect' /\ suspect' \in SUBSET Slots
  BY <1>1, <1>3, <1>4, <1>7 DEF SlotsOf
<1>9. ASSUME NEW s \in Slots \ suspect', s[1] = n
      PROVE  \/ live'[s] = live[s] /\ \A d \in undo[n] \ undo'[n] : d.slot # s
             \/ (\A d \in undo'[n] : d.slot # s) /\ Agrees(live'[s], Old(s))
  <2>1. CASE ~UndoOk(undo[n], c, a)
    BY <1>3, <1>4, <1>6, <1>7, <1>9, <2>1 DEF SlotsOf
  <2>2. CASE UndoOk(undo[n], c, a) /\ s # c.slot
    BY <1>3, <1>6, <1>7, <1>9, <2>2
  <2>3. CASE UndoOk(undo[n], c, a) /\ s = c.slot
    <3>1. undo'[n] = undo[n] \ {c}
      BY <1>3, <1>7, <2>3
    <3>2. DoneAgrees(n, s) /\ s \notin suspect
      BY <1>1, <1>4, <1>8, <1>9, NodeSlots DEF NodeInv
    <3>3. Reverses(c, Old(s), New(s)) /\ Agrees(live[s], New(s))
      BY <1>4, <2>3, <3>2 DEF DoneAgrees, Old, New
    <3>4. Agrees(a.now, Old(s))
      BY <1>1, <1>3, <1>4, <2>3, <3>3, Undone DEF UndoOk
    <3>5. QED
      BY <1>1, <1>3, <1>4, <2>3, <3>1, <3>4
  <2>4. QED
    BY <2>1, <2>2, <2>3
<1>10. NodeOk(n)'
  BY <1>1, <1>4, <1>8, <1>9, LessUndo
<1>11. SlotsOf(orphans') \subseteq suspect'
  BY <1>1, <1>8 DEF OrphansSuspect
<1>12. QED
  BY <1>1, <1>4, <1>6, <1>8, <1>10, <1>11, UndoFrame

\* Losing an undo call keeps the invariant: its listeners become suspect.
LEMMA UndoLostStep ==
    ASSUME IInv, NEW n \in Nodes, UndoLost(n)
    PROVE  IInv'
<1>1. /\ TypeOK /\ NodeInv(n) /\ Settled /\ SomeFailed
      /\ UNCHANGED <<row, ovs, tx, call, tail, live, raced>>
      /\ live \in [Slots -> Live] /\ undo[n] \in SUBSET Calls
      /\ suspect \in SUBSET Slots /\ orphans \in SUBSET Calls
      /\ OrphansSuspect /\ undo \in [Nodes -> SUBSET Calls]
      /\ undo' = [undo EXCEPT ![n] = {}] /\ suspect' = suspect \union SlotsOf(undo[n])
  BY DEF IInv, UndoLost, Settled, TypeOK
<1>2. PICK c \in undo[n] : orphans' = orphans \/ orphans' = orphans \union {c}
  BY DEF UndoLost, Ready
<1>3. \A d \in undo[n] : d.slot \in Slots
  BY <1>1, CallFields
<1>4. suspect' \in SUBSET Slots /\ SlotsOf(undo[n]) \subseteq suspect'
  BY <1>1, <1>3 DEF SlotsOf
<1>5. orphans' \in SUBSET Calls /\ SlotsOf(orphans') \subseteq suspect'
  BY <1>1, <1>2, <1>4 DEF OrphansSuspect, SlotsOf
<1>6. undo'[n] = {} /\ undo' = [undo EXCEPT ![n] = undo'[n]]
  BY <1>1
<1>7. \A s \in Slots \ suspect' : \A d \in undo[n] \ undo'[n] : d.slot # s
  BY <1>4 DEF SlotsOf
<1>8. NodeOk(n)'
  BY <1>1, <1>2, <1>6, <1>7, LessUndo
<1>9. QED
  BY <1>1, <1>4, <1>5, <1>6, <1>8, UndoFrame

(***************************************************************************)
(* The ends of a transaction.                                              *)
(***************************************************************************)

\* With no transaction and no undo left over, only the listeners count.
LEMMA IdleInvariant ==
    ASSUME TypeOK', OrphansSuspect', tx' = NoTx, tail' = {},
           \A n \in Nodes : call'[n] = Done /\ undo'[n] = {},
           \A s \in Slots \ suspect' : Matches(s)'
    PROVE  IInv'
<1>1. TxShape'
  BY DEF TxShape, NoTx
<1>2. TailInv'
  BY DEF TailInv
<1>3. IdleInv'
  BY DEF IdleInv
<1>4. QED
  BY <1>1, <1>2, <1>3 DEF IInv

\* The end of a transaction leaves its records well typed.
LEMMA EndType ==
    ASSUME EndTx
    PROVE  /\ tx' = NoTx /\ tx' \in Txs
           /\ call' \in [Nodes -> Calls \union {Done, Failed}]
           /\ undo' \in [Nodes -> SUBSET Calls]
           /\ \A n \in Nodes : call'[n] = Done /\ undo'[n] = {}
BY DEF EndTx, Txs

\* When every undo call has been made or given up, ROLLBACK loses nothing.
LEMMA RollbackStep ==
    ASSUME IInv, Rollback
    PROVE  IInv'
<1>1. /\ TypeOK /\ OrphansSuspect /\ TailInv /\ tx # NoTx /\ Settled
      /\ \A n \in Nodes : NodeInv(n) /\ undo[n] = {}
      /\ EndTx /\ raced' = {} /\ UNCHANGED <<row, ovs, live, tail, orphans, suspect>>
  BY DEF IInv, Rollback, Settled
<1>2. TypeOK'
  BY <1>1, EndType DEF TypeOK
<1>3. tail' = {} /\ OrphansSuspect'
  BY <1>1 DEF TailInv, OrphansSuspect
<1>4. ASSUME NEW s \in Slots \ suspect'
      PROVE  Matches(s)'
  <2>1. s[1] \in Nodes /\ s \in Slots \ suspect
    BY <1>1, <1>4, SlotFields
  <2>2. CASE call[s[1]] = Done
    <3>1. DoneAgrees(s[1], s)
      BY <1>1, <2>1, <2>2, NodeSlots
    <3>2. Agrees(live[s], Expected(row, ovs, s))
      BY <1>1, <2>1, <3>1 DEF DoneAgrees
    <3>3. QED
      BY <1>1, <3>2 DEF Matches
  <2>3. CASE call[s[1]] = Failed
    BY <1>1, <2>1, <2>3, NodeSlots DEF Matches, Old
  <2>4. QED
    BY <1>1, <2>1, <2>2, <2>3 DEF Settled
<1>5. QED
  BY <1>1, <1>2, <1>3, <1>4, EndType, IdleInvariant

\* Every node has ended well: a listener without an undo call runs both the old
\* and the new rule, one with an undo call the new rule, which the call reverses.
LEMMA AllDone ==
    ASSUME IInv, Settled, ~SomeFailed
    PROVE  /\ TypeOK /\ OrphansSuspect /\ tx # NoTx /\ tail = {}
           /\ \A n \in Nodes : UndoShape(undo[n], n)
           /\ \A s \in Slots \ suspect :
                /\ Agrees(live[s], New(s))
                /\ Agrees(live[s], Old(s)) \/ \E c \in undo[s[1]] : c.slot = s
                /\ \A c \in undo[s[1]] : c.slot = s => Reverses(c, Old(s), New(s))
<1>1. /\ TypeOK /\ OrphansSuspect /\ tx # NoTx /\ tail = {}
      /\ \A n \in Nodes : NodeInv(n) /\ call[n] = Done
  BY DEF IInv, Settled, SomeFailed, TailInv
<1>2. ASSUME NEW s \in Slots \ suspect
      PROVE  /\ Agrees(live[s], New(s))
             /\ Agrees(live[s], Old(s)) \/ \E c \in undo[s[1]] : c.slot = s
             /\ \A c \in undo[s[1]] : c.slot = s => Reverses(c, Old(s), New(s))
  <2>1. DoneAgrees(s[1], s)
    BY <1>1, <1>2, SlotFields, NodeSlots
  <2>2. QED
    BY <2>1 DEF DoneAgrees, Old, New
<1>3. QED
  BY <1>1, <1>2 DEF NodeInv

\* When every node has ended well, COMMIT makes the new rule the agreed one.
LEMMA CommitStep ==
    ASSUME IInv, Commit
    PROVE  IInv'
<1>1. /\ EndTx /\ row' = tx.row /\ ovs' = tx.ovs /\ raced' = {}
      /\ UNCHANGED <<live, tail, orphans, suspect>> /\ Settled /\ ~SomeFailed
  BY DEF Commit
<1>2. /\ TypeOK /\ OrphansSuspect /\ tail = {}
      /\ \A s \in Slots \ suspect : Agrees(live[s], New(s))
  BY <1>1, AllDone
<1>3. TypeOK'
  BY <1>1, <1>2, EndType, TxFields DEF TypeOK
<1>4. OrphansSuspect'
  BY <1>1, <1>2 DEF OrphansSuspect
<1>5. \A s \in Slots \ suspect' : Matches(s)'
  BY <1>1, <1>2 DEF Matches, New
<1>6. QED
  BY <1>1, <1>2, <1>3, <1>4, <1>5, EndType, IdleInvariant

\* A failed COMMIT keeps the invariant, whether or not the server committed.
LEMMA CommitFailsStep ==
    ASSUME IInv, CommitFails
    PROVE  IInv'
<1>1. /\ EndTx /\ tail' = UNION {undo[n] : n \in Nodes}
      /\ UNCHANGED <<live, orphans, raced>> /\ Settled /\ ~SomeFailed
      /\ \/ UNCHANGED <<row, ovs, suspect>>
         \/ /\ row' = tx.row /\ ovs' = tx.ovs
            /\ suspect' = suspect \union InFlight \union SlotsOf(tail')
  BY DEF CommitFails
<1>2. /\ TypeOK /\ OrphansSuspect /\ tx # NoTx
      /\ \A n \in Nodes : UndoShape(undo[n], n)
      /\ \A s \in Slots \ suspect :
           /\ Agrees(live[s], New(s))
           /\ Agrees(live[s], Old(s)) \/ \E c \in undo[s[1]] : c.slot = s
           /\ \A c \in undo[s[1]] : c.slot = s => Reverses(c, Old(s), New(s))
  BY <1>1, AllDone
<1>3. tail' \in SUBSET Calls
  BY <1>1, <1>2 DEF TypeOK
<1>4. \A c \in tail' : c \in undo[c.slot[1]] /\ c.verb # "GET" /\ c.slot \in Slots
  BY <1>1, <1>2, <1>3, CallFields DEF UndoShape
<1>5. \A s \in Slots : \A c \in undo[s[1]] : c \in tail'
  BY <1>1, SlotFields
<1>6. SlotsOf(tail') \subseteq Slots /\ InFlight \subseteq Slots
  BY <1>4 DEF SlotsOf, InFlight
<1>7. suspect \subseteq suspect' /\ suspect' \in SUBSET Slots
  BY <1>1, <1>2, <1>6 DEF TypeOK
<1>8. TypeOK'
  BY <1>1, <1>2, <1>3, <1>7, EndType, TxFields DEF TypeOK
<1>9. OrphansSuspect'
  BY <1>1, <1>2, <1>7 DEF OrphansSuspect
<1>10. TxShape'
  <2>1. tx' = NoTx
    BY <1>1, EndType
  <2>2. QED
    BY <2>1 DEF TxShape, NoTx
<1>11. TailInv'
  <2>1. \A c, d \in tail' : c.slot = d.slot => c = d
    BY <1>2, <1>4, SlotFields DEF UndoShape
  <2>2. ASSUME NEW c \in tail', c.slot \notin suspect'
        PROVE  \E new \in Wanted : /\ Reverses(c, Expected(row, ovs, c.slot)', new)
                                 /\ Agrees(live'[c.slot], new)
    <3>1. UNCHANGED <<row, ovs>>
      BY <1>1, <2>2 DEF SlotsOf
    <3>2. Reverses(c, Old(c.slot), New(c.slot)) /\ Agrees(live[c.slot], New(c.slot))
      BY <1>2, <1>4, <1>7, <2>2
    <3>3. New(c.slot) \in Wanted
      BY <1>2, <1>4, TxFields, ExpectedType DEF New
    <3>4. Expected(row, ovs, c.slot)' = Old(c.slot)
      BY <3>1 DEF Old, Expected
    <3>5. QED
      BY <1>1, <3>2, <3>3, <3>4
  <2>3. QED
    BY <1>1, <1>4, <2>1, <2>2, EndType DEF TailInv
<1>12. IdleInv'
  <2>1. ASSUME NEW s \in Slots \ (suspect' \union SlotsOf(tail'))
        PROVE  Matches(s)'
    <3>1. \A c \in undo[s[1]] : c.slot # s
      BY <1>5, <2>1 DEF SlotsOf
    <3>2. Agrees(live[s], New(s)) /\ Agrees(live[s], Old(s))
      BY <1>2, <1>7, <2>1, <3>1
    <3>3. QED
      BY <1>1, <3>2 DEF Matches, Old, New
  <2>2. \A n \in Nodes : call'[n] = Done /\ undo'[n] = {}
    BY <1>1, EndType
  <2>3. SlotsOf(tail)' = SlotsOf(tail')
    BY DEF SlotsOf
  <2>4. QED
    BY <2>1, <2>2, <2>3 DEF IdleInv
<1>13. tx' = NoTx
  BY <1>1, EndType
<1>14. QED
  BY <1>8, <1>9, <1>10, <1>11, <1>12, <1>13 DEF IInv

(***************************************************************************)
(* The undo after a failed COMMIT, and what the UI does not control.       *)
(***************************************************************************)

\* With no transaction under way: what TailInv and IdleInv need of a step that
\* keeps or shortens the list of undo calls left over.
LEMMA TailFrame ==
    ASSUME IInv, tx = NoTx, TypeOK', OrphansSuspect', UNCHANGED <<row, ovs, tx, call, undo>>,
           tail' \subseteq tail,
           \A s \in Slots \ suspect' :
             \/ /\ s \notin suspect /\ (s \in SlotsOf(tail) => s \in SlotsOf(tail'))
                /\ \A w \in Wanted : Agrees(live[s], w) => Agrees(live'[s], w)
             \/ s \notin SlotsOf(tail') /\ Agrees(live'[s], Old(s))
    PROVE  IInv'
<1>1. /\ TypeOK /\ TailInv
      /\ \A n \in Nodes : call[n] = Done /\ undo[n] = {}
      /\ \A s \in Slots \ (suspect \union SlotsOf(tail)) : Matches(s)
  BY DEF IInv, IdleInv
<1>2. \A s : Expected(row, ovs, s)' = Old(s) /\ Expected(row, ovs, s) = Old(s)
  BY DEF Expected, Old
<1>3. TxShape'
  BY DEF TxShape, NoTx
<1>4. TailInv'
  <2>1. ASSUME NEW c \in tail', c.slot \notin suspect'
        PROVE  \E new \in Wanted : /\ Reverses(c, Expected(row, ovs, c.slot)', new)
                                 /\ Agrees(live'[c.slot], new)
    <3>1. c \in tail /\ c.slot \in Slots /\ c.slot \in SlotsOf(tail')
      BY <1>1, <2>1, CallFields DEF SlotsOf, TypeOK
    <3>2. /\ c.slot \notin suspect
          /\ \A w \in Wanted : Agrees(live[c.slot], w) => Agrees(live'[c.slot], w)
      BY <2>1, <3>1
    <3>3. \E new \in Wanted : Reverses(c, Old(c.slot), new) /\ Agrees(live[c.slot], new)
      BY <1>1, <1>2, <3>1, <3>2 DEF TailInv
    <3>4. QED
      BY <1>2, <3>2, <3>3
  <2>2. QED
    BY <1>1, <2>1 DEF TailInv
<1>5. IdleInv'
  <2>1. ASSUME NEW s \in Slots, s \notin suspect', s \notin SlotsOf(tail')
        PROVE  Matches(s)'
    <3>1. CASE s \notin suspect /\ s \notin SlotsOf(tail)
               /\ \A w \in Wanted : Agrees(live[s], w) => Agrees(live'[s], w)
      <4>1. Old(s) \in Wanted
        BY <1>1, ExpectedType DEF Old, TypeOK
      <4>2. QED
        BY <1>1, <1>2, <2>1, <3>1, <4>1 DEF Matches
    <3>2. CASE Agrees(live'[s], Old(s))
      BY <1>2, <3>2 DEF Matches
    <3>3. QED
      BY <2>1, <3>1, <3>2
  <2>2. SlotsOf(tail)' = SlotsOf(tail')
    BY DEF SlotsOf
  <2>3. QED
    BY <1>1, <2>1, <2>2 DEF IdleInv
<1>6. QED
  BY <1>3, <1>4, <1>5 DEF IInv

\* The undo calls left over, when there are any.
LEMMA TailFacts ==
    ASSUME IInv, tail # {}
    PROVE  /\ TypeOK /\ OrphansSuspect /\ tx = NoTx
           /\ tail \in SUBSET Calls
           /\ \A c \in tail : c.slot \in Slots
           /\ \A c, d \in tail : c.slot = d.slot => c = d
           /\ \A c \in tail : c.slot \notin suspect =>
                \E new \in Wanted : /\ Reverses(c, Old(c.slot), new)
                                  /\ Agrees(live[c.slot], new)
<1>1. TypeOK /\ OrphansSuspect /\ TailInv
  BY DEF IInv
<1>2. \A c \in tail : c.slot \in Slots
  BY <1>1, CallFields DEF TypeOK
<1>3. QED
  BY <1>1, <1>2 DEF TailInv, Old, TypeOK

\* An undo call after a failed COMMIT keeps the invariant.
LEMMA TailUndoStep ==
    ASSUME IInv, TailUndo
    PROVE  IInv'
<1>1. PICK c \in Ready(tail) : \E a \in Answers(c, live[c.slot]) :
         /\ live' = [live EXCEPT ![c.slot] = a.now]
         /\ \/ /\ UndoOk(tail, c, a)
               /\ tail' = tail \ {c}
               /\ UNCHANGED suspect
            \/ /\ ~UndoOk(tail, c, a)
               /\ tail' = tail \ OfNode(tail, c.slot[1])
               /\ suspect' = suspect \union SlotsOf(OfNode(tail, c.slot[1]))
  BY DEF TailUndo
<1>2. PICK a \in Answers(c, live[c.slot]) :
         /\ live' = [live EXCEPT ![c.slot] = a.now]
         /\ \/ /\ UndoOk(tail, c, a)
               /\ tail' = tail \ {c}
               /\ UNCHANGED suspect
            \/ /\ ~UndoOk(tail, c, a)
               /\ tail' = tail \ OfNode(tail, c.slot[1])
               /\ suspect' = suspect \union SlotsOf(OfNode(tail, c.slot[1]))
  BY <1>1
<1>3. c \in tail
  BY DEF Ready
<1>4. /\ TypeOK /\ OrphansSuspect /\ tx = NoTx
      /\ tail \in SUBSET Calls /\ c \in Calls
      /\ \A d \in tail : d.slot \in Slots
      /\ \A d, g \in tail : d.slot = g.slot => d = g
      /\ c.slot \notin suspect =>
           \E new \in Wanted : Reverses(c, Old(c.slot), new) /\ Agrees(live[c.slot], new)
  BY <1>3, TailFacts
<1>5. /\ UNCHANGED <<row, ovs, tx, call, undo, orphans, raced>>
      /\ live \in [Slots -> Live] /\ live[c.slot] \in Live
  BY <1>3, <1>4 DEF TailUndo, TypeOK
<1>6. a.now \in Live
  BY <1>2, <1>4, <1>5, OutcomeType DEF Outcomes
<1>7. /\ live' \in [Slots -> Live]
      /\ \A s \in Slots : s # c.slot => live'[s] = live[s]
      /\ live'[c.slot] = a.now
  BY <1>2, <1>3, <1>4, <1>5, <1>6
<1>8. tail' \subseteq tail /\ suspect \subseteq suspect' /\ suspect' \in SUBSET Slots
  BY <1>2, <1>4 DEF TypeOK, SlotsOf, OfNode
<1>9. TypeOK'
  BY <1>4, <1>5, <1>7, <1>8 DEF TypeOK
<1>10. OrphansSuspect'
  BY <1>4, <1>5, <1>8 DEF OrphansSuspect
<1>11. ASSUME NEW s \in Slots \ suspect'
       PROVE  \/ /\ s \notin suspect /\ (s \in SlotsOf(tail) => s \in SlotsOf(tail'))
                 /\ \A w \in Wanted : Agrees(live[s], w) => Agrees(live'[s], w)
              \/ s \notin SlotsOf(tail') /\ Agrees(live'[s], Old(s))
  <2>1. CASE s # c.slot
    <3>1. s \in SlotsOf(tail) => s \in SlotsOf(tail')
      BY <1>2, <1>11, <2>1 DEF SlotsOf
    <3>2. QED
      BY <1>7, <1>8, <1>11, <2>1, <3>1
  <2>2. CASE s = c.slot /\ ~UndoOk(tail, c, a)
    <3>1. c \in OfNode(tail, c.slot[1])
      BY <1>3 DEF OfNode
    <3>2. QED
      BY <1>2, <1>11, <2>2, <3>1 DEF SlotsOf
  <2>3. CASE s = c.slot /\ UndoOk(tail, c, a)
    <3>1. tail' = tail \ {c} /\ s \notin suspect
      BY <1>2, <1>8, <1>11, <2>3
    <3>2. s \notin SlotsOf(tail')
      BY <1>3, <1>4, <2>3, <3>1 DEF SlotsOf
    <3>3. Agrees(a.now, Old(s))
      BY <1>2, <1>4, <1>5, <2>3, <3>1, Undone DEF UndoOk
    <3>4. QED
      BY <1>7, <2>3, <3>2, <3>3
  <2>4. QED
    BY <2>1, <2>2, <2>3
<1>12. QED
  BY <1>4, <1>5, <1>8, <1>9, <1>10, <1>11, TailFrame

\* Losing an undo call after a failed COMMIT keeps the invariant.
LEMMA TailLostStep ==
    ASSUME IInv, TailLost
    PROVE  IInv'
<1>1. PICK c \in tail :
         /\ orphans' = orphans \/ orphans' = orphans \union {c}
         /\ tail' = tail \ OfNode(tail, c.slot[1])
         /\ suspect' = suspect \union SlotsOf(OfNode(tail, c.slot[1]))
  BY DEF TailLost, Ready
<1>2. UNCHANGED <<row, ovs, live, tx, call, undo, raced>>
  BY DEF TailLost
<1>3. /\ TypeOK /\ OrphansSuspect /\ tx = NoTx
      /\ tail \in SUBSET Calls /\ c \in Calls
      /\ \A d \in tail : d.slot \in Slots
  BY <1>1, TailFacts
<1>4. c.slot \in SlotsOf(OfNode(tail, c.slot[1]))
  BY DEF SlotsOf, OfNode
<1>5. tail' \subseteq tail /\ suspect \subseteq suspect' /\ suspect' \in SUBSET Slots
  BY <1>1, <1>3 DEF TypeOK, SlotsOf, OfNode
<1>6. orphans' \in SUBSET Calls /\ SlotsOf(orphans') \subseteq suspect'
  BY <1>1, <1>3, <1>4 DEF OrphansSuspect, SlotsOf, TypeOK
<1>7. TypeOK'
  BY <1>2, <1>3, <1>5, <1>6 DEF TypeOK
<1>8. OrphansSuspect'
  BY <1>6 DEF OrphansSuspect
<1>9. \A s \in Slots \ suspect' : s \in SlotsOf(tail) => s \in SlotsOf(tail')
  BY <1>1 DEF SlotsOf
<1>10. QED
  BY <1>2, <1>3, <1>5, <1>7, <1>8, <1>9, TailFrame

(***************************************************************************)
(* What the UI does not control.                                           *)
(***************************************************************************)

\* A step of the world outside, seen from the listeners it may touch.
LEMMA OutsideFrame ==
    ASSUME IInv, UNCHANGED <<row, ovs, tx, call, undo, tail>>, TypeOK', OrphansSuspect',
           tx # NoTx =>
             \A s \in Slots :
               /\ s \in suspect => s \in suspect'
               /\ s \in raced => s \in raced'
               /\ s \notin raced' => live'[s] = live[s]
               /\ s \notin suspect' => \A w \in Wanted : Agrees(live[s], w) => Agrees(live'[s], w),
           tx = NoTx =>
             \A s \in Slots \ suspect' :
               \/ /\ s \notin suspect
                  /\ \A w \in Wanted : Agrees(live[s], w) => Agrees(live'[s], w)
               \/ s \notin SlotsOf(tail) /\ Agrees(live'[s], Old(s))
    PROVE  IInv'
<1>1. CASE tx = NoTx
  BY <1>1, TailFrame
<1>2. CASE tx # NoTx
  <2>1. /\ TypeOK /\ TxShape /\ TailInv /\ \A n \in Nodes : NodeInv(n)
    BY <1>2 DEF IInv
  <2>2. Settled /\ SomeFailed => (Settled /\ SomeFailed)'
    BY DEF Settled, SomeFailed
  <2>3. ASSUME NEW n \in Nodes
        PROVE  NodeInv(n)'
    BY <1>2, <2>1, <2>2, Undisturbed
  <2>4. TxShape'
    BY <2>1 DEF TxShape
  <2>5. tail' = {} /\ tx' # NoTx
    BY <1>2, <2>1 DEF TailInv
  <2>6. TailInv' /\ IdleInv'
    BY <2>5 DEF TailInv, IdleInv
  <2>7. QED
    BY <2>3, <2>4, <2>6 DEF IInv
<1>3. QED
  BY <1>1, <1>2

\* A listener somebody else changed counts as raced while anything is under way.
LEMMA RaceGrows ==
    ASSUME TypeOK, NEW S \in SUBSET Slots, Race(S)
    PROVE  /\ raced' \in SUBSET Slots
           /\ tx # NoTx => raced' = raced \union S
BY DEF Race, TypeOK

\* A late call disturbs only listeners that are suspect already.
LEMMA OrphanLandsStep ==
    ASSUME IInv, OrphanLands
    PROVE  IInv'
<1>1. PICK c \in orphans : \E a \in Answers(c, live[c.slot]) :
         /\ live' = [live EXCEPT ![c.slot] = a.now]
         /\ orphans' = orphans \ {c}
         /\ Race({c.slot})
  BY DEF OrphanLands
<1>2. PICK a \in Answers(c, live[c.slot]) :
         /\ live' = [live EXCEPT ![c.slot] = a.now]
         /\ orphans' = orphans \ {c}
         /\ Race({c.slot})
  BY <1>1
<1>3. /\ TypeOK /\ OrphansSuspect /\ c \in Calls /\ c.slot \in Slots
      /\ live \in [Slots -> Live]
      /\ UNCHANGED <<row, ovs, tx, call, undo, tail, suspect>>
  BY <1>1, CallFields DEF IInv, TypeOK, OrphanLands
<1>4. a.now \in Live
  BY <1>2, <1>3, OutcomeType DEF Outcomes
<1>5. /\ live' \in [Slots -> Live]
      /\ \A s \in Slots \ {c.slot} : live'[s] = live[s]
  BY <1>2, <1>3, <1>4
<1>6. c.slot \in suspect
  BY <1>1, <1>3 DEF OrphansSuspect, SlotsOf
<1>7. raced' \in SUBSET Slots /\ (tx # NoTx => raced' = raced \union {c.slot})
  BY <1>2, <1>3, RaceGrows
<1>8. TypeOK' /\ OrphansSuspect'
  BY <1>2, <1>3, <1>5, <1>7 DEF TypeOK, OrphansSuspect, SlotsOf
<1>9. QED
  BY <1>3, <1>5, <1>6, <1>7, <1>8, OutsideFrame

\* A restart of rproxy in any state of the transaction keeps the invariant.
LEMMA RestartStep ==
    ASSUME IInv, NEW n \in Nodes, Restart(n)
    PROVE  IInv'
<1>1. /\ TypeOK /\ OrphansSuspect /\ live \in [Slots -> Live] /\ suspect \in SUBSET Slots
      /\ UNCHANGED <<row, ovs, tx, call, undo, tail, orphans>>
      /\ live' = [s \in Slots |->
                    IF s[1] # n \/ live[s] \in Foreign THEN live[s]
                    ELSE Expected(row, ovs, s)]
      /\ suspect' =
           IF tx = NoTx /\ tail = {}
           THEN suspect \ {s \in Slots : s[1] = n /\ live[s] \notin Foreign
                                          /\ s \notin SlotsOf(orphans)}
           ELSE suspect \union {s \in InFlight \union SlotsOf(tail) : s[1] = n}
      /\ Race({s \in Slots : s[1] = n})
  BY DEF IInv, TypeOK, Restart
<1>2. /\ raced' \in SUBSET Slots
      /\ tx # NoTx => raced' = raced \union {s \in Slots : s[1] = n}
  BY <1>1, RaceGrows
<1>3. \A s \in Slots : Expected(row, ovs, s) \in Wanted /\ Expected(row, ovs, s) = Old(s)
  BY <1>1, ExpectedType DEF TypeOK, Old
<1>4. live' \in [Slots -> Live]
  BY <1>1, <1>3 DEF Live
<1>5. SlotsOf(tail) \subseteq Slots /\ InFlight \subseteq Slots
  BY <1>1, CallFields DEF TypeOK, SlotsOf, InFlight
<1>6. suspect' \in SUBSET Slots
  BY <1>1, <1>5
<1>7. TypeOK'
  BY <1>1, <1>2, <1>4, <1>6 DEF TypeOK
<1>8. OrphansSuspect'
  BY <1>1 DEF OrphansSuspect
<1>9. \A w \in Wanted : Agrees(w, w)
  BY AgreesKinds DEF Wanted
<1>10. ASSUME tx # NoTx, NEW s \in Slots
       PROVE  /\ s \in suspect => s \in suspect'
              /\ s \in raced => s \in raced'
              /\ s \notin raced' => live'[s] = live[s]
              /\ s \notin suspect' => \A w \in Wanted : Agrees(live[s], w) => Agrees(live'[s], w)
  <2>1. s \in suspect => s \in suspect'
    BY <1>1, <1>10
  <2>2. s[1] # n => live'[s] = live[s]
    BY <1>1
  <2>3. ASSUME s \notin suspect', s[1] = n, live[s] \notin Foreign
        PROVE  live'[s] = live[s]
    <3>1. s \in Slots \ (suspect \union InFlight)
      BY <1>1, <1>10, <2>1, <2>3
    <3>2. Agrees(live[s], Old(s))
      BY <1>1, <1>10, <2>3, <3>1, Stable DEF IInv
    <3>3. live[s] \in Wanted
      BY <1>1, <2>3 DEF Live
    <3>4. live[s] = Old(s)
      BY <1>3, <3>2, <3>3, AgreesKinds, LiveKinds DEF Wanted
    <3>5. QED
      BY <1>1, <1>3, <2>3, <3>4
  <2>4. live[s] \in Foreign => live'[s] = live[s]
    BY <1>1
  <2>5. QED
    BY <1>2, <1>10, <2>1, <2>2, <2>3, <2>4
<1>11. ASSUME tx = NoTx, NEW s \in Slots \ suspect'
       PROVE  \/ /\ s \notin suspect
                 /\ \A w \in Wanted : Agrees(live[s], w) => Agrees(live'[s], w)
              \/ s \notin SlotsOf(tail) /\ Agrees(live'[s], Old(s))
  <2>1. CASE s[1] # n \/ live[s] \in Foreign
    BY <1>1, <1>11, <2>1
  <2>2. CASE s[1] = n /\ live[s] \notin Foreign
    <3>1. live'[s] = Old(s)
      BY <1>1, <1>3, <2>2
    <3>2. s \notin SlotsOf(tail)
      BY <1>1, <1>11, <2>2 DEF SlotsOf
    <3>3. QED
      BY <1>3, <1>9, <3>1, <3>2
  <2>3. QED
    BY <2>1, <2>2
<1>12. QED
  BY <1>1, <1>7, <1>8, <1>10, <1>11, OutsideFrame

\* A change by an API client or a configuration file keeps the invariant.
LEMMA ExternalStep ==
    ASSUME IInv, NEW p \in Slots, External(p)
    PROVE  IInv'
<1>1. PICK v \in {Empty} \union Foreign : live' = [live EXCEPT ![p] = v]
  BY DEF External
<1>2. /\ TypeOK /\ OrphansSuspect /\ live \in [Slots -> Live] /\ suspect \in SUBSET Slots
      /\ UNCHANGED <<row, ovs, tx, call, undo, tail, orphans>>
      /\ suspect' = suspect \union IF live[p].origin = "ui" THEN {p} ELSE {}
      /\ Race({p})
  BY DEF IInv, TypeOK, External
<1>3. v \in Live /\ v.origin # "ui"
  BY LiveKinds DEF Live, Wanted, Foreign
<1>4. /\ live' \in [Slots -> Live] /\ live'[p] = v
      /\ \A s \in Slots \ {p} : live'[s] = live[s]
  BY <1>1, <1>2, <1>3
<1>5. raced' \in SUBSET Slots /\ (tx # NoTx => raced' = raced \union {p})
  BY <1>2, RaceGrows
<1>6. suspect \subseteq suspect' /\ suspect' \in SUBSET Slots
  BY <1>2
<1>7. TypeOK' /\ OrphansSuspect'
  BY <1>2, <1>4, <1>5, <1>6 DEF TypeOK, OrphansSuspect
<1>8. ASSUME NEW s \in Slots \ suspect', NEW w \in Wanted, Agrees(live[s], w)
      PROVE  Agrees(live'[s], w)
  <2>1. CASE s # p
    BY <1>4, <1>8, <2>1
  <2>2. CASE s = p
    <3>1. live[p].origin # "ui"
      BY <1>2, <1>8, <2>2
    <3>2. w = Empty
      BY <1>8, <2>2, <3>1, AgreesKinds, LiveKinds DEF Wanted
    <3>3. QED
      BY <1>3, <1>4, <2>2, <3>2, AgreesKinds
  <2>3. QED
    BY <2>1, <2>2
<1>9. QED
  BY <1>2, <1>4, <1>5, <1>6, <1>7, <1>8, OutsideFrame

\* A crash of the UI leaves only the listeners of the transaction in doubt.
LEMMA CrashStep ==
    ASSUME IInv, Crash
    PROVE  IInv'
<1>1. /\ TypeOK /\ OrphansSuspect /\ TailInv /\ EndTx /\ tail' = {} /\ raced' = {}
      /\ suspect' = suspect \union SlotsOf(tail) \union IF tx = NoTx THEN {} ELSE InFlight
      /\ UNCHANGED <<row, ovs, live, orphans>>
  BY DEF IInv, Crash
<1>2. SlotsOf(tail) \subseteq Slots /\ InFlight \subseteq Slots
  BY <1>1, CallFields DEF TypeOK, SlotsOf, InFlight
<1>3. suspect' \in SUBSET Slots /\ suspect \subseteq suspect'
  BY <1>1, <1>2 DEF TypeOK
<1>4. TypeOK'
  BY <1>1, <1>3, EndType DEF TypeOK
<1>5. OrphansSuspect'
  BY <1>1, <1>3 DEF OrphansSuspect
<1>6. ASSUME NEW s \in Slots \ suspect'
      PROVE  Matches(s)'
  <2>1. CASE tx = NoTx
    <3>1. Matches(s)
      BY <1>1, <1>6, <2>1 DEF IInv, IdleInv
    <3>2. QED
      BY <1>1, <3>1 DEF Matches
  <2>2. CASE tx # NoTx
    <3>1. s \in Slots \ (suspect \union InFlight) /\ s[1] \in Nodes
      BY <1>1, <1>6, <2>2, SlotFields
    <3>2. Agrees(live[s], Old(s))
      BY <1>1, <2>2, <3>1, Stable DEF IInv
    <3>3. QED
      BY <1>1, <3>2 DEF Matches, Old
  <2>3. QED
    BY <2>1, <2>2
<1>7. QED
  BY <1>1, <1>4, <1>5, <1>6, EndType, IdleInvariant

(***************************************************************************)
(* The beginning of a transaction.                                         *)
(***************************************************************************)

\* A node begins with a call that looks at, starts or stops its listener, or it
\* has nothing to do because the change leaves its listeners alone.
Begins(n, op, m, r, os) ==
    \E nc \in Calls \union {Done} :
      /\ nc = FirstCall(op, m, n, Before(n), Effective(r, os[n]))
      /\ nc = Done => \A s \in Slots : s[1] = n => Expected(r, os, s) = Old(s)
      /\ nc # Done => CallShape(n, nc)' /\ (op = "override" => nc.verb # "POST")

\* Beginning an operation keeps the invariant if its first calls are in order.
LEMMA StartStep ==
    ASSUME IInv, NEW op \in Ops, NEW r \in Rows, NEW os \in [Nodes -> Overrides],
           NEW m \in Nodes \union {NoNode}, Start(op, r, os, m), TxShape',
           \A n \in Nodes : Begins(n, op, m, r, os)
    PROVE  IInv'
<1>1. /\ TypeOK /\ OrphansSuspect /\ TailInv /\ tx = NoTx
      /\ tx' = [op |-> op, row |-> r, ovs |-> os, node |-> m]
      /\ call' = [n \in Nodes |-> FirstCall(op, m, n, Before(n), Effective(r, os[n]))]
      /\ undo' = [n \in Nodes |-> {}]
      /\ orphans' = orphans \union tail /\ tail' = {}
      /\ suspect' = suspect \union SlotsOf(tail)
      /\ raced' = {} /\ UNCHANGED <<row, ovs, live>>
      /\ \A s \in Slots \ suspect' : Agrees(live[s], Old(s))
  BY DEF IInv, IdleInv, Start, Matches, Old
<1>2. tx'.op = op /\ tx'.row = r /\ tx'.ovs = os /\ tx'.node = m /\ tx' # NoTx
  BY <1>1 DEF NoTx, Ops
<1>3. SlotsOf(tail) \subseteq Slots
  BY <1>1, CallFields DEF TypeOK, SlotsOf
<1>4. TypeOK'
  <2>1. tx' \in Txs
    BY <1>1 DEF Txs
  <2>2. call' \in [Nodes -> Calls \union {Done, Failed}]
    BY <1>1 DEF Begins
  <2>3. undo' \in [Nodes -> SUBSET Calls] /\ tail' \in SUBSET Calls
        /\ orphans' \in SUBSET Calls /\ suspect' \in SUBSET Slots
    BY <1>1, <1>3 DEF TypeOK
  <2>4. QED
    BY <1>1, <2>1, <2>2, <2>3 DEF TypeOK
<1>5. OrphansSuspect'
  BY <1>1 DEF OrphansSuspect, SlotsOf
<1>6. \A s : /\ Expected(row, ovs, s)' = Old(s)
             /\ Expected(tx.row, tx.ovs, s)' = Expected(r, os, s)
  BY <1>1, <1>2 DEF Old, Expected
<1>7. ASSUME NEW n \in Nodes
      PROVE  NodeInv(n)'
  <2>1. call'[n] = FirstCall(op, m, n, Before(n), Effective(r, os[n])) /\ undo'[n] = {}
    BY <1>1
  <2>2. UndoShape(undo[n], n)'
    BY <2>1 DEF UndoShape
  <2>3. CASE /\ call'[n] = Done
             /\ \A s \in Slots : s[1] = n => Expected(r, os, s) = Old(s)
    <3>1. ~HalfMoved(n)'
      BY <2>3, DoneIsNoCall DEF HalfMoved
    <3>2. ASSUME NEW s \in Slots \ suspect', s[1] = n
          PROVE  DoneAgrees(n, s)'
      BY <1>1, <1>6, <2>1, <2>3, <3>2 DEF DoneAgrees
    <3>3. QED
      BY <2>1, <2>2, <2>3, <3>1, <3>2, DoneIsNoCall DEF NodeInv
  <2>4. CASE \E nc \in Calls : /\ call'[n] = nc /\ CallShape(n, nc)'
                               /\ op = "override" => nc.verb # "POST"
    <3>1. call'[n] \in Calls /\ CallShape(n, call[n])'
      BY <2>4
    <3>2. ~HalfMoved(n)'
      BY <1>2, <2>4 DEF HalfMoved, Moving
    <3>3. QED
      BY <1>1, <1>6, <2>1, <2>2, <3>1, <3>2, DoneIsNoCall DEF NodeInv
  <2>5. QED
    BY <2>1, <2>3, <2>4, DoneIsNoCall DEF Begins
<1>8. TailInv' /\ IdleInv'
  BY <1>1, <1>2 DEF TailInv, IdleInv
<1>9. QED
  BY <1>4, <1>5, <1>7, <1>8 DEF IInv

\* The two sides of a change that is about to begin.
LEMMA StartSides ==
    ASSUME IInv, NEW op \in Ops, NEW r \in Rows, NEW os \in [Nodes -> Overrides],
           NEW m \in Nodes \union {NoNode}, Start(op, r, os, m), NEW n \in Nodes
    PROVE  LET e == Before(n)
               f == Effective(r, os[n])
           IN  /\ tx'.op = op /\ tx'.row = r /\ tx'.ovs = os /\ tx'.node = m
               /\ row' = row /\ ovs' = ovs
               /\ Before(n)' = e /\ After(n)' = f
               /\ e.addr \in Addrs /\ e.on \in BOOLEAN /\ (e.on => e.body \in Bodies)
               /\ f.addr \in Addrs /\ f.on \in BOOLEAN /\ (f.on => f.body \in Bodies)
               /\ e.on = (row.on /\ ~ovs[n].off) /\ f.on = (r.on /\ ~os[n].off)
               /\ Get(n, e) \in Calls /\ Get(n, f) \in Calls
               /\ e.on => Post(n, e) \in Calls
               /\ f.on => Post(n, f) \in Calls
               /\ \A s \in Slots : s[1] = n =>
                    /\ Old(s) = IF e.on /\ s = At(n, e) THEN Ui(e.body) ELSE Empty
                    /\ Expected(r, os, s) =
                         IF f.on /\ s = At(n, f) THEN Ui(f.body) ELSE Empty
<1> DEFINE e == Before(n)
           f == Effective(r, os[n])
<1>1. /\ TypeOK /\ UNCHANGED <<row, ovs>>
      /\ tx' = [op |-> op, row |-> r, ovs |-> os, node |-> m]
  BY DEF IInv, Start
<1>2. tx'.op = op /\ tx'.row = r /\ tx'.ovs = os /\ tx'.node = m
  BY <1>1
<1>3. Before(n)' = e /\ After(n)' = f
  BY <1>1, <1>2 DEF Before, After
<1>4. e.on = (row.on /\ ~ovs[n].off) /\ f.on = (r.on /\ ~os[n].off)
  BY DEF Before, Effective
<1>5. f.addr \in Addrs /\ f.on \in BOOLEAN /\ (f.on => f.body \in Bodies)
  BY EffectiveType
<1>6. e.addr \in Addrs /\ e.on \in BOOLEAN /\ (e.on => e.body \in Bodies)
  BY <1>1, Sides
<1>7. Get(n, e) \in Calls /\ (e.on => Post(n, e) \in Calls)
  BY <1>6, CallTypes
<1>8. Get(n, f) \in Calls /\ (f.on => Post(n, f) \in Calls)
  BY <1>5, CallTypes
<1>9. ASSUME NEW s \in Slots, s[1] = n
      PROVE  /\ Old(s) = IF e.on /\ s = At(n, e) THEN Ui(e.body) ELSE Empty
             /\ Expected(r, os, s) = IF f.on /\ s = At(n, f) THEN Ui(f.body) ELSE Empty
  BY <1>1, <1>9, Sides, ExpectedAt
<1>10. QED
  BY <1>1, <1>2, <1>3, <1>4, <1>5, <1>6, <1>7, <1>8, <1>9

\* The calls FirstCall may pick, once the operation has begun.
LEMMA FirstShapes ==
    ASSUME IInv, NEW op \in Ops, NEW r \in Rows, NEW os \in [Nodes -> Overrides],
           NEW m \in Nodes \union {NoNode}, Start(op, r, os, m), NEW n \in Nodes,
           m \in {n, NoNode}, NEW nc \in Calls,
           LET e == Before(n)
               f == Effective(r, os[n])
           IN  CASE op = "add" -> f.on /\ nc = Post(n, f)
                 [] op = "edit" -> e.on /\ f.on /\ e.addr = f.addr /\ nc = Get(n, f)
                 [] op = "resume" -> ~e.on /\ f.on /\ nc = Get(n, f)
                 [] op \in {"delete", "pause"} -> e.on /\ nc = Get(n, e)
                 [] op = "override" ->
                      \/ e.on /\ nc = Get(n, e)
                      \/ ~e.on /\ f.on /\ nc = Get(n, f)
                 [] op = "resend" -> nc = Get(n, e)
    PROVE  CallShape(n, nc)'
<1> DEFINE e == Before(n)
           f == Effective(r, os[n])
<1>1. /\ tx'.op = op /\ tx'.node = m /\ Before(n)' = e /\ After(n)' = f
      /\ op \in {"add", "edit", "delete", "pause", "resume", "override", "resend"}
  BY StartSides DEF Ops
<1>2. /\ Get(n, Before(n))' = Get(n, e) /\ Get(n, After(n))' = Get(n, f)
      /\ Post(n, After(n))' = Post(n, f)
  BY <1>1 DEF Get, Post, At
<1>3. CASE op = "add"
  BY <1>1, <1>2, <1>3 DEF CallShape
<1>4. CASE op = "edit"
  BY <1>1, <1>2, <1>4 DEF CallShape
<1>5. CASE op = "resume"
  BY <1>1, <1>2, <1>5 DEF CallShape
<1>6. CASE op \in {"delete", "pause"}
  BY <1>1, <1>2, <1>6 DEF CallShape
<1>7. CASE op = "override"
  BY <1>1, <1>2, <1>7 DEF CallShape
<1>8. CASE op = "resend"
  BY <1>1, <1>2, <1>8 DEF CallShape
<1>9. QED
  BY <1>1, <1>3, <1>4, <1>5, <1>6, <1>7, <1>8

\* A row with another body, or paused or resumed, is a row.
LEMMA RowChanges ==
    ASSUME NEW r \in Rows, r # NoRow
    PROVE  /\ \A b \in Bodies : /\ [r EXCEPT !.body = b] \in Rows
                                /\ [r EXCEPT !.body = b] # NoRow
                                /\ [r EXCEPT !.body = b].on = r.on
           /\ \A on \in BOOLEAN : /\ [r EXCEPT !.on = on] \in Rows
                                  /\ [r EXCEPT !.on = on] # NoRow
                                  /\ [r EXCEPT !.on = on].on = on
<1>1. r \in [body : Bodies, on : BOOLEAN]
  BY DEF Rows
<1>2. \A q \in [body : Bodies, on : BOOLEAN] : q \in Rows /\ q # NoRow
  BY PlacementAssumption DEF Rows, NoRow
<1>3. \A b \in Bodies : /\ [r EXCEPT !.body = b] \in [body : Bodies, on : BOOLEAN]
                        /\ [r EXCEPT !.body = b].on = r.on
  BY <1>1
<1>4. \A on \in BOOLEAN : /\ [r EXCEPT !.on = on] \in [body : Bodies, on : BOOLEAN]
                          /\ [r EXCEPT !.on = on].on = on
  BY <1>1
<1>5. QED
  BY <1>2, <1>3, <1>4

\* An add begins in order.
LEMMA BeginAddStep ==
    ASSUME IInv, BeginAdd
    PROVE  IInv'
<1>1. PICK b \in Bodies, on \in BOOLEAN, os \in [Nodes -> Overrides] :
        Start("add", [body |-> b, on |-> on], os, NoNode)
  BY DEF BeginAdd
<1> DEFINE r == [body |-> b, on |-> on]
<1>2. r \in Rows /\ "add" \in Ops /\ row = NoRow
  BY DEF Rows, Ops, BeginAdd
<1>3. ~row.on
  BY <1>2 DEF NoRow
<1>4. TxShape'
  BY <1>1, <1>2 DEF TxShape, Start
<1>5. ASSUME NEW n \in Nodes
      PROVE  Begins(n, "add", NoNode, r, os)
  <2> DEFINE f == Effective(r, os[n])
  <2>1. ~Before(n).on /\ (f.on => Post(n, f) \in Calls)
    BY <1>1, <1>2, <1>3, StartSides
  <2>2. CASE f.on
    <3>1. PICK nc \in Calls : nc = Post(n, f)
      BY <2>1, <2>2
    <3>2. CallShape(n, nc)'
      BY <1>1, <1>2, <2>2, <3>1, FirstShapes
    <3>3. QED
      BY <2>2, <3>1, <3>2, DoneIsNoCall DEF Begins, FirstCall
  <2>3. CASE ~f.on
    <3>1. \A s \in Slots : s[1] = n => Expected(r, os, s) = Old(s)
      BY <1>1, <1>2, <2>1, <2>3, StartSides
    <3>2. QED
      BY <2>3, <3>1 DEF Begins, FirstCall
  <2>4. QED
    BY <2>2, <2>3
<1>6. QED
  BY <1>1, <1>2, <1>4, <1>5, StartStep

\* An edit begins in order.
LEMMA BeginEditStep ==
    ASSUME IInv, BeginEdit
    PROVE  IInv'
<1>1. PICK r \in Rows : Start("edit", r, ovs, NoNode) /\ r # NoRow /\ r.on = row.on
  <2>1. PICK b \in Bodies : Start("edit", [row EXCEPT !.body = b], ovs, NoNode)
    BY DEF BeginEdit
  <2>2. row \in Rows /\ row # NoRow
    BY DEF IInv, TypeOK, BeginEdit
  <2>3. /\ [row EXCEPT !.body = b] \in Rows /\ [row EXCEPT !.body = b] # NoRow
        /\ [row EXCEPT !.body = b].on = row.on
    BY <2>2, RowChanges
  <2>4. QED
    BY <2>1, <2>3
<1>2. row \in Rows /\ row # NoRow /\ ovs \in [Nodes -> Overrides] /\ "edit" \in Ops
  BY DEF IInv, TypeOK, BeginEdit, Ops
<1>3. TxShape'
  BY <1>1, <1>2 DEF TxShape, Start
<1>4. ASSUME NEW n \in Nodes
      PROVE  Begins(n, "edit", NoNode, r, ovs)
  <2> DEFINE e == Before(n)
             f == Effective(r, ovs[n])
  <2>1. e.addr = f.addr
    BY DEF Before, Effective
  <2>2. (e.on <=> f.on) /\ Get(n, f) \in Calls
    <3>1. /\ e.on = (row.on /\ ~ovs[n].off) /\ f.on = (r.on /\ ~ovs[n].off)
          /\ Get(n, f) \in Calls
      BY <1>1, <1>2, StartSides
    <3>2. QED
      BY <1>1, <3>1
  <2>3. CASE f.on
    <3>1. PICK nc \in Calls : nc = Get(n, f)
      BY <2>2
    <3>2. CallShape(n, nc)'
      BY <1>1, <1>2, <2>1, <2>2, <2>3, <3>1, FirstShapes
    <3>3. QED
      BY <2>3, <3>1, <3>2, DoneIsNoCall DEF Begins, FirstCall
  <2>4. CASE ~f.on
    <3>1. \A s \in Slots : s[1] = n => Expected(r, ovs, s) = Old(s)
      BY <1>1, <1>2, <2>2, <2>4, StartSides
    <3>2. QED
      BY <2>4, <3>1 DEF Begins, FirstCall
  <2>5. QED
    BY <2>3, <2>4
<1>5. QED
  BY <1>1, <1>2, <1>3, <1>4, StartStep

\* Delete and pause begin in the same way.
LEMMA BeginRemove ==
    ASSUME IInv, NEW op \in {"delete", "pause"}, NEW r \in Rows, ~r.on,
           NEW os \in [Nodes -> Overrides], Start(op, r, os, NoNode), TxShape'
    PROVE  IInv'
<1>1. op \in Ops
  BY DEF Ops
<1>2. ASSUME NEW n \in Nodes
      PROVE  Begins(n, op, NoNode, r, os)
  <2> DEFINE e == Before(n)
             f == Effective(r, os[n])
  <2>1. ~f.on /\ Get(n, e) \in Calls
    BY <1>1, StartSides
  <2>2. CASE e.on
    <3>1. PICK nc \in Calls : nc = Get(n, e)
      BY <2>1
    <3>2. CallShape(n, nc)'
      BY <1>1, <2>2, <3>1, FirstShapes
    <3>3. QED
      BY <2>2, <3>1, <3>2, DoneIsNoCall DEF Begins, FirstCall
  <2>3. CASE ~e.on
    <3>1. \A s \in Slots : s[1] = n => Expected(r, os, s) = Old(s)
      BY <1>1, <2>1, <2>3, StartSides
    <3>2. QED
      BY <2>3, <3>1 DEF Begins, FirstCall
  <2>4. QED
    BY <2>2, <2>3
<1>3. QED
  BY <1>1, <1>2, StartStep

\* A delete begins in order.
LEMMA BeginDeleteStep ==
    ASSUME IInv, BeginDelete
    PROVE  IInv'
<1>1. Start("delete", NoRow, NoOvs, NoNode)
  BY DEF BeginDelete
<1>2. NoRow \in Rows /\ ~NoRow.on /\ NoOvs \in [Nodes -> Overrides]
  BY PlacementAssumption DEF Rows, NoRow, NoOvs
<1>3. TxShape'
  BY <1>1 DEF TxShape, Start
<1>4. QED
  BY <1>1, <1>2, <1>3, BeginRemove

\* A pause begins in order.
LEMMA BeginPauseStep ==
    ASSUME IInv, BeginPause
    PROVE  IInv'
<1> DEFINE r == [row EXCEPT !.on = FALSE]
<1>1. Start("pause", r, ovs, NoNode) /\ row \in Rows /\ ovs \in [Nodes -> Overrides]
  BY DEF IInv, TypeOK, BeginPause
<1>2. row # NoRow
  BY DEF BeginPause, NoRow
<1>3. r \in Rows /\ ~r.on
  BY <1>1, <1>2, RowChanges
<1>4. TxShape'
  BY <1>1 DEF TxShape, Start
<1>5. QED
  BY <1>1, <1>3, <1>4, BeginRemove

\* A resume begins in order.
LEMMA BeginResumeStep ==
    ASSUME IInv, BeginResume
    PROVE  IInv'
<1> DEFINE r == [row EXCEPT !.on = TRUE]
<1>1. /\ Start("resume", r, ovs, NoNode) /\ "resume" \in Ops
      /\ row \in Rows /\ row # NoRow /\ ~row.on /\ ovs \in [Nodes -> Overrides]
  BY DEF IInv, TypeOK, BeginResume, Ops
<1>2. r \in Rows
  BY <1>1, RowChanges
<1>3. TxShape'
  BY <1>1 DEF TxShape, Start
<1>4. ASSUME NEW n \in Nodes
      PROVE  Begins(n, "resume", NoNode, r, ovs)
  <2> DEFINE f == Effective(r, ovs[n])
  <2>1. ~Before(n).on /\ Get(n, f) \in Calls
    BY <1>1, <1>2, StartSides
  <2>2. CASE f.on
    <3>1. PICK nc \in Calls : nc = Get(n, f)
      BY <2>1
    <3>2. CallShape(n, nc)'
      BY <1>1, <1>2, <2>1, <2>2, <3>1, FirstShapes
    <3>3. QED
      BY <2>2, <3>1, <3>2, DoneIsNoCall DEF Begins, FirstCall
  <2>3. CASE ~f.on
    <3>1. \A s \in Slots : s[1] = n => Expected(r, ovs, s) = Old(s)
      BY <1>1, <1>2, <2>1, <2>3, StartSides
    <3>2. QED
      BY <2>3, <3>1 DEF Begins, FirstCall
  <2>4. QED
    BY <2>2, <2>3
<1>5. QED
  BY <1>1, <1>2, <1>3, <1>4, StartStep

\* A change of an override begins in order.
LEMMA BeginOverrideStep ==
    ASSUME IInv, BeginOverride
    PROVE  IInv'
<1>1. PICK m \in Nodes : \E o \in Overrides \ {ovs[m]} :
        Start("override", row, [ovs EXCEPT ![m] = o], m)
  BY DEF BeginOverride
<1>2. PICK os \in [Nodes -> Overrides] :
        /\ Start("override", row, os, m)
        /\ \A n \in Nodes \ {m} : os[n] = ovs[n]
  <2>1. PICK o \in Overrides : Start("override", row, [ovs EXCEPT ![m] = o], m)
    BY <1>1
  <2>2. /\ [ovs EXCEPT ![m] = o] \in [Nodes -> Overrides]
        /\ \A n \in Nodes \ {m} : [ovs EXCEPT ![m] = o][n] = ovs[n]
    BY DEF IInv, TypeOK
  <2>3. QED
    BY <2>1, <2>2
<1>3. row \in Rows /\ "override" \in Ops
  BY DEF IInv, TypeOK, Ops
<1>4. TxShape'
  BY <1>2, <1>3 DEF TxShape, Start
<1>5. ASSUME NEW n \in Nodes
      PROVE  Begins(n, "override", m, row, os)
  <2> DEFINE e == Before(n)
             f == Effective(row, os[n])
  <2>1. /\ e.on \in BOOLEAN /\ f.on \in BOOLEAN
        /\ Get(n, e) \in Calls /\ Get(n, f) \in Calls
        /\ \A s \in Slots : s[1] = n =>
             /\ Old(s) = IF e.on /\ s = At(n, e) THEN Ui(e.body) ELSE Empty
             /\ Expected(row, os, s) = IF f.on /\ s = At(n, f) THEN Ui(f.body) ELSE Empty
    BY <1>2, <1>3, StartSides
  <2>2. CASE n # m
    <3>1. \A s \in Slots : s[1] = n => Expected(row, os, s) = Old(s)
      BY <1>2, <2>2 DEF Expected, Old
    <3>2. m \notin {n, NoNode}
      BY <2>2, PlacementAssumption
    <3>3. QED
      BY <3>1, <3>2 DEF Begins, FirstCall
  <2>3. CASE n = m /\ (e.on \/ f.on)
    <3>1. PICK nc \in Calls :
            \/ e.on /\ nc = Get(n, e)
            \/ ~e.on /\ f.on /\ nc = Get(n, f)
      BY <2>1, <2>3
    <3>2. CallShape(n, nc)'
      <4>1. Start("override", row, os, n) /\ n \in Nodes \union {NoNode}
        BY <1>2, <2>3
      <4>2. QED
        BY <1>3, <3>1, <4>1, FirstShapes
    <3>3. nc.verb # "POST"
      BY <3>1 DEF Get
    <3>4. nc = FirstCall("override", m, n, e, f)
      BY <2>3, <3>1 DEF FirstCall
    <3>5. QED
      BY <3>2, <3>3, <3>4, DoneIsNoCall DEF Begins
  <2>4. CASE n = m /\ ~e.on /\ ~f.on
    <3>1. \A s \in Slots : s[1] = n => Expected(row, os, s) = Old(s)
      BY <2>1, <2>4
    <3>2. QED
      BY <2>4, <3>1 DEF Begins, FirstCall
  <2>5. QED
    BY <2>1, <2>2, <2>3, <2>4
<1>6. QED
  BY <1>2, <1>3, <1>4, <1>5, StartStep

\* A resend begins in order.
LEMMA BeginResendStep ==
    ASSUME IInv, BeginResend
    PROVE  IInv'
<1>1. PICK m \in Nodes : Start("resend", row, ovs, m)
  BY DEF BeginResend
<1>2. row \in Rows /\ ovs \in [Nodes -> Overrides] /\ "resend" \in Ops
  BY DEF IInv, TypeOK, Ops
<1>3. TxShape'
  BY <1>1 DEF TxShape, Start
<1>4. ASSUME NEW n \in Nodes
      PROVE  Begins(n, "resend", m, row, ovs)
  <2>1. CASE n # m
    <3>1. \A s \in Slots : s[1] = n => Expected(row, ovs, s) = Old(s)
      BY DEF Old
    <3>2. m \notin {n, NoNode}
      BY <2>1, PlacementAssumption
    <3>3. QED
      BY <3>1, <3>2 DEF Begins, FirstCall
  <2>2. CASE n = m
    <3>1. PICK nc \in Calls : nc = Get(n, Before(n))
      BY <1>1, <1>2, StartSides
    <3>2. CallShape(n, nc)'
      BY <1>1, <1>2, <2>2, <3>1, FirstShapes
    <3>3. QED
      BY <2>2, <3>1, <3>2, DoneIsNoCall DEF Begins, FirstCall
  <2>3. QED
    BY <2>1, <2>2
<1>5. QED
  BY <1>1, <1>2, <1>3, <1>4, StartStep

(***************************************************************************)
(* The theorems.                                                           *)
(***************************************************************************)
LEMMA InitInv ==
    ASSUME Init
    PROVE  IInv
<1>1. /\ row = NoRow /\ ovs = NoOvs /\ tx = NoTx
      /\ call = [n \in Nodes |-> Done] /\ undo = [n \in Nodes |-> {}]
      /\ tail = {} /\ orphans = {} /\ suspect = {} /\ raced = {}
      /\ live \in [Slots -> {Empty} \union Foreign]
  BY DEF Init
<1>2. NoRow \in Rows /\ NoOvs \in [Nodes -> Overrides] /\ NoTx \in Txs
  BY PlacementAssumption DEF Rows, NoOvs, Txs
<1>3. live \in [Slots -> Live]
  BY <1>1 DEF Live, Wanted
<1>4. TypeOK
  BY <1>1, <1>2, <1>3 DEF TypeOK
<1>5. OrphansSuspect /\ TailInv
  BY <1>1 DEF OrphansSuspect, TailInv, SlotsOf
<1>6. TxShape
  BY <1>1 DEF TxShape, NoTx
<1>7. ASSUME NEW s \in Slots
      PROVE  Matches(s)
  <2>1. s[1] \in Nodes /\ ~row.on
    BY <1>1, <1>7, SlotFields DEF NoRow
  <2>2. Expected(row, ovs, s) = Empty
    <3>1. ~Effective(row, ovs[s[1]]).on
      BY <2>1 DEF Effective
    <3>2. QED
      BY <1>1, <1>2, <3>1, ExpectedAt
  <2>3. live[s].origin # "ui"
    BY <1>1, LiveKinds DEF Foreign
  <2>4. QED
    BY <2>2, <2>3, AgreesKinds DEF Matches
<1>8. IdleInv
  BY <1>1, <1>7 DEF IdleInv
<1>9. QED
  BY <1>1, <1>4, <1>5, <1>6, <1>8 DEF IInv

\* A stuttering step keeps the invariant.
LEMMA StutterInv ==
    ASSUME IInv, UNCHANGED vars
    PROVE  IInv'
<1>1. UNCHANGED <<row, ovs, live, tx, call, undo, tail, orphans, suspect, raced>>
  BY DEF vars
<1>2. TypeOK' /\ OrphansSuspect' /\ TxShape'
  BY <1>1 DEF IInv, TypeOK, OrphansSuspect, TxShape
<1>3. CASE tx = NoTx
  BY <1>1, <1>2, <1>3, OutsideFrame
<1>4. CASE tx # NoTx
  BY <1>1, <1>2, <1>4, OutsideFrame
<1>5. QED
  BY <1>3, <1>4

\* Every step of the system keeps the invariant.
LEMMA NextInv ==
    ASSUME IInv, [Next]_vars
    PROVE  IInv'
<1>1. CASE Begin
  BY <1>1, BeginAddStep, BeginEditStep, BeginDeleteStep, BeginPauseStep,
     BeginResumeStep, BeginOverrideStep, BeginResendStep DEF Begin
<1>2. CASE \E n \in Nodes : NodeStep(n)
  BY <1>2, NodeReplies, UndoStep, UndoLostStep DEF NodeStep
<1>3. CASE EndStep
  BY <1>3, RollbackStep, CommitStep, CommitFailsStep DEF EndStep
<1>4. CASE TailStep
  BY <1>4, TailUndoStep, TailLostStep DEF TailStep
<1>5. CASE OrphanLands
  BY <1>5, OrphanLandsStep
<1>6. CASE Crash
  BY <1>6, CrashStep
<1>7. CASE \E n \in Nodes : Restart(n)
  BY <1>7, RestartStep
<1>8. CASE \E s \in Slots : External(s)
  BY <1>8, ExternalStep
<1>9. CASE UNCHANGED vars
  BY <1>9, StutterInv
<1>10. QED
  BY <1>1, <1>2, <1>3, <1>4, <1>5, <1>6, <1>7, <1>8, <1>9 DEF Next

\* The inductive invariant holds for any set of nodes, addresses, bodies and
\* overrides, under every combination of faults.
THEOREM Inductive == Spec => []IInv
<1>1. Init => IInv
  BY InitInv
<1>2. IInv /\ [Next]_vars => IInv'
  BY NextInv
<1>3. QED
  BY <1>1, <1>2, PTL DEF Spec

\* Every variable stays in its type (withTransaction, applyToNodes).
THEOREM TypeCorrect == Spec => []TypeOK
<1>1. IInv => TypeOK
  BY DEF IInv
<1>2. QED
  BY <1>1, Inductive, PTL

\* Between transactions every listener without suspicion runs exactly what the
\* database says (withTransaction, applyToNodes and the undo of each operation).
THEOREM Accounted == Spec => []DivergenceAccounted
<1>1. IInv => DivergenceAccounted
  BY DEF IInv, IdleInv, DivergenceAccounted, SlotsOf
<1>2. QED
  BY <1>1, Inductive, PTL

(***************************************************************************)
(* Rules of others are spared.                                             *)
(***************************************************************************)

\* A call that changes or deletes a rule is only made where no rule of an API
\* client was, unless somebody has changed the listener since.
Checked(c) ==
    c.verb \in {"DELETE", "PATCH"} /\ c.slot \notin raced => live[c.slot].origin # "api"

\* The calls and undo calls of a node are checked; a move has checked the listener
\* it stops before it asks for the one it starts.
NodeApi(n) ==
    /\ call[n] \in Calls => Checked(call[n])
    /\ \A c \in undo[n] : Checked(c)
    /\ Moving(n) /\ call[n] = Get(n, After(n)) /\ At(n, Before(n)) \notin raced
       => live[At(n, Before(n))].origin # "api"

\* So is the undo after a failed COMMIT.
ApiInv ==
    /\ \A n \in Nodes : NodeApi(n)
    /\ \A c \in tail : Checked(c)

\* What a reply goes on with: a change follows a check of its listener, and the
\* undo a change of it.
LEMMA ReplyFollows ==
    ASSUME IInv, NEW n \in Nodes, NEW c, NEW a, StepOf(n, c, a)
    PROVE  /\ call'[n] \in Calls /\ call'[n].verb \in {"DELETE", "PATCH"} =>
                /\ c.verb = "GET" /\ a.now.origin # "api"
                /\ \/ call'[n].slot = c.slot
                   \/ Moving(n) /\ c = Get(n, After(n)) /\ call'[n].slot = At(n, Before(n))
           /\ Moving(n) /\ call'[n] = Get(n, After(n)) =>
                c.verb = "GET" /\ c.slot = At(n, Before(n)) /\ a.now.origin # "api"
           /\ \A d \in undo'[n] : d.verb \in {"DELETE", "PATCH"} =>
                /\ d.slot = c.slot
                /\ c.verb = "PATCH" \/ (c.verb = "POST" /\ a.code = "ok")
<1>1. /\ CallShape(n, c) /\ c \in Calls /\ tx # NoTx /\ tx.op \in Ops /\ Reply(n, c, a)
      /\ call \in [Nodes -> Calls \union {Done, Failed}] /\ undo \in [Nodes -> SUBSET Calls]
  BY StepFacts DEF StepOf, TypeOK, Txs
<1>2. PICK e, f : e = Before(n) /\ f = After(n)
  OBVIOUS
<1>3. PICK nc, U : nc = call'[n] /\ U = undo'[n]
  OBVIOUS
<1>4. \A s, V : Settle(n, s, V) => nc = s /\ U = V
  BY <1>1, <1>3 DEF Settle
<1>5. /\ \A x : /\ Get(n, x).verb = "GET" /\ Get(n, x).slot = At(n, x)
                /\ Post(n, x).verb = "POST" /\ Post(n, x).slot = At(n, x)
                /\ Delete(n, x).verb = "DELETE" /\ Delete(n, x).slot = At(n, x)
      /\ \A x, w : Patch(n, x, w).verb = "PATCH" /\ Patch(n, x, w).slot = At(n, x)
  BY DEF Get, Post, Delete, Patch
<1>6. Done \notin Calls /\ Failed \notin Calls
  BY DoneIsNoCall
<1>7. Moving(n) => tx.op = "override" /\ At(n, e) # At(n, f)
  BY <1>2 DEF Moving, At
<1>8. c.verb = "GET" => a.now = live[c.slot]
  BY GetOutcome DEF StepOf
<1> DEFINE Changes(d) == d \in Calls /\ d.verb \in {"DELETE", "PATCH"}
           Asked == c.verb = "GET" /\ a.now.origin # "api"
<1> SUFFICES
      /\ Changes(nc) => Asked /\ (nc.slot = c.slot
                                  \/ (Moving(n) /\ c = Get(n, f) /\ nc.slot = At(n, e)))
      /\ Moving(n) /\ nc = Get(n, f) => Asked /\ c.slot = At(n, e)
      /\ \A d \in U : d.verb \in {"DELETE", "PATCH"} =>
           /\ d.slot = c.slot
           /\ c.verb = "PATCH" \/ (c.verb = "POST" /\ a.code = "ok")
  BY <1>2, <1>3
<1>9. CASE tx.op = "add"
  <2>1. AddReply(n, c, a) /\ c = Post(n, f)
    BY <1>1, <1>2, <1>9 DEF Reply, CallShape
  <2>2. nc \notin Calls /\ (U = {} \/ (U = {Delete(n, f)} /\ a.code = "ok"))
    BY <1>2, <1>4, <1>6, <2>1 DEF AddReply, Fail
  <2>3. QED
    BY <1>5, <1>7, <1>9, <2>1, <2>2
<1>10. CASE tx.op = "edit"
  <2>1. /\ EditReply(n, c, a) /\ e.on /\ f.on /\ At(n, e) = At(n, f)
        /\ c \in {Get(n, f), Patch(n, f, e.body), Post(n, f)}
    BY <1>1, <1>2, <1>10 DEF Reply, CallShape, At
  <2>2. \/ nc \notin Calls /\ U = {}
        \/ c.verb = "GET" /\ ~Shadowing(a.now) /\ nc = Patch(n, f, e.body) /\ U = {}
        \/ c.verb = "PATCH" /\ nc \notin Calls /\ U = {Patch(n, e, f.body)}
        \/ nc = Post(n, f) /\ U = {}
        \/ c.verb = "POST" /\ a.code = "ok" /\ nc \notin Calls /\ U = {Delete(n, f)}
    BY <1>2, <1>4, <1>6, <2>1 DEF EditReply, Fail, Then
  <2>3. QED
    BY <1>5, <1>7, <1>10, <2>1, <2>2 DEF Shadowing
<1>11. CASE tx.op \in {"delete", "pause"}
  <2>1. RemoveReply(n, c, a) /\ c \in {Get(n, e), Delete(n, e)}
    BY <1>1, <1>2, <1>11 DEF Reply, CallShape
  <2>2. \/ nc \notin Calls /\ (U = {} \/ U = {Post(n, e)})
        \/ c.verb = "GET" /\ ~Shadowing(a.now) /\ nc = Delete(n, e) /\ U = {}
    BY <1>2, <1>4, <1>6, <2>1 DEF RemoveReply, Fail, Then
  <2>3. QED
    BY <1>5, <1>7, <1>11, <2>1, <2>2 DEF Shadowing
<1>12. CASE tx.op = "resume"
  <2>1. ResumeReply(n, c, a) /\ c \in {Get(n, f), Post(n, f)}
    BY <1>1, <1>2, <1>12 DEF Reply, CallShape
  <2>2. \/ nc \notin Calls /\ U = {}
        \/ nc = Post(n, f) /\ U = {}
        \/ c.verb = "POST" /\ a.code = "ok" /\ nc \notin Calls /\ U = {Delete(n, f)}
    BY <1>2, <1>4, <1>6, <2>1 DEF ResumeReply, Fail, Then
  <2>3. QED
    BY <1>5, <1>7, <1>12, <2>1, <2>2
<1>13. CASE tx.op = "override"
  <2> DEFINE moving == e.on /\ f.on /\ e.addr # f.addr
  <2>0. moving <=> Moving(n)
    BY <1>2, <1>13 DEF Moving
  <2>1. /\ OverrideReply(n, c, a)
        /\ \/ e.on /\ c = Get(n, e)
           \/ f.on /\ (~e.on \/ Moving(n)) /\ c = Get(n, f)
           \/ c = Post(n, f)
           \/ e.on /\ (~f.on \/ Moving(n)) /\ c = Delete(n, e)
           \/ Moving(n) /\ c = Post(n, e)
           \/ e.on /\ f.on /\ ~Moving(n) /\ c = Patch(n, f, e.body)
    BY <1>1, <1>2, <1>13 DEF Reply, CallShape
  <2>2. \/ nc \notin Calls /\ (U = {} \/ U = {Post(n, e)})
        \/ /\ c.verb = "GET" /\ ~Shadowing(a.now) /\ U = {}
           /\ nc = IF moving /\ c.slot = At(n, e) THEN Get(n, f) ELSE ChangeCall(n)
        \/ nc \in {Post(n, f), Post(n, e)} /\ U = {}
        \/ c.verb = "PATCH" /\ nc \notin Calls /\ U = {Patch(n, e, f.body)}
        \/ /\ c.verb = "POST" /\ c.slot = At(n, f) /\ a.code = "ok" /\ nc \notin Calls
           /\ U \subseteq {Delete(n, f), Post(n, e)}
    <3>1. \/ /\ c.verb = "GET" /\ a.code = "ok" /\ Shadowing(a.now)
             /\ Then(n, IF f.on THEN Failed ELSE Done)
          \/ /\ c.verb = "GET" /\ a.code = "ok" /\ ~Shadowing(a.now)
             /\ Then(n, IF moving /\ c.slot = At(n, e) THEN Get(n, f) ELSE ChangeCall(n))
          \/ /\ c.verb = "DELETE"
             /\ IF moving THEN Then(n, Post(n, f)) ELSE Settle(n, Done, {Post(n, e)})
          \/ c.verb = "PATCH" /\ a.code = "ok" /\ Settle(n, Done, {Patch(n, e, f.body)})
          \/ c.verb = "PATCH" /\ a.code = "missing" /\ Then(n, Post(n, f))
          \/ /\ c.verb = "POST" /\ c.slot = At(n, f) /\ a.code = "ok"
             /\ Settle(n, Done, {Delete(n, f)} \union IF moving THEN {Post(n, e)} ELSE {})
          \/ /\ c.verb = "POST" /\ c.slot = At(n, f) /\ a.code # "ok"
             /\ Then(n, IF moving THEN Post(n, e) ELSE Failed)
          \/ Fail(n)
      BY <1>2, <2>1 DEF OverrideReply
    <3>2. QED
      BY <1>4, <1>6, <3>1 DEF Fail, Then
  <2>3. CASE /\ c.verb = "GET" /\ ~Shadowing(a.now) /\ U = {}
             /\ nc = IF moving /\ c.slot = At(n, e) THEN Get(n, f) ELSE ChangeCall(n)
    <3>1. CASE moving /\ c.slot = At(n, e)
      BY <1>5, <2>3, <3>1 DEF Shadowing
    <3>2. CASE ~(moving /\ c.slot = At(n, e))
      <4>1. \/ ~e.on /\ nc = Post(n, f)
            \/ e.on /\ (~f.on \/ e.addr # f.addr) /\ nc = Delete(n, e)
            \/ e.on /\ f.on /\ e.addr = f.addr /\ nc = Patch(n, f, e.body)
        BY <1>2, <2>3, <3>2 DEF ChangeCall
      <4>2. c = Get(n, e) \/ (~e.on /\ c = Get(n, f)) \/ (Moving(n) /\ c = Get(n, f))
        BY <1>5, <2>1, <2>3
      <4>3. e.addr = f.addr => At(n, e) = At(n, f)
        BY DEF At
      <4>4. nc.verb # "GET"
        BY <1>5, <4>1
      <4>5. QED
        BY <1>5, <2>0, <2>3, <3>2, <4>1, <4>2, <4>3, <4>4 DEF Shadowing
    <3>3. QED
      BY <3>1, <3>2
  <2>4. CASE c.verb = "PATCH" /\ nc \notin Calls /\ U = {Patch(n, e, f.body)}
    <3>1. e.on /\ f.on /\ ~Moving(n) /\ c = Patch(n, f, e.body)
      BY <1>5, <2>1, <2>4
    <3>2. At(n, e) = At(n, f)
      BY <2>0, <3>1 DEF At
    <3>3. nc # Get(n, f) \/ ~Moving(n)
      BY <3>1
    <3>4. QED
      BY <1>5, <2>4, <3>1, <3>2, <3>3
  <2>5. Get(n, f) \in Calls
    BY <1>2, Sides, CallTypes DEF IInv
  <2>6. QED
    BY <1>5, <2>2, <2>3, <2>4, <2>5
<1>14. CASE tx.op = "resend"
  <2>1. /\ ResendReply(n, c, a)
        /\ c.slot = At(n, e)
    BY <1>1, <1>2, <1>5, <1>14 DEF Reply, CallShape
  <2>2. /\ U = {}
        /\ \/ nc \notin Calls
           \/ nc = Post(n, e)
           \/ c.verb = "GET" /\ a.now.origin = "ui" /\ nc = Delete(n, e)
           \/ /\ c.verb = "GET" /\ a.now.origin = "ui"
              /\ nc = Patch(n, e, a.now.body)
    BY <1>2, <1>4, <1>6, <2>1 DEF ResendReply, Fail, Then
  <2>3. QED
    BY <1>5, <1>7, <1>14, <2>1, <2>2
<1>15. QED
  BY <1>1, <1>9, <1>10, <1>11, <1>12, <1>13, <1>14 DEF Ops

\* No call of the UI makes a rule of an API client.
MakesNoApi == \A s \in Slots : live'[s].origin = "api" => live[s].origin = "api"

\* Which outcome of a call leaves what on its listener.
LEMMA CallMakesNoApi ==
    ASSUME TypeOK, NEW c \in Calls, NEW a \in Outcomes(c, live[c.slot]),
           live' = [live EXCEPT ![c.slot] = a.now]
    PROVE  /\ MakesNoApi /\ c.slot \in Slots
           /\ \A s \in Slots : s # c.slot => live'[s] = live[s]
           /\ live[c.slot].origin = "api" /\ ~(c.verb \in {"DELETE", "PATCH"})
              => live'[c.slot] = live[c.slot]
           /\ c.verb = "POST" /\ a.code = "ok" => live'[c.slot].origin # "api"
           /\ c.verb = "GET" => live'[c.slot] = live[c.slot] /\ a.now = live[c.slot]
<1>1. c.slot \in Slots /\ live \in [Slots -> Live] /\ live[c.slot] \in Live
  BY CallFields DEF TypeOK
<1>2. live'[c.slot] = a.now /\ \A s \in Slots : s # c.slot => live'[s] = live[s]
  BY <1>1
<1>3. Empty.origin = "none" /\ Ui(c.body).origin = "ui"
  BY LiveKinds DEF Ui
<1>4. CASE c.verb = "GET"
  BY <1>1, <1>2, <1>4, GetOutcome DEF MakesNoApi
<1>5. CASE c.verb = "POST"
  BY <1>1, <1>2, <1>3, <1>5, PostOutcome DEF MakesNoApi
<1>6. CASE c.verb = "DELETE"
  BY <1>1, <1>2, <1>3, <1>6, DeleteOutcome DEF MakesNoApi
<1>7. CASE c.verb = "PATCH"
  BY <1>1, <1>2, <1>7, PatchOutcome DEF MakesNoApi
<1>8. QED
  BY <1>4, <1>5, <1>6, <1>7, CallFields

\* A checked call stays so unless somebody else makes a rule on its listener.
Guarded == \A s \in Slots :
    s \notin raced' => s \notin raced /\ (live'[s].origin = "api" => live[s].origin = "api")

\* What Guarded is for: a call that was checked stays so.
LEMMA CheckedStays ==
    ASSUME Guarded, NEW CONSTANT c \in Calls, Checked(c)
    PROVE  Checked(c)'
BY CallFields DEF Guarded, Checked

\* A node that makes no new call stays checked.
LEMMA NodeApiStays ==
    ASSUME IInv, NEW m \in Nodes, NodeApi(m), UNCHANGED <<row, ovs, tx>>, Guarded,
           call'[m] = call[m], undo'[m] \subseteq undo[m]
    PROVE  NodeApi(m)'
<1>1. /\ Before(m)' = Before(m) /\ After(m)' = After(m) /\ Moving(m)' = Moving(m)
      /\ At(m, Before(m)) \in Slots
  BY Sides, CallTypes DEF IInv, Before, After, Moving
<1>2. PICK c : c = call[m]
  OBVIOUS
<1>3. c \in Calls => Checked(c)'
  BY <1>2, CheckedStays DEF NodeApi
<1>4. ASSUME NEW d \in undo'[m]
      PROVE  Checked(d)'
  <2>1. PICK x : x = d
    OBVIOUS
  <2>2. x \in Calls /\ Checked(x)
    BY <1>4, <2>1 DEF NodeApi, IInv, TypeOK
  <2>3. QED
    BY <2>1, <2>2, CheckedStays
<1>5. Moving(m)' /\ call'[m] = Get(m, After(m)') /\ At(m, Before(m)') \notin raced'
      => live'[At(m, Before(m)')].origin # "api"
  BY <1>1 DEF NodeApi, Guarded
<1>6. QED
  BY <1>2, <1>3, <1>4, <1>5 DEF NodeApi

\* So do the calls of a request that has already answered.
LEMMA TailApiStays ==
    ASSUME IInv, \A c \in tail : Checked(c), Guarded, tail' \subseteq tail
    PROVE  \A c \in tail' : Checked(c)'
<1>1. ASSUME NEW d \in tail'
      PROVE  Checked(d)'
  <2>1. PICK x : x = d
    OBVIOUS
  <2>2. x \in Calls /\ Checked(x)
    BY <1>1, <2>1 DEF IInv, TypeOK
  <2>3. QED
    BY <2>1, <2>2, CheckedStays
<1>2. QED
  BY <1>1

\* A step that makes no new calls.
LEMMA ApiFrame ==
    ASSUME IInv, ApiInv, UNCHANGED <<row, ovs, tx, call>>, Guarded, tail' \subseteq tail,
           \A m \in Nodes : undo'[m] \subseteq undo[m]
    PROVE  ApiInv'
BY NodeApiStays, TailApiStays DEF ApiInv

\* A reply leaves the calls of its node checked.
LEMMA ApiReply ==
    ASSUME IInv, ApiInv, NEW n \in Nodes, Answered(n) \/ Refused(n) \/ TimedOut(n)
    PROVE  ApiInv'
<1>1. PICK a : StepOf(n, call[n], a)
  BY AsStep
<1>2. PICK c : c = call[n]
  OBVIOUS
<1>3. /\ TypeOK /\ c \in Calls /\ tx # NoTx /\ tail = {} /\ UNCHANGED <<row, ovs, tx, tail, raced>>
      /\ a \in Outcomes(c, live[c.slot]) /\ live' = [live EXCEPT ![c.slot] = a.now]
      /\ Checked(c)
  BY <1>1, <1>2 DEF StepOf, IInv, TailInv, ApiInv, NodeApi
<1>4. /\ MakesNoApi /\ c.slot \in Slots
      /\ c.verb = "POST" /\ a.code = "ok" => live'[c.slot].origin # "api"
      /\ c.verb = "GET" => live'[c.slot] = live[c.slot] /\ a.now = live[c.slot]
  BY <1>3, CallMakesNoApi
<1>5. Guarded
  BY <1>3, <1>4 DEF Guarded, MakesNoApi
<1>6. \A m \in Nodes : m # n => call'[m] = call[m] /\ undo'[m] = undo[m]
  <2>1. PICK nc, U : Settle(n, nc, U)
    BY <1>1, ReplySettles DEF StepOf
  <2>2. QED
    BY <1>3, <2>1 DEF Settle, TypeOK
<1>7. ASSUME NEW m \in Nodes, m # n
      PROVE  NodeApi(m)'
  BY <1>3, <1>5, <1>6, <1>7, NodeApiStays DEF ApiInv
<1>8. NodeApi(n)'
  <2>1. /\ call'[n] \in Calls /\ call'[n].verb \in {"DELETE", "PATCH"} =>
             /\ c.verb = "GET" /\ a.now.origin # "api"
             /\ \/ call'[n].slot = c.slot
                \/ Moving(n) /\ c = Get(n, After(n)) /\ call'[n].slot = At(n, Before(n))
        /\ Moving(n) /\ call'[n] = Get(n, After(n)) =>
             c.verb = "GET" /\ c.slot = At(n, Before(n)) /\ a.now.origin # "api"
        /\ \A d \in undo'[n] : d.verb \in {"DELETE", "PATCH"} =>
             /\ d.slot = c.slot
             /\ c.verb = "PATCH" \/ (c.verb = "POST" /\ a.code = "ok")
    BY <1>1, <1>2, ReplyFollows
  <2>2. /\ Before(n)' = Before(n) /\ After(n)' = After(n) /\ Moving(n)' = Moving(n)
        /\ At(n, Before(n)) \in Slots
    BY <1>3, Sides, CallTypes DEF Before, After, Moving
  <2>3. call'[n] \in Calls => Checked(call[n])'
    <3>1. CASE call'[n] \in Calls /\ call'[n].verb \in {"DELETE", "PATCH"}
      <4>1. CASE call'[n].slot = c.slot
        BY <1>4, <2>1, <3>1, <4>1 DEF Checked
      <4>2. CASE Moving(n) /\ c = Get(n, After(n)) /\ call'[n].slot = At(n, Before(n))
        <5>1. At(n, Before(n)) \notin raced => live[At(n, Before(n))].origin # "api"
          BY <1>2, <4>2 DEF ApiInv, NodeApi
        <5>2. QED
          BY <1>3, <1>4, <2>2, <4>2, <5>1 DEF Checked, MakesNoApi
      <4>3. QED
        BY <2>1, <3>1, <4>1, <4>2
    <3>2. QED
      BY <3>1 DEF Checked
  <2>4. ASSUME NEW d \in undo'[n]
        PROVE  Checked(d)'
    <3>1. CASE d.verb \in {"DELETE", "PATCH"}
      <4>1. /\ d.slot = c.slot
            /\ c.verb = "PATCH" \/ (c.verb = "POST" /\ a.code = "ok")
        BY <2>1, <3>1
      <4>2. CASE c.verb = "PATCH"
        BY <1>3, <1>4, <4>1, <4>2 DEF Checked, MakesNoApi
      <4>3. CASE c.verb = "POST" /\ a.code = "ok"
        BY <1>4, <4>1, <4>3 DEF Checked
      <4>4. QED
        BY <4>1, <4>2, <4>3
    <3>2. QED
      BY <3>1 DEF Checked
  <2>5. Moving(n)' /\ call'[n] = Get(n, After(n)') /\ At(n, Before(n)') \notin raced'
        => live'[At(n, Before(n)')].origin # "api"
    BY <1>4, <2>1, <2>2
  <2>6. QED
    BY <2>3, <2>4, <2>5 DEF NodeApi
<1>9. \A d \in tail' : Checked(d)'
  BY <1>3
<1>10. QED
  BY <1>7, <1>8, <1>9 DEF ApiInv

\* The first calls of an operation only ask, or make a rule.
LEMMA ApiBegin ==
    ASSUME IInv, Begin
    PROVE  ApiInv'
<1>1. PICK op \in Ops : \E r, os, m : Start(op, r, os, m)
  <2>1. CASE BeginAdd
    <3>1. \E r, os, m : Start("add", r, os, m)
      BY <2>1 DEF BeginAdd
    <3>2. QED
      BY <3>1 DEF Ops
  <2>2. CASE BeginEdit
    <3>1. \E r, os, m : Start("edit", r, os, m)
      BY <2>2 DEF BeginEdit
    <3>2. QED
      BY <3>1 DEF Ops
  <2>3. CASE BeginDelete
    <3>1. \E r, os, m : Start("delete", r, os, m)
      BY <2>3 DEF BeginDelete
    <3>2. QED
      BY <3>1 DEF Ops
  <2>4. CASE BeginPause
    <3>1. \E r, os, m : Start("pause", r, os, m)
      BY <2>4 DEF BeginPause
    <3>2. QED
      BY <3>1 DEF Ops
  <2>5. CASE BeginResume
    <3>1. \E r, os, m : Start("resume", r, os, m)
      BY <2>5 DEF BeginResume
    <3>2. QED
      BY <3>1 DEF Ops
  <2>6. CASE BeginOverride
    <3>1. \E r, os, m : Start("override", r, os, m)
      BY <2>6 DEF BeginOverride
    <3>2. QED
      BY <3>1 DEF Ops
  <2>7. CASE BeginResend
    <3>1. \E r, os, m : Start("resend", r, os, m)
      BY <2>7 DEF BeginResend
    <3>2. QED
      BY <3>1 DEF Ops
  <2>8. QED
    BY <2>1, <2>2, <2>3, <2>4, <2>5, <2>6, <2>7 DEF Begin
<1> PICK r, os, m : Start(op, r, os, m)
  BY <1>1
<1>2. /\ tail' = {} /\ \A n \in Nodes : undo'[n] = {}
      /\ tx' = [op |-> op, row |-> r, ovs |-> os, node |-> m] /\ UNCHANGED <<row, ovs>>
      /\ \A n \in Nodes : call'[n] = FirstCall(op, m, n, Before(n), Effective(r, os[n]))
  BY DEF Start
<1>3. ASSUME NEW n \in Nodes
      PROVE  NodeApi(n)'
  <2>1. PICK e, f : e = Before(n) /\ f = Effective(r, os[n])
    OBVIOUS
  <2>2. /\ call'[n] = FirstCall(op, m, n, e, f) /\ Before(n)' = e /\ After(n)' = f
        /\ tx'.op = op
    BY <1>2, <2>1 DEF Before, After
  <2>3. call'[n] \in {Done, Post(n, f), Get(n, f), Get(n, e)}
    BY <2>2 DEF FirstCall, Ops
  <2>4. Done \notin Calls /\ Get(n, f).verb = "GET" /\ Get(n, e).verb = "GET"
        /\ Post(n, f).verb = "POST"
    BY DoneIsNoCall DEF Get, Post
  <2>5. call'[n] \in Calls => Checked(call[n])'
    BY <2>3, <2>4 DEF Checked
  <2>6. ~(Moving(n)' /\ call'[n] = Get(n, After(n)'))
    <3>1. SUFFICES ASSUME Moving(n)', call'[n] = Get(n, f)
                   PROVE  FALSE
      BY <2>2
    <3>2. op = "override" /\ e.on /\ e.addr # f.addr
      BY <2>2, <3>1 DEF Moving
    <3>3. call'[n] = Done \/ call'[n] = Get(n, e)
      BY <2>2, <3>2 DEF FirstCall
    <3>4. Done # Get(n, f)
      BY DEF Done, Get
    <3>5. Get(n, e) # Get(n, f)
      BY <3>2 DEF Get, At
    <3>6. QED
      BY <3>1, <3>3, <3>4, <3>5
  <2>7. QED
    BY <1>2, <2>5, <2>6 DEF NodeApi
<1>4. QED
  BY <1>2, <1>3 DEF ApiInv

\* At the end of a transaction nothing is left but the undo after a failed COMMIT.
LEMMA ApiEnd ==
    ASSUME IInv, ApiInv, EndStep \/ Crash
    PROVE  ApiInv'
<1>1. EndTx /\ UNCHANGED live
  BY DEF EndStep, Rollback, Commit, CommitFails, Crash
<1>2. ASSUME NEW n \in Nodes
      PROVE  NodeApi(n)'
  <2>1. call'[n] = Done /\ undo'[n] = {} /\ tx' = NoTx
    BY <1>1 DEF EndTx
  <2>2. ~Moving(n)'
    BY <2>1 DEF Moving, NoTx
  <2>3. QED
    BY <2>1, <2>2, DoneIsNoCall DEF NodeApi
<1>3. \A c \in tail' : Checked(c)'
  <2>1. CASE CommitFails
    <3>1. tail' = UNION {undo[n] : n \in Nodes} /\ UNCHANGED <<live, raced>>
      BY <2>1 DEF CommitFails
    <3>2. \A c \in tail' : Checked(c)
      BY <3>1 DEF ApiInv, NodeApi
    <3>3. QED
      BY <3>1, <3>2 DEF Checked
  <2>2. CASE Rollback \/ Commit
    <3>1. tail = {} /\ tail' = tail
      BY <2>2 DEF Rollback, Commit, Settled, IInv, TailInv
    <3>2. QED
      BY <3>1
  <2>3. CASE Crash
    BY <2>3 DEF Crash
  <2>4. QED
    BY <2>1, <2>2, <2>3 DEF EndStep
<1>4. QED
  BY <1>2, <1>3 DEF ApiInv

\* What others do makes a listener raced while calls are under way, and there is
\* nothing to guard otherwise.
LEMMA ApiOutside ==
    ASSUME IInv, ApiInv,
           OrphanLands \/ (\E n \in Nodes : Restart(n)) \/ (\E s \in Slots : External(s))
    PROVE  ApiInv'
<1>1. UNCHANGED <<row, ovs, tx, call, undo, tail>> /\ TypeOK
  BY DEF OrphanLands, Restart, External, IInv
<1>2. CASE tx = NoTx /\ tail = {}
  <2>1. \A n \in Nodes : call[n] = Done /\ undo[n] = {}
    BY <1>2 DEF IInv, IdleInv
  <2>2. \A n \in Nodes : ~Moving(n)'
    BY <1>1, <1>2 DEF Moving, NoTx
  <2>3. \A n \in Nodes : NodeApi(n)'
    BY <1>1, <2>1, <2>2, DoneIsNoCall DEF NodeApi
  <2>4. QED
    BY <1>1, <1>2, <2>3 DEF ApiInv
<1>3. CASE tx # NoTx \/ tail # {}
  <2>1. Guarded
    <3>1. CASE OrphanLands
      <4>1. PICK c \in orphans : \E a \in Answers(c, live[c.slot]) :
              live' = [live EXCEPT ![c.slot] = a.now] /\ Race({c.slot})
        BY <3>1 DEF OrphanLands
      <4>2. PICK a \in Answers(c, live[c.slot]) :
              live' = [live EXCEPT ![c.slot] = a.now] /\ Race({c.slot})
        BY <4>1
      <4>3. a \in Outcomes(c, live[c.slot]) /\ c \in Calls
        BY <1>1, <4>1, <4>2 DEF Outcomes, TypeOK
      <4>4. MakesNoApi
        BY <1>1, <4>2, <4>3, CallMakesNoApi
      <4>5. QED
        BY <1>3, <4>2, <4>4 DEF Guarded, Race, MakesNoApi
    <3>2. ASSUME NEW n \in Nodes, Restart(n)
          PROVE  Guarded
      <4>1. /\ live' = [s \in Slots |-> IF s[1] # n \/ live[s] \in Foreign THEN live[s]
                                        ELSE Expected(row, ovs, s)]
            /\ Race({s \in Slots : s[1] = n})
        BY <3>2 DEF Restart
      <4>2. \A s \in Slots : Expected(row, ovs, s).origin \in {"none", "ui"}
        BY DEF Expected, Ui, Empty
      <4>3. QED
        BY <1>3, <4>1, <4>2 DEF Guarded, Race
    <3>3. ASSUME NEW s \in Slots, External(s)
          PROVE  Guarded
      <4>1. PICK v : live' = [live EXCEPT ![s] = v]
        BY <3>3 DEF External
      <4>2. Race({s})
        BY <3>3 DEF External
      <4>3. QED
        BY <1>1, <1>3, <4>1, <4>2 DEF Guarded, Race, TypeOK
    <3>4. QED
      BY <3>1, <3>2, <3>3
  <2>2. QED
    BY <1>1, <2>1, ApiFrame
<1>4. QED
  BY <1>2, <1>3

\* An undo call only goes where it was checked to go.
LEMMA ApiUndo ==
    ASSUME IInv, ApiInv, (\E n \in Nodes : Undo(n) \/ UndoLost(n)) \/ TailStep
    PROVE  ApiInv'
<1>1. TypeOK /\ UNCHANGED <<row, ovs, tx, call, raced>>
  BY DEF IInv, Undo, UndoLost, TailStep, TailUndo, TailLost
<1>2. tail' \subseteq tail /\ \A m \in Nodes : undo'[m] \subseteq undo[m]
  BY <1>1 DEF TypeOK, Undo, UndoLost, TailStep, TailUndo, TailLost
<1>3. UNCHANGED live \/ MakesNoApi
  <2>1. ASSUME NEW c \in Calls, NEW a \in Answers(c, live[c.slot]),
               live' = [live EXCEPT ![c.slot] = a.now]
        PROVE  MakesNoApi
    BY <1>1, <2>1, CallMakesNoApi DEF Outcomes
  <2>2. ASSUME NEW n \in Nodes, Undo(n)
        PROVE  MakesNoApi
    <3>1. PICK c \in Ready(undo[n]) : \E a \in Answers(c, live[c.slot]) :
            live' = [live EXCEPT ![c.slot] = a.now]
      BY <2>2 DEF Undo
    <3>2. c \in Calls
      BY <1>1, <3>1 DEF Ready, TypeOK
    <3>3. QED
      BY <2>1, <3>1, <3>2
  <2>3. ASSUME TailUndo
        PROVE  MakesNoApi
    <3>1. PICK c \in Ready(tail) : \E a \in Answers(c, live[c.slot]) :
            live' = [live EXCEPT ![c.slot] = a.now]
      BY <2>3 DEF TailUndo
    <3>2. c \in Calls
      BY <1>1, <3>1 DEF Ready, TypeOK
    <3>3. QED
      BY <2>1, <3>1, <3>2
  <2>4. QED
    BY <2>2, <2>3 DEF UndoLost, TailStep, TailLost
<1>4. Guarded
  BY <1>1, <1>3 DEF Guarded, MakesNoApi
<1>5. QED
  BY <1>1, <1>2, <1>4, ApiFrame

\* Every step keeps the invariant about rules of API clients.
LEMMA NextApi == IInv /\ ApiInv /\ [Next]_vars => ApiInv'
<1> SUFFICES ASSUME IInv, ApiInv, [Next]_vars PROVE ApiInv'
  OBVIOUS
<1>1. CASE UNCHANGED vars
  <2>1. Guarded /\ UNCHANGED <<row, ovs, tx, call, undo, tail>>
    BY <1>1 DEF vars, Guarded
  <2>2. QED
    BY <2>1, ApiFrame
<1>2. QED
  BY <1>1, ApiReply, ApiBegin, ApiEnd, ApiOutside, ApiUndo DEF Next, NodeStep

\* A step of the UI leaves the rule of an API client alone.
LEMMA ApiSpared ==
    ASSUME IInv, ApiInv, [Next]_vars, NEW s \in Slots, live[s].origin = "api",
           s \notin raced, <<call, undo, tail>>' # <<call, undo, tail>>
    PROVE  live'[s] = live[s]
<1>1. TypeOK
  BY DEF IInv
<1>2. ASSUME NEW c \in Calls, Checked(c), NEW a \in Outcomes(c, live[c.slot]),
             live' = [live EXCEPT ![c.slot] = a.now]
      PROVE  live'[s] = live[s]
  BY <1>1, <1>2, CallMakesNoApi DEF Checked
<1>3. ASSUME NEW n \in Nodes, Answered(n) \/ Refused(n) \/ TimedOut(n)
      PROVE  live'[s] = live[s]
  <2>1. PICK a : StepOf(n, call[n], a)
    BY <1>3, AsStep
  <2>2. QED
    BY <1>2, <2>1 DEF StepOf, ApiInv, NodeApi
<1>4. ASSUME NEW n \in Nodes, Undo(n)
      PROVE  live'[s] = live[s]
  <2>1. PICK c \in Ready(undo[n]) : \E a \in Answers(c, live[c.slot]) :
          live' = [live EXCEPT ![c.slot] = a.now]
    BY <1>4 DEF Undo
  <2>2. c \in Calls /\ Checked(c)
    BY <1>1, <2>1 DEF Ready, TypeOK, ApiInv, NodeApi
  <2>3. QED
    BY <1>2, <2>1, <2>2 DEF Outcomes
<1>5. ASSUME TailUndo
      PROVE  live'[s] = live[s]
  <2>1. PICK c \in Ready(tail) : \E a \in Answers(c, live[c.slot]) :
          live' = [live EXCEPT ![c.slot] = a.now]
    BY <1>5 DEF TailUndo
  <2>2. c \in Calls /\ Checked(c)
    BY <1>1, <2>1 DEF Ready, TypeOK, ApiInv
  <2>3. QED
    BY <1>2, <2>1, <2>2 DEF Outcomes
<1>6. CASE Begin
  BY <1>6 DEF Begin, BeginAdd, BeginEdit, BeginDelete, BeginPause, BeginResume,
              BeginOverride, BeginResend, Start
<1>7. CASE EndStep \/ Crash \/ TailLost \/ \E n \in Nodes : UndoLost(n)
  BY <1>7 DEF EndStep, Rollback, Commit, CommitFails, Crash, TailLost, UndoLost
<1>8. CASE OrphanLands \/ (\E n \in Nodes : Restart(n)) \/ (\E t \in Slots : External(t))
  BY <1>8 DEF OrphanLands, Restart, External
<1>9. CASE UNCHANGED vars
  BY <1>9 DEF vars
<1>10. QED
  BY <1>3, <1>4, <1>5, <1>6, <1>7, <1>8, <1>9 DEF Next, NodeStep, TailStep

\* An operation, its undo included, never changes or deletes a rule of an API
\* client that was on the listener when the operation began (isShadowing and
\* ensureNotShadowed, asked before every change).
THEOREM SparesApiRules == Spec => ApiRulesSpared
<1>1. Init => ApiInv
  BY DoneIsNoCall DEF Init, ApiInv, NodeApi, Moving, NoTx
<1>2. IInv /\ ApiInv /\ [Next]_vars =>
        [\A s \in Slots :
           /\ live[s].origin = "api" /\ s \notin raced
           /\ <<call, undo, tail>>' # <<call, undo, tail>>
           => live'[s] = live[s]]_vars
  BY ApiSpared
<1>3. QED
  BY <1>1, <1>2, NextApi, Inductive, PTL DEF Spec, ApiRulesSpared
=============================================================================

--------------------- MODULE PlacementRefinementProofs ---------------------
(***************************************************************************)
(* RulePlacement keeps the promise of GroupRule, whatever its constants:   *)
(* a commit is an operation of GroupRule, and every other step one that    *)
(* leaves the promise as it is, or a fault.                                *)
(***************************************************************************)
EXTENDS PlacementRefinement, RulePlacementProofs

(***************************************************************************)
(* What the refinement needs besides IInv.                                 *)
(***************************************************************************)

\* What the guards of the operations leave behind (TxShape has the rest).
OpShape ==
    /\ tx.op = "add" => tx.row # NoRow
    /\ tx.op = "delete" => row # NoRow /\ tx.ovs = NoOvs
    /\ tx.op = "pause" => row.on
    /\ tx.op \in {"resume", "override"} => row # NoRow

\* An undo only deletes where the operation put a rule.
UndoesOwn ==
    tx # NoTx => \A n \in Nodes : \A c \in undo[n] : c.verb = "DELETE" => New(c.slot) # Empty

\* Without faults there is nothing to account for.
Calm == Faults = {} => suspect = {} /\ orphans = {} /\ tail = {} /\ raced = {}

\* The inductive invariant of the refinement.
PInv == IInv /\ OpShape /\ UndoesOwn /\ Calm

(***************************************************************************)
(* The promised content of a listener.                                     *)
(***************************************************************************)

\* Foreign rules are not wanted ones, and the mark of a lost listener is neither.
LEMMA ForeignKinds ==
    /\ Foreign \subseteq Live /\ Wanted \subseteq Live
    /\ \A v \in Foreign : v \notin Wanted /\ v.origin # "ui" /\ v # Empty
    /\ Lost \notin Foreign /\ Lost \notin Wanted
    /\ \A v \in Live : v \notin Foreign => v \in Wanted
<1>1. \A v \in Foreign : v.origin \in {"api", "static"}
  BY DEF Foreign
<1>2. \A v \in Wanted : v.origin \in {"none", "ui"}
  BY DEF Wanted, Empty, Ui
<1>3. Foreign \subseteq Live /\ Wanted \subseteq Live
  BY DEF Live
<1>4. Empty \in Wanted
  BY DEF Wanted
<1>5. QED
  BY <1>1, <1>2, <1>3, <1>4, LostAssumption DEF Live

\* A listener that agrees with the database has a foreign rule only where
\* nothing is wanted, and otherwise what is wanted.
LEMMA AgreesIs ==
    ASSUME NEW v \in Live, NEW want \in Wanted, Agrees(v, want)
    PROVE  /\ v \in Foreign => want = Empty
           /\ v \notin Foreign => v = want
<1>1. CASE want = Empty
  BY <1>1, LiveKinds, ForeignKinds, AgreesKinds
<1>2. CASE want # Empty
  BY <1>2, ForeignKinds DEF Agrees
<1>3. QED
  BY <1>1, <1>2

\* Whether or not a transaction is under way, a listener that is not lost is
\* promised to have the rule of others it has, or what the database wants.
PromisedAre ==
    /\ DOMAIN Promised = Slots
    /\ \A s \in Slots :
         Promised[s] = IF s \in suspect \union SlotsOf(tail) THEN Lost
                       ELSE IF live[s] \in Foreign THEN live[s]
                       ELSE Old(s)

\* The invariant says what is promised.
LEMMA PromisedIs == IInv => PromisedAre
<1> SUFFICES ASSUME IInv PROVE PromisedAre
  OBVIOUS
<1>1. row \in Rows /\ ovs \in [Nodes -> Overrides] /\ live \in [Slots -> Live]
  BY DEF IInv, TypeOK
<1>2. ASSUME NEW s \in Slots, s \notin suspect \union SlotsOf(tail),
             live[s] \notin Foreign, tx = NoTx
      PROVE  live[s] = Old(s)
  <2>1. Agrees(live[s], Old(s))
    BY <1>2 DEF IInv, IdleInv, Matches, Old
  <2>2. live[s] \in Live /\ Old(s) \in Wanted
    BY <1>1, ExpectedType DEF Old
  <2>3. QED
    BY <1>2, <2>1, <2>2, AgreesIs
<1>3. QED
  BY <1>2 DEF Promised, PromisedAre, Old

\* An invisible step: row and overrides stay, and so does everything promised
\* when nothing can be lost.
LEMMA Invisible ==
    ASSUME IInv, IInv', UNCHANGED <<row, ovs>>,
           Faults = {} => Promised' = Promised
    PROVE  [Promise!Next]_(Promise!groupVars)
<1>1. CASE Faults = {}
  BY <1>1 DEF Promise!groupVars
<1>2. CASE Faults # {}
  <2>1. \A s : Old(s)' = Old(s)
    BY DEF Old, Expected
  <2>2. PromisedAre /\ PromisedAre'
    BY PromisedIs, PTL
  <2>3. ASSUME NEW s \in Slots
        PROVE  \/ Promised'[s] \in {Promised[s], Lost} \union Foreign
               \/ /\ Promised[s] \in {Lost} \union Foreign
                  /\ Promised'[s] \in {Empty, Old(s)}
    <3>1. Promised'[s] \in {Lost, Old(s)} \union Foreign
      BY <2>1, <2>2 DEF PromisedAre
    <3>2. Promised[s] \in {Lost, Old(s)} \union Foreign
      BY <2>2 DEF PromisedAre
    <3>3. QED
      BY <3>1, <3>2
  <2>4. Promise!Outside
    BY <1>2, <2>2, <2>3 DEF Promise!Outside, Old, PromisedAre
  <2>5. QED
    BY <2>4 DEF Promise!Next
<1>3. QED
  BY <1>1, <1>2

(***************************************************************************)
(* What the steps leave behind.                                            *)
(***************************************************************************)

\* The rows that are there, and the one that is not.
LEMMA BodiesAreOn ==
    /\ \A r \in Rows : r # NoRow => r.body \in Bodies
    /\ \A b \in Bodies : \A on \in BOOLEAN : [body |-> b, on |-> on] \in Rows \ {NoRow}
    /\ NoRow.on = FALSE
    /\ \A r \in Rows : r.on \in BOOLEAN
<1>1. NoBody \notin Bodies
  BY PlacementAssumption
<1>2. NoRow.body = NoBody /\ NoRow.on = FALSE
  BY DEF NoRow
<1>3. \A r \in Rows : r # NoRow => r \in [body : Bodies, on : BOOLEAN]
  BY DEF Rows
<1>4. \A r \in [body : Bodies, on : BOOLEAN] : r.body \in Bodies /\ r.on \in BOOLEAN
  OBVIOUS
<1>5. ASSUME NEW b \in Bodies, NEW on \in BOOLEAN
      PROVE  [body |-> b, on |-> on] \in Rows \ {NoRow}
  <2>1. [body |-> b, on |-> on].body = b
    OBVIOUS
  <2>2. [body |-> b, on |-> on] # NoRow
    BY <1>1, <1>2, <2>1
  <2>3. QED
    BY <2>2 DEF Rows
<1>6. \A r \in Rows : r.on \in BOOLEAN
  BY <1>2, <1>3, <1>4
<1>7. QED
  BY <1>2, <1>3, <1>4, <1>5, <1>6

\* The guards of the operations, remembered by the transaction.
LEMMA OpStep ==
    ASSUME IInv, OpShape, [Next]_vars
    PROVE  OpShape'
<1>1. row \in Rows /\ TypeOK
  BY DEF IInv, TypeOK
<1>2. CASE tx' = NoTx
  BY <1>2 DEF OpShape, NoTx
<1>3. CASE UNCHANGED <<row, tx>>
  BY <1>3 DEF OpShape
<1>4. CASE Begin
  <2>1. CASE BeginAdd
    <3>1. PICK b \in Bodies, on \in BOOLEAN :
            tx'.op = "add" /\ tx'.row = [body |-> b, on |-> on]
      BY <2>1 DEF BeginAdd, Start
    <3>2. QED
      BY <3>1, BodiesAreOn DEF OpShape
  <2>2. CASE BeginEdit
    <3>1. tx'.op = "edit"
      BY <2>2 DEF BeginEdit, Start
    <3>2. QED
      BY <3>1 DEF OpShape
  <2>3. CASE BeginDelete
    <3>1. tx'.op = "delete" /\ tx'.ovs = NoOvs /\ row' = row /\ row # NoRow
      BY <2>3 DEF BeginDelete, Start
    <3>2. QED
      BY <3>1 DEF OpShape
  <2>4. CASE BeginPause
    <3>1. tx'.op = "pause" /\ row' = row /\ row.on
      BY <2>4 DEF BeginPause, Start
    <3>2. QED
      BY <3>1 DEF OpShape
  <2>5. CASE BeginResume
    <3>1. tx'.op = "resume" /\ row' = row /\ row # NoRow
      BY <2>5 DEF BeginResume, Start
    <3>2. QED
      BY <3>1 DEF OpShape
  <2>6. CASE BeginOverride
    <3>1. tx'.op = "override" /\ row' = row /\ row # NoRow
      BY <2>6 DEF BeginOverride, Start
    <3>2. QED
      BY <3>1 DEF OpShape
  <2>7. CASE BeginResend
    <3>1. tx'.op = "resend"
      BY <2>7 DEF BeginResend, Start
    <3>2. QED
      BY <3>1 DEF OpShape
  <2>8. QED
    BY <1>4, <2>1, <2>2, <2>3, <2>4, <2>5, <2>6, <2>7 DEF Begin
<1>5. CASE \E n \in Nodes : NodeStep(n)
  BY <1>3, <1>5 DEF NodeStep, Answered, Refused, TimedOut, Undo, UndoLost
<1>6. CASE EndStep \/ Crash
  BY <1>2, <1>6 DEF EndStep, Rollback, Commit, CommitFails, Crash, EndTx
<1>7. CASE TailStep \/ OrphanLands
  BY <1>3, <1>7 DEF TailStep, TailUndo, TailLost, OrphanLands
<1>8. CASE (\E n \in Nodes : Restart(n)) \/ (\E s \in Slots : External(s))
  BY <1>3, <1>8 DEF Restart, External
<1>9. CASE UNCHANGED vars
  BY <1>3, <1>9 DEF vars
<1>10. QED
  BY <1>4, <1>5, <1>6, <1>7, <1>8, <1>9 DEF Next

\* The undo a reply leaves deletes only where the reply made a rule.
LEMMA ReplyUndo ==
    ASSUME IInv, NEW n \in Nodes, NEW a, StepOf(n, call[n], a)
    PROVE  /\ \A m \in Nodes : m # n => undo'[m] = undo[m]
           /\ \A c \in undo'[n] : c.verb = "DELETE" => New(c.slot) # Empty
<1>1. PICK c : c = call[n]
  OBVIOUS
<1>2. /\ TypeOK /\ CallShape(n, c) /\ c \in Calls /\ tx # NoTx /\ tx.op \in Ops
      /\ undo \in [Nodes -> SUBSET Calls] /\ Reply(n, c, a)
  BY <1>1, StepFacts DEF StepOf, TypeOK, Txs
<1>3. PICK nc, U : Settle(n, nc, U) /\ U = undo'[n]
  <2>1. PICK nc, U : Settle(n, nc, U)
    BY <1>2, ReplySettles
  <2>2. U = undo'[n]
    BY <1>2, <2>1 DEF Settle
  <2>3. QED
    BY <2>1, <2>2
<1>4. \A m \in Nodes : m # n => undo'[m] = undo[m]
  BY <1>2, <1>3 DEF Settle
<1>5. /\ Delete(n, After(n)).slot = At(n, After(n))
      /\ At(n, After(n)) \in Slots /\ At(n, After(n))[1] = n
      /\ \A e : Post(n, e).verb = "POST" /\ Post(n, e).slot = At(n, e)
      /\ \A e, w : Patch(n, e, w).verb = "PATCH"
      /\ \A e : Get(n, e).verb = "GET" /\ Delete(n, e).verb = "DELETE"
  BY <1>2, Sides, CallTypes DEF Delete, Post, Patch, Get
<1>6. After(n).on => New(At(n, After(n))) # Empty
  <2>1. After(n).on => New(At(n, After(n))) = Ui(After(n).body)
    BY <1>2, <1>5, Sides
  <2>2. QED
    BY <2>1, LiveKinds
<1>7. \/ U \subseteq {Post(n, Before(n))}
      \/ \E w : U = {Patch(n, Before(n), w)}
      \/ /\ U \subseteq {Delete(n, After(n)), Post(n, Before(n))}
         /\ c.verb = "POST"
         /\ tx.op = "override" => c.slot = At(n, After(n))
         /\ tx.op \in {"add", "edit", "resume", "override"}
  <2>0. \A s, V : Settle(n, s, V) => U = V
    BY <1>2, <1>3 DEF Settle
  <2>1. CASE tx.op = "add"
    <3>1. AddReply(n, c, a) /\ c.verb = "POST"
      BY <1>2, <1>5, <2>1 DEF Reply, CallShape
    <3>2. U = {Delete(n, After(n))} \/ U = {}
      BY <2>0, <3>1 DEF AddReply, Fail
    <3>3. QED
      BY <2>1, <3>1, <3>2
  <2>2. CASE tx.op = "edit"
    <3>1. EditReply(n, c, a)
      BY <1>2, <2>2 DEF Reply
    <3>2. \/ U = {}
          \/ U = {Patch(n, Before(n), After(n).body)}
          \/ U = {Delete(n, After(n))} /\ c.verb = "POST"
      BY <2>0, <3>1 DEF EditReply, Fail, Then
    <3>3. QED
      BY <2>2, <3>2
  <2>3. CASE tx.op \in {"delete", "pause"}
    <3>1. RemoveReply(n, c, a)
      BY <1>2, <2>3 DEF Reply
    <3>2. U = {} \/ U = {Post(n, Before(n))}
      BY <2>0, <3>1 DEF RemoveReply, Fail, Then
    <3>3. QED
      BY <3>2
  <2>4. CASE tx.op = "resume"
    <3>1. ResumeReply(n, c, a)
      BY <1>2, <2>4 DEF Reply
    <3>2. U = {} \/ (U = {Delete(n, After(n))} /\ c.verb = "POST")
      BY <2>0, <3>1 DEF ResumeReply, Fail, Then
    <3>3. QED
      BY <2>4, <3>2
  <2>5. CASE tx.op = "override"
    <3>1. OverrideReply(n, c, a)
      BY <1>2, <2>5 DEF Reply
    <3>2. \/ U = {}
          \/ U = {Post(n, Before(n))}
          \/ U = {Patch(n, Before(n), After(n).body)}
          \/ /\ U \subseteq {Delete(n, After(n)), Post(n, Before(n))}
             /\ c.verb = "POST" /\ c.slot = At(n, After(n))
      BY <2>0, <3>1 DEF OverrideReply, Fail, Then
    <3>3. QED
      BY <2>5, <3>2
  <2>6. CASE tx.op = "resend"
    <3>1. ResendReply(n, c, a)
      BY <1>2, <2>6 DEF Reply
    <3>2. U = {}
      BY <2>0, <3>1 DEF ResendReply, Fail, Then
    <3>3. QED
      BY <3>2
  <2>7. QED
    BY <1>2, <2>1, <2>2, <2>3, <2>4, <2>5, <2>6 DEF Ops
<1>8. ASSUME c.verb = "POST",
             tx.op = "override" => c.slot = At(n, After(n)),
             tx.op \in {"add", "edit", "resume", "override"}
      PROVE  After(n).on
  <2>1. CASE tx.op # "override"
    BY <1>2, <1>8, <2>1 DEF CallShape
  <2>2. CASE tx.op = "override"
    <3>1. Moving(n) => After(n).on
      BY DEF Moving
    <3>2. QED
      BY <1>2, <1>5, <1>8, <2>2, <3>1 DEF CallShape
  <2>3. QED
    BY <2>1, <2>2
<1>9. ASSUME NEW d \in U, d.verb = "DELETE"
      PROVE  New(d.slot) # Empty
  <2>1. d = Delete(n, After(n)) /\ After(n).on
    BY <1>5, <1>7, <1>8, <1>9
  <2>2. QED
    BY <1>5, <1>6, <2>1
<1>10. QED
  BY <1>3, <1>4, <1>9

\* The steps keep the undo calls to what the operation made.
LEMMA UndoesStep ==
    ASSUME IInv, UndoesOwn, [Next]_vars
    PROVE  UndoesOwn'
<1>1. undo \in [Nodes -> SUBSET Calls]
  BY DEF IInv, TypeOK
<1>2. CASE UNCHANGED tx /\ \A n \in Nodes : undo'[n] \subseteq undo[n]
  BY <1>2 DEF UndoesOwn, New
<1>3. CASE \A n \in Nodes : undo'[n] = {}
  BY <1>3 DEF UndoesOwn
<1>4. CASE Begin
  BY <1>3, <1>4
     DEF Begin, BeginAdd, BeginEdit, BeginDelete, BeginPause, BeginResume,
         BeginOverride, BeginResend, Start
<1>5. ASSUME NEW n \in Nodes, Answered(n) \/ Refused(n) \/ TimedOut(n)
      PROVE  UndoesOwn'
  <2>1. PICK a : StepOf(n, call[n], a)
    BY <1>5, AsStep
  <2>2. UNCHANGED tx /\ tx # NoTx
    BY <2>1 DEF StepOf
  <2>3. \A s : New(s)' = New(s)
    BY <2>2 DEF New
  <2>4. /\ \A m \in Nodes : m # n => undo'[m] = undo[m]
        /\ \A c \in undo'[n] : c.verb = "DELETE" => New(c.slot) # Empty
    BY <2>1, ReplyUndo
  <2>5. QED
    BY <2>2, <2>3, <2>4 DEF UndoesOwn
<1>6. ASSUME NEW n \in Nodes, Undo(n) \/ UndoLost(n)
      PROVE  UndoesOwn'
  <2>1. UNCHANGED tx
    BY <1>6 DEF Undo, UndoLost
  <2>2. \A m \in Nodes : undo'[m] \subseteq undo[m]
    BY <1>1, <1>6 DEF Undo, UndoLost
  <2>3. QED
    BY <1>2, <2>1, <2>2
<1>7. CASE EndStep \/ Crash
  BY <1>3, <1>7 DEF EndStep, Rollback, Commit, CommitFails, Crash, EndTx
<1>8. CASE TailStep \/ OrphanLands
  BY <1>2, <1>8 DEF TailStep, TailUndo, TailLost, OrphanLands
<1>9. CASE (\E n \in Nodes : Restart(n)) \/ (\E s \in Slots : External(s))
  BY <1>2, <1>9 DEF Restart, External
<1>10. CASE UNCHANGED vars
  BY <1>2, <1>10 DEF vars
<1>11. QED
  BY <1>4, <1>5, <1>6, <1>7, <1>8, <1>9, <1>10 DEF Next, NodeStep

(***************************************************************************)
(* What a step finds on a listener that nothing else has touched.          *)
(***************************************************************************)

\* A call that changes or deletes a rule finds the UI's own.
LEMMA CallFindsOwn ==
    ASSUME IInv, tx # NoTx, NEW n \in Nodes, call[n] \in Calls,
           call[n].verb \in {"DELETE", "PATCH"}, call[n].slot \notin suspect
    PROVE  live[call[n].slot].origin = "ui"
<1>1. PICK c : c = call[n]
  OBVIOUS
<1>2. PICK e, f : e = Before(n) /\ f = After(n)
  OBVIOUS
<1>3. /\ TypeOK /\ NodeInv(n) /\ CallShape(n, c) /\ tx.op \in Ops /\ c.slot \in Slots
      /\ At(n, e) \in Slots /\ At(n, e)[1] = n
  BY <1>1, <1>2, CallFields, Sides, CallTypes DEF IInv, NodeInv, TypeOK, Txs
<1>4. /\ \A x : Get(n, x).verb = "GET" /\ Post(n, x).verb = "POST"
      /\ \A x : Delete(n, x).slot = At(n, x)
      /\ \A x, w : Patch(n, x, w).slot = At(n, x)
  BY DEF Get, Post, Delete, Patch
<1>5. e.on /\ c.slot = At(n, e)
  <2>1. CASE tx.op = "add"
    BY <1>1, <1>2, <1>3, <1>4, <2>1 DEF CallShape
  <2>2. CASE tx.op = "edit"
    <3>1. e.on /\ e.addr = f.addr /\ c = Patch(n, f, e.body)
      BY <1>1, <1>2, <1>3, <1>4, <2>2 DEF CallShape
    <3>2. QED
      BY <1>4, <3>1 DEF At
  <2>3. CASE tx.op \in {"delete", "pause"}
    BY <1>1, <1>2, <1>3, <1>4, <2>3 DEF CallShape
  <2>4. CASE tx.op = "resume"
    BY <1>1, <1>2, <1>3, <1>4, <2>4 DEF CallShape
  <2>5. CASE tx.op = "override"
    <3>1. \/ e.on /\ c = Delete(n, e)
          \/ e.on /\ f.on /\ ~Moving(n) /\ c = Patch(n, f, e.body)
      BY <1>1, <1>2, <1>3, <1>4, <2>5 DEF CallShape
    <3>2. e.on /\ f.on /\ ~Moving(n) => e.addr = f.addr
      BY <1>2, <2>5 DEF Moving
    <3>3. QED
      BY <1>4, <3>1, <3>2 DEF At
  <2>6. CASE tx.op = "resend"
    <3>1. At(n, e) \in suspect /\ c.slot = At(n, e)
      BY <1>1, <1>2, <1>3, <1>4, <2>6 DEF CallShape
    <3>2. QED
      BY <1>1, <3>1
  <2>7. QED
    BY <1>3, <2>1, <2>2, <2>3, <2>4, <2>5, <2>6 DEF Ops
<1>6. Old(c.slot) = Ui(e.body)
  BY <1>2, <1>3, <1>5, Sides
<1>7. ~HalfMoved(n)
  BY <1>1 DEF HalfMoved
<1>8. Agrees(live[c.slot], Old(c.slot))
  BY <1>1, <1>3, <1>5, <1>7, DoneIsNoCall DEF NodeInv, Old
<1>9. live[c.slot] = Ui(e.body)
  BY <1>6, <1>8, AgreesKinds
<1>10. QED
  BY <1>1, <1>9 DEF Ui

\* The call that puts the old rule back finds its listener free.
LEMMA MoveBackFindsFree ==
    ASSUME IInv, tx # NoTx, NEW n \in Nodes, Restoring(n),
           call[n].slot \notin suspect \union raced
    PROVE  live[call[n].slot] = Empty
<1>1. PICK c : c = call[n]
  OBVIOUS
<1>2. PICK e, f : e = Before(n) /\ f = After(n)
  OBVIOUS
<1>3. /\ c \in Calls /\ c.verb = "POST" /\ tx.op = "override" /\ c.slot # At(n, f)
      /\ TypeOK /\ NodeInv(n) /\ CallShape(n, c)
      /\ At(n, e) \in Slots /\ At(n, e)[1] = n
  BY <1>1, <1>2, Sides, CallTypes DEF Restoring, IInv, NodeInv
<1>4. /\ \A x : Get(n, x).verb = "GET" /\ Delete(n, x).verb = "DELETE" /\ Post(n, x).slot = At(n, x)
      /\ \A x, w : Patch(n, x, w).verb = "PATCH"
  BY DEF Get, Post, Delete, Patch
<1>5. Moving(n) /\ c = Post(n, e)
  BY <1>1, <1>2, <1>3, <1>4 DEF CallShape
<1>6. HalfMoved(n) /\ c.slot = At(n, Before(n)) /\ call[n] # Done
  BY <1>1, <1>2, <1>3, <1>4, <1>5, DoneIsNoCall DEF HalfMoved
<1>7. QED
  BY <1>1, <1>2, <1>3, <1>6 DEF NodeInv

\* An undo call is answered well, and finds and leaves what is the UI's.
LEMMA UndoFindsOwn ==
    ASSUME IInv, UndoesOwn, tx # NoTx, NEW n \in Nodes, NEW c \in undo[n],
           c.slot \notin suspect \union raced, NEW a \in Answers(c, live[c.slot])
    PROVE  /\ a.code = "ok"
           /\ live[c.slot].origin \in {"none", "ui"} /\ a.now.origin \in {"none", "ui"}
<1>1. /\ TypeOK /\ NodeInv(n) /\ c \in Calls /\ c.slot \in Slots /\ c.slot[1] = n
      /\ c.verb # "GET" /\ call[n] = Done /\ live[c.slot] \in Live
      /\ (c.verb = "DELETE" => New(c.slot) # Empty)
  BY CallFields, DoneIsNoCall DEF IInv, TypeOK, NodeInv, UndoShape, UndoesOwn
<1>2. DoneAgrees(n, c.slot)
  BY <1>1, NodeSlots
<1>3. /\ Reverses(c, Old(c.slot), New(c.slot)) /\ Agrees(live[c.slot], New(c.slot))
      /\ Possible(c)
  BY <1>2 DEF DoneAgrees, Old, New
<1>4. a \in Outcomes(c, live[c.slot]) /\ a.code \in {"ok", "missing", "static", "refused"}
      /\ a \in Answers(c, live[c.slot])
  BY <1>1, OutcomeType DEF Outcomes
<1>5. CASE c.verb = "DELETE"
  <2>1. New(c.slot) \in Wanted /\ New(c.slot) # Empty
    BY <1>1, <1>5, TxFields, ExpectedType DEF New
  <2>2. live[c.slot] = New(c.slot) /\ live[c.slot].origin = "ui"
    BY <1>3, <2>1, LiveKinds DEF Wanted, Agrees
  <2>3. a.code = "ok" /\ a.now = Empty
    BY <1>4, <1>5, <2>1, <2>2 DEF Answers
  <2>4. QED
    BY <2>2, <2>3, LiveKinds
<1>6. CASE c.verb = "POST"
  <2>1. live[c.slot] = Empty
    BY <1>3, <1>6 DEF Possible
  <2>2. a.code = "ok" /\ a.now = Ui(c.body)
    BY <1>4, <1>6, <2>1 DEF Answers
  <2>3. QED
    BY <2>1, <2>2, LiveKinds DEF Ui
<1>7. CASE c.verb = "PATCH"
  <2>1. live[c.slot] = Ui(c.was)
    BY <1>3, <1>7, AgreesKinds DEF Reverses
  <2>2. live[c.slot].origin = "ui" /\ live[c.slot] # Empty
    BY <2>1, LiveKinds DEF Ui
  <2>3. a.code = "ok"
    BY <1>4, <1>7, <2>2 DEF Answers
  <2>4. a.now.origin = "ui"
    BY <1>1, <1>4, <1>7, <2>2, <2>3, PatchOutcome
  <2>5. QED
    BY <2>2, <2>3, <2>4
<1>8. QED
  BY <1>1, <1>5, <1>6, <1>7, CallFields

\* Without faults no step leaves anything to account for, and a listener never
\* gets or loses a rule of others.
Spares ==
    \A s \in Slots : live'[s] # live[s] =>
        live[s].origin \in {"none", "ui"} /\ live'[s].origin \in {"none", "ui"}

\* A reply is such a step: what it changes is the UI's own, and the call that
\* puts an old rule back is not refused.
LEMMA CalmReply ==
    ASSUME IInv, Calm, Faults = {}, NEW n \in Nodes, Answered(n) \/ Refused(n) \/ TimedOut(n)
    PROVE  Calm' /\ Spares
<1>1. /\ suspect = {} /\ orphans = {} /\ tail = {} /\ raced = {} /\ tx # NoTx
      /\ call[n] \in Calls /\ live \in [Slots -> Live]
  BY DEF Calm, Answered, Refused, TimedOut, IInv, TypeOK
<1>2. PICK c : c = call[n]
  OBVIOUS
<1>3. CASE Answered(n)
  <2>1. PICK a \in Answers(c, live[c.slot]) :
          /\ live' = [live EXCEPT ![c.slot] = a.now]
          /\ suspect' = (suspect \union
                           IF Restoring(n) /\ a.code # "ok" THEN {c.slot} ELSE {}) \ Resent(n)
          /\ UNCHANGED <<orphans, tail, raced>>
    BY <1>2, <1>3 DEF Answered
  <2>2. /\ a \in Outcomes(c, live[c.slot]) /\ c.slot \in Slots /\ c \in Calls
        /\ live[c.slot] \in Live
    BY <1>1, <1>2, CallFields DEF Outcomes
  <2>3. Restoring(n) => a.code = "ok"
    <3>1. Restoring(n) => live[c.slot] = Empty /\ c.verb = "POST"
      BY <1>1, <1>2, MoveBackFindsFree DEF Restoring
    <3>2. QED
      BY <3>1 DEF Answers
  <2>4. Calm'
    BY <1>1, <2>1, <2>3 DEF Calm
  <2>5. a.now # live[c.slot] =>
          live[c.slot].origin \in {"none", "ui"} /\ a.now.origin \in {"none", "ui"}
    <3>1. CASE c.verb = "GET"
      BY <2>2, <3>1, GetOutcome
    <3>2. CASE c.verb = "POST"
      <4>1. Ui(c.body).origin = "ui" /\ Empty.origin = "none"
        BY <2>2, <3>2, CallFields, LiveKinds
      <4>2. a.now = live[c.slot] \/ (live[c.slot] = Empty /\ a.now = Ui(c.body))
        BY <2>2, <3>2, PostOutcome
      <4>3. QED
        BY <4>1, <4>2
    <3>3. CASE c.verb = "DELETE"
      BY <1>1, <1>2, <2>2, <3>3, DeleteOutcome, CallFindsOwn, LiveKinds
    <3>4. CASE c.verb = "PATCH"
      BY <1>1, <1>2, <2>2, <3>4, PatchOutcome, CallFindsOwn
    <3>5. QED
      BY <2>2, <3>1, <3>2, <3>3, <3>4, CallFields
  <2>6. Spares
    BY <1>1, <2>1, <2>2, <2>5 DEF Spares
  <2>7. QED
    BY <2>4, <2>6
<1>4. CASE Refused(n)
  BY <1>1, <1>4 DEF Refused, Calm, Spares
<1>5. CASE TimedOut(n)
  BY <1>5 DEF TimedOut
<1>6. QED
  BY <1>3, <1>4, <1>5

\* So is an undo call: none fails.
LEMMA CalmUndo ==
    ASSUME IInv, UndoesOwn, Calm, Faults = {}, NEW n \in Nodes, Undo(n) \/ UndoLost(n)
    PROVE  Calm' /\ Spares
<1>1. /\ suspect = {} /\ orphans = {} /\ tail = {} /\ raced = {}
      /\ live \in [Slots -> Live] /\ undo[n] \in SUBSET Calls
  BY DEF Calm, IInv, TypeOK
<1>2. Undo(n) /\ tx # NoTx
  BY DEF UndoLost, Undo, Settled
<1>3. PICK c \in Ready(undo[n]) : \E a \in Answers(c, live[c.slot]) :
         /\ live' = [live EXCEPT ![c.slot] = a.now]
         /\ \/ UNCHANGED suspect
            \/ ~UndoOk(undo[n], c, a)
  BY <1>2 DEF Undo
<1>4. PICK a \in Answers(c, live[c.slot]) :
         /\ live' = [live EXCEPT ![c.slot] = a.now]
         /\ \/ UNCHANGED suspect
            \/ ~UndoOk(undo[n], c, a)
  BY <1>3
<1>5. c \in undo[n] /\ c \in Calls /\ c.slot \in Slots
  BY <1>1, <1>3, CallFields DEF Ready
<1>6. /\ a.code = "ok"
      /\ live[c.slot].origin \in {"none", "ui"} /\ a.now.origin \in {"none", "ui"}
  BY <1>1, <1>2, <1>4, <1>5, UndoFindsOwn
<1>7. UNCHANGED suspect
  BY <1>4, <1>6 DEF UndoOk
<1>8. Calm'
  BY <1>1, <1>2, <1>7 DEF Calm, Undo
<1>9. Spares
  BY <1>1, <1>4, <1>5, <1>6 DEF Spares
<1>10. QED
  BY <1>8, <1>9

\* And so is every other step.
LEMMA CalmStep ==
    ASSUME IInv, UndoesOwn, Calm, Faults = {}, [Next]_vars
    PROVE  Calm' /\ Spares
<1>1. suspect = {} /\ orphans = {} /\ tail = {} /\ raced = {}
  BY DEF Calm
<1>2. CASE Begin
  <2>1. /\ UNCHANGED live /\ raced' = {} /\ tail' = {}
        /\ orphans' = orphans \union tail /\ suspect' = suspect \union SlotsOf(tail)
    BY <1>2 DEF Begin, BeginAdd, BeginEdit, BeginDelete, BeginPause, BeginResume,
                BeginOverride, BeginResend, Start
  <2>2. SlotsOf(tail) = {}
    BY <1>1 DEF SlotsOf
  <2>3. QED
    BY <1>1, <2>1, <2>2 DEF Calm, Spares
<1>3. CASE \E n \in Nodes : NodeStep(n)
  BY <1>3, CalmReply, CalmUndo DEF NodeStep
<1>4. CASE EndStep
  BY <1>1, <1>4 DEF EndStep, Rollback, Commit, CommitFails, Calm, Spares
<1>5. CASE TailStep \/ OrphanLands
  BY <1>1, <1>5 DEF TailStep, TailUndo, TailLost, OrphanLands, Ready
<1>6. CASE Crash \/ (\E n \in Nodes : Restart(n)) \/ (\E s \in Slots : External(s))
  BY <1>6 DEF Crash, Restart, External
<1>7. CASE UNCHANGED vars
  BY <1>1, <1>7 DEF vars, Calm, Spares
<1>8. QED
  BY <1>2, <1>3, <1>4, <1>5, <1>6, <1>7 DEF Next

(***************************************************************************)
(* The invariant.                                                          *)
(***************************************************************************)

\* The invariant of the refinement holds at the start.
LEMMA InitPInv == Init => PInv
<1> SUFFICES ASSUME Init PROVE PInv
  OBVIOUS
<1>1. IInv
  BY InitInv
<1>2. OpShape /\ UndoesOwn
  BY DEF Init, OpShape, UndoesOwn, NoTx
<1>3. Calm
  BY DEF Init, Calm
<1>4. QED
  BY <1>1, <1>2, <1>3 DEF PInv

\* Every step keeps it.
LEMMA NextPInv ==
    ASSUME PInv, [Next]_vars
    PROVE  PInv'
<1>1. IInv'
  BY NextInv DEF PInv
<1>2. OpShape' /\ UndoesOwn'
  BY OpStep, UndoesStep DEF PInv
<1>3. Calm'
  <2>1. CASE Faults = {}
    BY <2>1, CalmStep DEF PInv
  <2>2. CASE Faults # {}
    BY <2>2 DEF Calm
  <2>3. QED
    BY <2>1, <2>2
<1>4. QED
  BY <1>1, <1>2, <1>3 DEF PInv

(***************************************************************************)
(* The steps of the refinement.                                            *)
(***************************************************************************)

\* A step that spares the rules of others and leaves the database as it is
\* leaves the promise as it is, where nothing is lost.
LEMMA StillPromised ==
    ASSUME IInv, IInv', UNCHANGED <<row, ovs>>, Spares,
           suspect = {}, suspect' = {}, tail = {}, tail' = {}
    PROVE  Promised' = Promised
<1>1. \A s : Old(s)' = Old(s)
  BY DEF Old, Expected
<1>2. SlotsOf(tail) = {} /\ SlotsOf(tail)' = {}
  BY DEF SlotsOf
<1>3. /\ DOMAIN Promised = Slots
      /\ \A s \in Slots : Promised[s] = IF live[s] \in Foreign THEN live[s] ELSE Old(s)
  BY <1>2, PromisedIs DEF PromisedAre
<1>4. /\ DOMAIN Promised' = Slots
      /\ \A s \in Slots : Promised'[s] = IF live'[s] \in Foreign THEN live'[s] ELSE Old(s)
  <2>1. PromisedAre'
    BY PromisedIs, PTL
  <2>2. QED
    BY <1>1, <1>2, <2>1 DEF PromisedAre
<1>5. \A v \in Foreign : v.origin \notin {"none", "ui"}
  BY DEF Foreign
<1>6. \A s \in Slots : Promised'[s] = Promised[s]
  BY <1>3, <1>4, <1>5 DEF Spares
<1>7. Promised = [s \in Slots |-> Promised[s]] /\ Promised' = [s \in Slots |-> Promised'[s]]
  BY DEF Promised
<1>8. QED
  BY <1>6, <1>7

\* A step that leaves the database as it is is invisible.
LEMMA QuietStep ==
    ASSUME PInv, [Next]_vars, UNCHANGED <<row, ovs>>
    PROVE  [Promise!Next]_(Promise!groupVars)
<1>1. IInv /\ IInv' /\ PInv'
  BY NextPInv DEF PInv
<1>2. CASE Faults = {}
  <2>1. Spares
    BY <1>2, CalmStep DEF PInv
  <2>2. suspect = {} /\ tail = {} /\ suspect' = {} /\ tail' = {}
    BY <1>1, <1>2 DEF PInv, Calm
  <2>3. Promised' = Promised
    BY <1>1, <2>1, <2>2, StillPromised
  <2>4. QED
    BY <1>1, <2>3, Invisible
<1>3. CASE Faults # {}
  BY <1>1, <1>3, Invisible
<1>4. QED
  BY <1>2, <1>3

\* A transaction that commits takes effect on every listener that is not lost.
LEMMA Effect ==
    ASSUME PInv, Settled, ~SomeFailed, row' = tx.row, ovs' = tx.ovs, tx' = NoTx,
           UNCHANGED live, suspect \subseteq suspect', suspect' \in SUBSET Slots,
           suspect' \union SlotsOf(tail)' # {} => Faults # {}
    PROVE  Promise!TakesEffect
<1>1. /\ IInv /\ TypeOK /\ tx # NoTx /\ SlotsOf(tail) = {}
      /\ live \in [Slots -> Live]
      /\ \A s \in Slots \ suspect : Agrees(live[s], New(s))
  BY AllDone DEF PInv, SlotsOf, TypeOK
<1>2. ASSUME NEW s \in Slots
      PROVE  /\ \/ Promised'[s] = Promise!After(s)
                \/ Faults # {} /\ Promised'[s] = Lost
             /\ New(s) # Empty /\ Promised[s] \in Foreign => Faults # {}
  <2>1. /\ Promised'[s] = IF s \in suspect' \union SlotsOf(tail)' THEN Lost ELSE live[s]
        /\ Promise!After(s) = IF New(s) = Empty /\ Promised[s] \in Foreign
                              THEN Promised[s] ELSE New(s)
    BY DEF Promised, Promise!After, New
  <2>2. /\ New(s) \in Wanted /\ Old(s) \in Wanted /\ live[s] \in Live
    BY <1>1, TxFields, ExpectedType DEF New, Old, TypeOK
  <2>3. Promised[s] = IF s \in suspect THEN Lost
                      ELSE IF live[s] \in Foreign THEN live[s] ELSE Old(s)
    BY <1>1, PromisedIs DEF PromisedAre
  <2>4. CASE s \in suspect
    BY <2>1, <2>4
  <2>5. CASE s \notin suspect
    <3>1. /\ live[s] \in Foreign => New(s) = Empty
          /\ live[s] \notin Foreign => live[s] = New(s)
      BY <1>1, <2>2, <2>5, AgreesIs
    <3>2. Promised[s] \in Foreign => live[s] \in Foreign /\ Promised[s] = live[s]
      BY <2>2, <2>3, <2>5, ForeignKinds
    <3>3. live[s] = Promise!After(s)
      BY <2>1, <2>3, <2>5, <3>1, <3>2
    <3>4. QED
      BY <2>1, <3>1, <3>2, <3>3
  <2>6. QED
    BY <2>4, <2>5
<1>3. QED
  BY <1>2 DEF Promise!TakesEffect, New

\* The whole operation, in one step.
LEMMA Operation ==
    ASSUME PInv, Settled, ~SomeFailed, row' = tx.row, ovs' = tx.ovs,
           Promise!TakesEffect, tx.op # "resend"
    PROVE  Promise!Next
<1>1. /\ TypeOK /\ TxShape /\ OpShape /\ tx.op \in Ops
      /\ row \in Rows /\ ovs \in [Nodes -> Overrides]
      /\ tx.row \in Rows /\ tx.ovs \in [Nodes -> Overrides]
  BY TxFields DEF PInv, IInv, TypeOK, Txs, Settled
<1>2. CASE tx.op = "add"
  <2>1. row = NoRow /\ tx.row # NoRow
    BY <1>1, <1>2 DEF TxShape, OpShape
  <2>2. Promise!Add
    BY <1>1, <2>1 DEF Promise!Add
  <2>3. QED
    BY <2>2 DEF Promise!Next
<1>3. CASE tx.op = "edit"
  <2>1. row # NoRow /\ tx.row # NoRow /\ tx.row.on = row.on /\ tx.ovs = ovs
    BY <1>1, <1>3 DEF TxShape
  <2>2. Promise!Edit
    BY <1>1, <2>1 DEF Promise!Edit
  <2>3. QED
    BY <2>2 DEF Promise!Next
<1>4. CASE tx.op = "delete"
  <2>1. tx.row = NoRow /\ row # NoRow /\ tx.ovs = NoOvs
    BY <1>1, <1>4 DEF TxShape, OpShape
  <2>2. Promise!Delete
    BY <2>1 DEF Promise!Delete
  <2>3. QED
    BY <2>2 DEF Promise!Next
<1>5. CASE tx.op = "pause"
  <2>1. tx.row = [row EXCEPT !.on = FALSE] /\ tx.ovs = ovs /\ row.on
    BY <1>1, <1>5 DEF TxShape, OpShape
  <2>2. row # NoRow /\ tx.row = [row EXCEPT !.on = ~row.on]
    BY <2>1, BodiesAreOn
  <2>3. Promise!Switch
    BY <2>1, <2>2 DEF Promise!Switch
  <2>4. QED
    BY <2>3 DEF Promise!Next
<1>6. CASE tx.op = "resume"
  <2>1. tx.row = [row EXCEPT !.on = TRUE] /\ tx.ovs = ovs /\ ~row.on /\ row # NoRow
    BY <1>1, <1>6 DEF TxShape, OpShape
  <2>2. row.on \in BOOLEAN
    BY <1>1, BodiesAreOn
  <2>3. tx.row = [row EXCEPT !.on = ~row.on]
    BY <2>1, <2>2
  <2>4. Promise!Switch
    BY <2>1, <2>3 DEF Promise!Switch
  <2>5. QED
    BY <2>4 DEF Promise!Next
<1>7. CASE tx.op = "override"
  <2>1. /\ tx.row = row /\ tx.node \in Nodes /\ row # NoRow
        /\ \A n \in Nodes \ {tx.node} : tx.ovs[n] = ovs[n]
    BY <1>1, <1>7 DEF TxShape, OpShape
  <2>2. tx.ovs = [ovs EXCEPT ![tx.node] = tx.ovs[tx.node]] /\ tx.ovs[tx.node] \in Overrides
    BY <1>1, <2>1
  <2>3. Promise!Override
    BY <2>1, <2>2 DEF Promise!Override
  <2>4. QED
    BY <2>3 DEF Promise!Next
<1>8. QED
  BY <1>1, <1>2, <1>3, <1>4, <1>5, <1>6, <1>7 DEF Ops

\* A COMMIT, also one whose answer is an error, is that step or invisible.
LEMMA CommitRefines ==
    ASSUME PInv, Commit \/ CommitFails
    PROVE  [Promise!Next]_(Promise!groupVars)
<1>1. [Next]_vars
  BY DEF Next, EndStep
<1>2. PInv'
  BY <1>1, NextPInv
<1>3. CASE UNCHANGED <<row, ovs>>
  BY <1>1, <1>3, QuietStep
<1>4. CASE ~UNCHANGED <<row, ovs>>
  <2>1. /\ Settled /\ ~SomeFailed /\ row' = tx.row /\ ovs' = tx.ovs /\ tx' = NoTx
        /\ UNCHANGED live /\ suspect \subseteq suspect'
    BY <1>4 DEF Commit, CommitFails, EndTx
  <2>2. suspect' \in SUBSET Slots
    BY <1>2 DEF PInv, IInv, TypeOK
  <2>3. Faults = {} => suspect' = {} /\ tail' = {}
    BY <1>2 DEF PInv, Calm
  <2>4. suspect' \union SlotsOf(tail)' # {} => Faults # {}
    BY <2>3 DEF SlotsOf
  <2>5. tx.op # "resend"
    <3>1. tx.op = "resend" => tx.row = row /\ tx.ovs = ovs
      BY DEF PInv, IInv, TxShape
    <3>2. QED
      BY <1>4, <2>1, <3>1
  <2>6. Promise!TakesEffect
    BY <2>1, <2>2, <2>4, Effect
  <2>7. QED
    BY <2>1, <2>5, <2>6, Operation
<1>5. QED
  BY <1>3, <1>4

\* Every step is a step of GroupRule, or invisible.
LEMMA NextRefines ==
    ASSUME PInv, [Next]_vars
    PROVE  [Promise!Next]_(Promise!groupVars)
<1>1. CASE Commit \/ CommitFails
  BY <1>1, CommitRefines
<1>2. CASE ~(Commit \/ CommitFails)
  <2>1. UNCHANGED <<row, ovs>>
    <3>1. CASE Begin
      BY <3>1 DEF Begin, BeginAdd, BeginEdit, BeginDelete, BeginPause, BeginResume,
                  BeginOverride, BeginResend, Start
    <3>2. CASE \E n \in Nodes : NodeStep(n)
      BY <3>2 DEF NodeStep, Answered, Refused, TimedOut, Undo, UndoLost
    <3>3. CASE EndStep \/ Crash
      BY <1>2, <3>3 DEF EndStep, Rollback, Crash
    <3>4. CASE TailStep \/ OrphanLands
      BY <3>4 DEF TailStep, TailUndo, TailLost, OrphanLands
    <3>5. CASE (\E n \in Nodes : Restart(n)) \/ (\E s \in Slots : External(s))
      BY <3>5 DEF Restart, External
    <3>6. CASE UNCHANGED vars
      BY <3>6 DEF vars
    <3>7. QED
      BY <3>1, <3>2, <3>3, <3>4, <3>5, <3>6 DEF Next
  <2>2. QED
    BY <2>1, QuietStep
<1>3. QED
  BY <1>1, <1>2

\* The initial states are initial states of GroupRule.
LEMMA InitRefines == Init => Promise!Init
<1> SUFFICES ASSUME Init PROVE Promise!Init
  OBVIOUS
<1>1. SlotsOf(tail) = {}
  BY DEF Init, SlotsOf
<1>2. Promised = [s \in Slots |-> live[s]]
  BY <1>1 DEF Init, Promised
<1>3. QED
  BY <1>2 DEF Init, Promise!Init

\* The invariant of the refinement, for every set of nodes, addresses, bodies and
\* overrides and every combination of faults.
THEOREM RefinementInductive == Spec => []PInv
BY InitPInv, NextPInv, PTL DEF Spec

\* Every operation of the API on one rule takes effect on the row, its overrides
\* and every listener that no fault has touched in one step, or not at all: the
\* transaction, the fan-out, its undo and its end implement GroupRule.
THEOREM RefinesGroupRule == Spec => KeepsPromise
<1>1. Init => Promise!Init
  BY InitRefines
<1>2. PInv /\ [Next]_vars => [Promise!Next]_(Promise!groupVars)
  BY NextRefines
<1>3. QED
  BY <1>1, <1>2, RefinementInductive, PTL DEF Spec, KeepsPromise, Promise!Spec

\* Without faults nothing ever diverges: refused calls and rules of others alone
\* leave every listener as the database says once the operation is over.
THEOREM FaultlessAgrees == Spec => []AllOrNothing
<1>1. PInv => AllOrNothing
  BY DEF PInv, IInv, IdleInv, Calm, AllOrNothing, SlotsOf
<1>2. QED
  BY <1>1, RefinementInductive, PTL
=============================================================================

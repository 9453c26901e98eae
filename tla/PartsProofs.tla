----------------------------- MODULE PartsProofs -----------------------------
(***************************************************************************)
(* Proofs about the parts of the program that keep a state of their own.   *)
(*                                                                         *)
(* GlobalApply, for any nodes, items and values and however much goes      *)
(* wrong.  The invariant follows what is known of one node through the     *)
(* request: as long as nobody else has changed it, it runs the old values, *)
(* or the new ones, or the old ones with the change still on its way       *)
(* (Open), and what the request remembers decides which.  In a request in  *)
(* which nothing has gone wrong so far (Smooth), either nothing masked is  *)
(* changed or no node refuses.                                             *)
(*                                                                         *)
(* Migrate: only the run with the lock is past it, so what it has planned  *)
(* stays in accord with the database until it is done or cut off.          *)
(*                                                                         *)
(* TokenFile: what is kept was read after its stamp was taken, so a stamp  *)
(* that has not changed vouches for it.                                    *)
(*                                                                         *)
(* Lockout: the 401 answers of a source lie in windows that are apart, and *)
(* whoever comes later in the map was counted later.                       *)
(*                                                                         *)
(* AcmeForm: the settings of certificates stay well-formed under any edits, *)
(* and a refusal of the API is shown at the row and field it is about.     *)
(***************************************************************************)
EXTENDS GlobalApply, Migrate, TokenFile, Lockout, AcmeForm,
        FiniteSetTheorems, SequenceTheorems,
        WellFoundedInduction, TLAPS

(***************************************************************************)
(* Global settings.                                                        *)
(***************************************************************************)

\* Values as the API shows them.
Shows == [Items -> Values \union {Null, Mask}]
Pcs == {"wait", "read", "patch", "reread", "undo", "putback", "done"}
Questions == [pc : Pcs, before : Shows, changed : SUBSET Items, after : Shows,
              outcome : Outcomes, undone : {"none", "yes", "no"}, back : Patches,
              risky : BOOLEAN, sure : BOOLEAN, useless : BOOLEAN]

GTypeOK ==
    /\ api \in [Nodes -> Settings] /\ old \in [Nodes -> Settings]
    /\ refuses \in [Nodes -> BOOLEAN]
    /\ late \in [Nodes -> Patches]
    /\ change \in [nodes : SUBSET Nodes, values : Patches]
    /\ asked \in [Nodes -> Questions]
    /\ phase \in {"idle", "look", "dry", "apply", "undo", "answered"}
    /\ trouble \in Nat
    /\ meddled \in [Nodes -> {"no", "yes", "late"}]

\* How far a node is in each phase, and what has been said of it by then.
PcOk(q, ph) ==
    /\ ph \in {"look", "dry"} => q.pc \in {"read", "done"}
    /\ ph = "apply" => q.pc \in {"read", "patch", "reread", "done"}
    /\ ph = "undo" => q.pc \in {"undo", "putback", "done"}
    /\ ph = "answered" => q.pc = "done"
    /\ ph = "look" => q.outcome = "none"
    /\ ph = "dry" => q.outcome = "none" \/ (q.pc = "done" /\ q.outcome = "refused")
    /\ ph = "apply" => (q.outcome = "none" <=> q.pc # "done")
    /\ ph \in {"undo", "answered"} => q.outcome # "none"
    /\ q.pc \in {"undo", "putback"} => q.outcome = "applied" /\ q.changed # {}
    /\ ph \in {"look", "dry", "apply"} \/ q.pc # "done" => q.undone = "none"
    /\ ph = "undo" /\ q.pc = "done" /\ q.outcome = "applied" => q.undone # "none"
    /\ q.undone = "yes" => q.outcome = "applied"
    /\ q.outcome = "none" => q.sure \/ q.pc = "reread"
    /\ q.pc = "reread" => ~q.sure
    /\ q.useless => /\ ph \in {"apply", "undo", "answered"} /\ q.pc = "done"
                    /\ q.outcome \in {"applied", "refused"} /\ q.changed = {}

\* The values o of a node, with nothing on its way; those with the change made;
\* and the former with the change still to come.
Untouched(a, l, o) == a = o /\ l = NoPatch
Made(a, l, o, P) == a = Patched(o, P) /\ l = NoPatch
Open(a, l, o, P) == a = o /\ l = P

\* A node that is as s in the items S, and stays so.
StaysAs(a, l, s, S) == \A i \in S : a[i] = s[i] /\ (i \in DOMAIN l => l[i] = s[i])

\* What is so of a node nobody else has changed.
DataOk(q, a, l, o, P) ==
    /\ q.outcome = "none" => Untouched(a, l, o) \/ (q.pc = "reread" /\ (Made(a, l, o, P) \/ Open(a, l, o, P)))
    /\ q.useless => Made(a, l, o, P)
    /\ q.outcome = "refused" /\ ~q.useless => Untouched(a, l, o)
    /\ q.pc \in {"patch", "reread"} \/ q.outcome = "applied" => q.before = Shown(o)
    /\ q.outcome = "applied" /\ q.undone = "none" /\ ~q.useless =>
         /\ q.sure => q.changed = Differing(Patched(o, P), o)
         /\ ~q.sure => q.changed = {i \in DOMAIN P : q.after[i] # Shown(o)[i]}
         /\ q.changed # {} \/ q.sure => Made(a, l, o, P) /\ q.after = Shown(Patched(o, P))
         /\ q.changed = {} => Patched(o, P) = o /\ a = o /\ l \in {NoPatch, P}
    /\ q.pc = "putback" => \A i \in q.changed : q.before[i] # Mask => i \in DOMAIN q.back /\ q.back[i] = q.before[i]
    /\ q.undone = "yes" /\ ~q.useless => StaysAs(a, l, o, IF q.sure THEN Items ELSE Items \ Hidden)

\* What is so whoever else has changed it: an answer that came names items of the
\* change, and only what was as the change left it is put back.
SureOk(q, a, l, m, P) ==
    /\ q.pc = "putback" => DOMAIN q.back \subseteq q.changed
    /\ q.sure /\ q.undone = "none" => l = NoPatch
    /\ q.sure /\ q.outcome = "applied" =>
         q.changed \subseteq DOMAIN P /\ \A i \in q.changed \ Hidden : q.after[i] = P[i]
    /\ q.sure /\ q.pc = "putback" /\ m # "late" =>
         \A i \in DOMAIN q.back \ Hidden : a[i] = q.after[i]

NodeOk(q, a, l, o, m, P, ph) ==
    /\ PcOk(q, ph)
    /\ SureOk(q, a, l, m, P)
    /\ m = "no" => DataOk(q, a, l, o, P)

\* What a node was asked first, when nothing has gone wrong so far.
SmoothNode(q, l, m, f, o, P, ph) ==
    /\ l = NoPatch /\ m = "no" /\ q.sure /\ ~q.useless
    /\ q.outcome # "unknown"
    /\ ph = "look" /\ q.pc = "done" => (q.risky <=> \E i \in DOMAIN P : Shown(o)[i] = Mask)
    /\ ph = "dry" /\ q.pc = "done" => (q.outcome = "refused" <=> f)
    /\ ph = "apply" => (q.outcome = "refused" => f)
    /\ ph = "undo" => q.undone # "no"

Unmasked == \A n \in change.nodes, i \in DOMAIN change.values : Shown(old[n])[i] # Mask
Willing == \A n \in change.nodes : ~refuses[n]
Several == Cardinality(change.nodes) > 1

Smooth ==
    /\ \A n \in change.nodes : SmoothNode(asked[n], late[n], meddled[n], refuses[n], old[n],
                                          change.values, phase)
    /\ phase = "apply" /\ Several => Unmasked \/ Willing
    /\ phase = "undo" => Unmasked

\* The inductive invariant.
GInv ==
    /\ GTypeOK
    /\ phase = "idle" => change.nodes = {} /\ late = [n \in Nodes |-> NoPatch]
    /\ \A n \in change.nodes : NodeOk(asked[n], api[n], late[n], old[n], meddled[n], change.values, phase)
    /\ \A n \in Nodes \ change.nodes : asked[n].pc = "wait" /\ asked[n].outcome = "none"
    /\ trouble = 0 => Smooth
    /\ GroupAllOrNone

(***************************************************************************)
(* Settings and patches.                                                   *)
(***************************************************************************)

\* A patch sets some of the items, to a value or to nothing.
LEMMA PatchFacts ==
    /\ NoPatch \in Patches /\ DOMAIN NoPatch = {}
    /\ \A P \in Patches : /\ DOMAIN P \subseteq Items
                          /\ P \in [DOMAIN P -> Values \union {Null}]
                          /\ \A i \in DOMAIN P : P[i] \in Values \union {Null} /\ P[i] # Mask
    /\ \A S \in SUBSET Items : \A f \in [S -> Values \union {Null}] : f \in Patches
    /\ Mask \notin Values \union {Null}
<1>1. \A S \in SUBSET Items : \A f \in [S -> Values \union {Null}] : f \in Patches
  BY DEF Patches
<1>2. NoPatch \in [{} -> Values \union {Null}] /\ DOMAIN NoPatch = {}
  BY DEF NoPatch
<1>3. Mask \notin Values \union {Null}
  BY GlobalAssumption
<1>4. ASSUME NEW P \in Patches
      PROVE  /\ DOMAIN P \subseteq Items /\ P \in [DOMAIN P -> Values \union {Null}]
             /\ \A i \in DOMAIN P : P[i] \in Values \union {Null} /\ P[i] # Mask
  <2>1. PICK S \in SUBSET Items : P \in [S -> Values \union {Null}]
    BY DEF Patches
  <2>2. QED
    BY <2>1, <1>3
<1>5. QED
  BY <1>1, <1>2, <1>3, <1>4

\* What patching makes of settings.
LEMMA PatchedFacts ==
    ASSUME NEW s \in Settings, NEW P \in Patches
    PROVE  /\ Patched(s, P) \in Settings
           /\ \A i \in Items : Patched(s, P)[i] = IF i \in DOMAIN P THEN P[i] ELSE s[i]
           /\ DOMAIN P = {} => Patched(s, P) = s
           /\ Differing(Patched(s, P), s) \subseteq DOMAIN P
BY PatchFacts DEF Patched, Settings, Differing

\* What the API shows of settings.
LEMMA ShownFacts ==
    ASSUME NEW s \in Settings
    PROVE  /\ Shown(s) \in Shows
           /\ \A i \in Items : /\ Shown(s)[i] # Mask => Shown(s)[i] = s[i]
                               /\ Shown(s)[i] = Mask => i \in Hidden
                               /\ i \notin Hidden => Shown(s)[i] = s[i]
BY PatchFacts DEF Shown, Settings, Shows

\* Settings are the same when all items are.
LEMMA SameSettings ==
    ASSUME NEW s \in Settings, NEW t \in Settings, \A i \in Items : s[i] = t[i]
    PROVE  s = t
BY DEF Settings

\* One patch after another.
LEMMA AfterType ==
    ASSUME NEW P \in Patches, NEW R \in Patches
    PROVE  After(P, R) \in Patches
<1>1. (DOMAIN P \union DOMAIN R) \in SUBSET Items
  BY PatchFacts
<1>2. After(P, R) \in [DOMAIN P \union DOMAIN R -> Values \union {Null}]
  BY PatchFacts DEF After
<1>3. QED
  BY <1>1, <1>2, PatchFacts

\* A change that is seen to be as wanted already makes none.
LEMMA AsWanted ==
    ASSUME NEW o \in Settings, NEW P \in Patches, \A i \in DOMAIN P : Shown(o)[i] = P[i]
    PROVE  Patched(o, P) = o
<1>1. \A i \in DOMAIN P : o[i] = P[i]
  BY PatchFacts, ShownFacts
<1>2. QED
  BY <1>1, PatchedFacts, SameSettings

(***************************************************************************)
(* A request with one node.                                                *)
(***************************************************************************)

\* A request carried out late, on a node that waits for nothing else.
LEMMA LateOk ==
    ASSUME NEW q \in Questions, NEW a \in Settings, NEW l \in Patches, NEW o \in Settings, NEW m,
           NEW P \in Patches, NEW ph, NodeOk(q, a, l, o, m, P, ph), l # NoPatch
    PROVE  NodeOk(q, Patched(a, l), NoPatch, o, m, P, ph)
<1>1. SureOk(q, Patched(a, l), NoPatch, m, P)
  BY DEF NodeOk, SureOk, PcOk
<1>2. ASSUME DataOk(q, a, l, o, P)
      PROVE  DataOk(q, Patched(a, l), NoPatch, o, P)
  <2>1. q.outcome = "none" => Made(Patched(a, l), NoPatch, o, P) /\ q.pc = "reread"
    BY <1>2 DEF DataOk, Untouched, Made, Open
  <2>2. q.outcome # "refused" /\ ~q.useless
    BY <1>2 DEF DataOk, Untouched, Made
  <2>3. q.outcome = "applied" /\ q.undone = "none" =>
          ~q.sure /\ q.changed = {} /\ Patched(o, P) = o /\ a = o /\ l = P
    BY <1>2, <2>2 DEF DataOk, Made, NodeOk, SureOk
  <2>4. ASSUME NEW S, S \subseteq Items, StaysAs(a, l, o, S)
        PROVE  StaysAs(Patched(a, l), NoPatch, o, S)
    BY <2>4, PatchedFacts, PatchFacts DEF StaysAs
  <2>5. QED
    BY <1>2, <2>1, <2>2, <2>3, <2>4 DEF DataOk
<1>3. QED
  BY <1>1, <1>2 DEF NodeOk

\* What an action on one node of the request has to show: how the node stands
\* afterwards.
LEMMA OneNode ==
    ASSUME GInv, NEW CONSTANT n \in change.nodes, NEW q \in Questions, NEW a \in Settings, NEW l \in Patches,
           phase \notin {"idle", "answered"}, Rest, UNCHANGED refuses, Go(n, q),
           api' = [api EXCEPT ![n] = a], late' = [late EXCEPT ![n] = l],
           Fine \/ Fault,
           NodeOk(q, a, l, old[n], meddled[n], change.values, phase),
           trouble' = 0 /\ Smooth =>
             SmoothNode(q, l, meddled[n], refuses[n], old[n], change.values, phase)
    PROVE  GInv'
<1>1. /\ n \in Nodes /\ change.nodes \subseteq Nodes /\ change.values \in Patches
      /\ trouble \in Nat /\ trouble' \in Nat /\ (trouble' = 0 => trouble = 0)
  BY DEF GInv, GTypeOK, Fine, Fault
<1>2. GTypeOK'
  BY <1>1 DEF GInv, GTypeOK, Rest, Go
<1>3. /\ asked'[n] = q /\ api'[n] = a /\ late'[n] = l
      /\ \A m \in Nodes \ {n} : asked'[m] = asked[m] /\ api'[m] = api[m] /\ late'[m] = late[m]
      /\ change' = change /\ phase' = phase /\ old' = old /\ meddled' = meddled
  BY <1>1 DEF GInv, GTypeOK, Rest, Go
<1>4. \A m \in change'.nodes :
        NodeOk(asked'[m], api'[m], late'[m], old'[m], meddled'[m], change'.values, phase')
  BY <1>1, <1>3 DEF GInv
<1>5. \A m \in Nodes \ change'.nodes : asked'[m].pc = "wait" /\ asked'[m].outcome = "none"
  BY <1>1, <1>3 DEF GInv
<1>6. trouble' = 0 => Smooth'
  <2>1. trouble' = 0 => Smooth
    BY <1>1 DEF GInv
  <2>2. QED
    BY <1>1, <1>3, <2>1 DEF Smooth, Several, Unmasked, Willing
<1>7. GroupAllOrNone'
  BY <1>3 DEF GroupAllOrNone
<1>8. QED
  BY <1>2, <1>3, <1>4, <1>5, <1>6, <1>7 DEF GInv

\* How a node of the request stands.
LEMMA MyNode ==
    ASSUME GInv, NEW n \in change.nodes
    PROVE  /\ n \in Nodes /\ api[n] \in Settings /\ late[n] \in Patches /\ old[n] \in Settings
           /\ asked[n] \in Questions /\ change.values \in Patches /\ refuses[n] \in BOOLEAN
           /\ meddled[n] \in {"no", "yes", "late"}
           /\ NodeOk(asked[n], api[n], late[n], old[n], meddled[n], change.values, phase)
           /\ trouble \in Nat
           /\ api = [api EXCEPT ![n] = api[n]] /\ late = [late EXCEPT ![n] = late[n]]
BY DEF GInv, GTypeOK

\* Whether a node could be put back.
LEMMA LookInv ==
    ASSUME GInv, NEW CONSTANT n \in change.nodes, Look(n)
    PROVE  GInv'
<1>1. PICK q, a, l, o, m, P : /\ q = asked[n] /\ a = api[n] /\ l = late[n] /\ o = old[n]
                              /\ m = meddled[n] /\ P = change.values
  OBVIOUS
<1>2. /\ q \in Questions /\ a \in Settings /\ l \in Patches /\ o \in Settings /\ P \in Patches
      /\ NodeOk(q, a, l, o, m, P, "look") /\ q.pc = "read" /\ phase = "look"
  BY <1>1, MyNode DEF Look
<1>3. PICK x : asked' = [asked EXCEPT ![n] = x] /\
        \/ Fine /\ x = [q EXCEPT !.pc = "done", !.risky = \E i \in DOMAIN P : Shown(a)[i] = Mask]
        \/ Fault /\ x = [q EXCEPT !.pc = "done", !.risky = TRUE]
  BY <1>1 DEF Look, Go
<1>4. PICK b \in BOOLEAN : /\ x = [q EXCEPT !.pc = "done", !.risky = b]
                           /\ \/ Fine /\ (b <=> \E i \in DOMAIN P : Shown(a)[i] = Mask)
                              \/ Fault
  BY <1>3
<1>5. /\ x \in Questions /\ x.pc = "done" /\ x.outcome = q.outcome /\ x.undone = q.undone
      /\ x.sure = q.sure /\ (x.useless <=> q.useless) /\ (x.risky <=> b)
  BY <1>2, <1>4 DEF Questions, Pcs
<1>6. NodeOk(x, a, l, o, m, P, "look")
  BY <1>2, <1>5 DEF NodeOk, PcOk, SureOk, DataOk
<1>7. ASSUME trouble' = 0, Smooth
      PROVE  SmoothNode(x, l, m, refuses[n], o, P, "look")
  <2>1. SmoothNode(q, l, m, refuses[n], o, P, "look")
    BY <1>1, <1>2, <1>7 DEF Smooth
  <2>2. a = o
    BY <1>2, <2>1 DEF NodeOk, DataOk, PcOk, SmoothNode, Untouched
  <2>3. ~Fault
    BY <1>7, MyNode DEF Fault
  <2>4. QED
    BY <1>4, <1>5, <2>1, <2>2, <2>3 DEF SmoothNode
<1>8. /\ Go(n, x) /\ api' = [api EXCEPT ![n] = a] /\ late' = [late EXCEPT ![n] = l]
      /\ Rest /\ UNCHANGED refuses /\ (Fine \/ Fault)
  BY <1>1, <1>3, MyNode DEF Look, Go
<1>9. QED
  BY <1>1, <1>2, <1>5, <1>6, <1>7, <1>8, OneNode

\* A dry run.
LEMMA DryRunInv ==
    ASSUME GInv, NEW CONSTANT n \in change.nodes, DryRun(n)
    PROVE  GInv'
<1>1. PICK q, a, l, o, m, P, f :
        /\ q = asked[n] /\ a = api[n] /\ l = late[n] /\ o = old[n]
        /\ m = meddled[n] /\ P = change.values /\ f = refuses[n]
  OBVIOUS
<1>2. /\ q \in Questions /\ a \in Settings /\ l \in Patches /\ o \in Settings /\ P \in Patches
      /\ f \in BOOLEAN /\ NodeOk(q, a, l, o, m, P, "dry") /\ q.pc = "read" /\ phase = "dry"
  BY <1>1, MyNode DEF DryRun
<1>3. trouble' = 0 /\ Smooth =>
        SmoothNode(q, l, m, f, o, P, "dry") /\ Fine /\ ~Fault
  BY <1>1, <1>2, MyNode DEF Smooth, Fault, Fine, DryRun
<1>4. PICK out \in {"none", "refused"} :
        /\ asked' = [asked EXCEPT ![n] = [q EXCEPT !.pc = "done", !.outcome = out]]
        /\ Fine => (out = "refused" <=> f) \/ Fault
        /\ Fine \/ Fault
  BY <1>1 DEF DryRun, Go
<1>5. PICK x : x = [q EXCEPT !.pc = "done", !.outcome = out]
  OBVIOUS
<1>6. /\ x \in Questions /\ x.pc = "done" /\ x.outcome = out /\ x.undone = q.undone
      /\ x.sure = q.sure /\ (x.useless <=> q.useless)
  BY <1>2, <1>5 DEF Questions, Pcs, Outcomes
<1>7. NodeOk(x, a, l, o, m, P, "dry")
  BY <1>2, <1>6 DEF NodeOk, PcOk, SureOk, DataOk
<1>8. trouble' = 0 /\ Smooth => SmoothNode(x, l, m, f, o, P, "dry")
  BY <1>3, <1>4, <1>6 DEF SmoothNode
<1>9. /\ Go(n, x) /\ api' = [api EXCEPT ![n] = a] /\ late' = [late EXCEPT ![n] = l]
      /\ Rest /\ UNCHANGED refuses /\ (Fine \/ Fault)
  BY <1>1, <1>4, <1>5, MyNode DEF DryRun, Go
<1>10. QED
  BY <1>1, <1>2, <1>6, <1>7, <1>8, <1>9, OneNode

\* The values before are those nobody has changed yet.
LEMMA ReadBeforeInv ==
    ASSUME GInv, NEW CONSTANT n \in change.nodes, ReadBefore(n)
    PROVE  GInv'
<1>1. PICK q, a, l, o, m, P, f :
        /\ q = asked[n] /\ a = api[n] /\ l = late[n] /\ o = old[n]
        /\ m = meddled[n] /\ P = change.values /\ f = refuses[n]
  OBVIOUS
<1>2. /\ q \in Questions /\ a \in Settings /\ l \in Patches /\ o \in Settings /\ P \in Patches
      /\ f \in BOOLEAN /\ NodeOk(q, a, l, o, m, P, "apply") /\ q.pc = "read" /\ phase = "apply"
  BY <1>1, MyNode DEF ReadBefore
<1>3. trouble' = 0 /\ Smooth =>
        SmoothNode(q, l, m, f, o, P, "apply") /\ Fine /\ ~Fault
  BY <1>1, <1>2, MyNode DEF Smooth, Fault, Fine, ReadBefore
<1>4. PICK x : /\ asked' = [asked EXCEPT ![n] = x]
               /\ \/ Fine /\ x = [q EXCEPT !.pc = "patch", !.before = Shown(a)]
                  \/ Fault /\ x = [q EXCEPT !.pc = "done", !.outcome = "refused"]
  BY <1>1 DEF ReadBefore, Go, Refused
<1>5. /\ x \in Questions /\ NodeOk(x, a, l, o, m, P, "apply")
      /\ trouble' = 0 /\ Smooth => SmoothNode(x, l, m, f, o, P, "apply")
  <2>1. CASE Fine /\ x = [q EXCEPT !.pc = "patch", !.before = Shown(a)]
    <3>1. Shown(a) \in Shows
      BY <1>2, ShownFacts
    <3>2. /\ x \in Questions /\ x.pc = "patch" /\ x.before = Shown(a) /\ x.outcome = q.outcome
          /\ x.undone = q.undone /\ x.sure = q.sure /\ (x.useless <=> q.useless)
      BY <1>2, <2>1, <3>1 DEF Questions, Pcs
    <3>3. NodeOk(x, a, l, o, m, P, "apply")
      BY <1>2, <3>2 DEF NodeOk, PcOk, SureOk, DataOk, Untouched
    <3>4. trouble' = 0 /\ Smooth => SmoothNode(x, l, m, f, o, P, "apply")
      BY <1>3, <3>2 DEF SmoothNode
    <3>5. QED
      BY <3>2, <3>3, <3>4
  <2>2. CASE Fault /\ x = [q EXCEPT !.pc = "done", !.outcome = "refused"]
    <3>1. /\ x \in Questions /\ x.pc = "done" /\ x.outcome = "refused"
          /\ x.undone = q.undone /\ x.sure = q.sure /\ (x.useless <=> q.useless)
      BY <1>2, <2>2 DEF Questions, Pcs, Outcomes
    <3>2. NodeOk(x, a, l, o, m, P, "apply")
      BY <1>2, <3>1 DEF NodeOk, PcOk, SureOk, DataOk
    <3>3. QED
      BY <1>3, <2>2, <3>1, <3>2
  <2>3. QED
    BY <1>4, <2>1, <2>2
<1>6. /\ Go(n, x) /\ api' = [api EXCEPT ![n] = a] /\ late' = [late EXCEPT ![n] = l]
      /\ Rest /\ UNCHANGED refuses /\ (Fine \/ Fault)
  BY <1>1, <1>4, MyNode DEF ReadBefore, Go
<1>7. QED
  BY <1>1, <1>2, <1>5, <1>6, OneNode

\* The change is made, or not, or may still be.
LEMMA PatchInv ==
    ASSUME GInv, NEW CONSTANT n \in change.nodes, Patch(n)
    PROVE  GInv'
<1>1. PICK q, a, l, o, m, P, f :
        /\ q = asked[n] /\ a = api[n] /\ l = late[n] /\ o = old[n]
        /\ m = meddled[n] /\ P = change.values /\ f = refuses[n]
  OBVIOUS
<1>2. /\ q \in Questions /\ a \in Settings /\ l \in Patches /\ o \in Settings /\ P \in Patches
      /\ f \in BOOLEAN /\ NodeOk(q, a, l, o, m, P, "apply") /\ q.pc = "patch" /\ phase = "apply"
  BY <1>1, MyNode DEF Patch
<1>3. trouble' = 0 /\ Smooth =>
        SmoothNode(q, l, m, f, o, P, "apply") /\ Fine /\ ~Fault
  BY <1>1, <1>2, MyNode DEF Smooth, Fault, Fine, Patch
<1>4. PICK new : new = Patched(a, P)
  OBVIOUS
<1>5. /\ new \in Settings /\ Shown(new) \in Shows /\ NoPatch \in Patches
      /\ q.outcome = "none" /\ q.undone = "none" /\ q.sure /\ ~q.useless
      /\ m = "no" => a = o /\ l = NoPatch /\ q.before = Shown(o)
      /\ l = NoPatch
  BY <1>2, <1>4, PatchedFacts, PatchFacts, ShownFacts DEF NodeOk, PcOk, SureOk, DataOk, Untouched
<1>6. PICK x :
        /\ asked' = [asked EXCEPT ![n] = x] /\ Rest /\ UNCHANGED refuses
        /\ \/ /\ Fine /\ x = [q EXCEPT !.pc = "done", !.outcome = "applied", !.after = Shown(new),
                                     !.changed = Differing(new, a)]
              /\ api' = [api EXCEPT ![n] = new] /\ UNCHANGED late
           \/ /\ Fine /\ f /\ x = [q EXCEPT !.pc = "done", !.outcome = "refused"]
              /\ UNCHANGED <<api, late>>
           \/ /\ Fault /\ x = [q EXCEPT !.pc = "reread", !.sure = FALSE]
              /\ \/ UNCHANGED <<api, late>>
                 \/ api' = [api EXCEPT ![n] = new] /\ UNCHANGED late
                 \/ late' = [late EXCEPT ![n] = P] /\ UNCHANGED api
           \/ \E out \in {"refused", "applied"} :
              /\ x = [q EXCEPT !.pc = "done", !.outcome = out, !.changed = {}, !.useless = TRUE]
              /\ Fault /\ api' = [api EXCEPT ![n] = new] /\ UNCHANGED late
  BY <1>1, <1>4 DEF Patch, Applied, Refused, Useless, Go
<1>7. Go(n, x) /\ Rest /\ UNCHANGED refuses
  BY <1>6 DEF Go
<1>8. UNCHANGED late => late' = [late EXCEPT ![n] = l]
  BY <1>1, MyNode
<1>9. CASE /\ Fine /\ api' = [api EXCEPT ![n] = new] /\ UNCHANGED late
           /\ x = [q EXCEPT !.pc = "done", !.outcome = "applied", !.after = Shown(new),
                            !.changed = Differing(new, a)]
  <2>1. Differing(new, a) \subseteq Items /\ Differing(new, a) \subseteq DOMAIN P
    BY <1>2, <1>4, PatchedFacts DEF Differing
  <2>2. /\ x \in Questions /\ x.pc = "done" /\ x.outcome = "applied" /\ x.undone = q.undone
        /\ x.sure = q.sure /\ (x.useless <=> q.useless) /\ x.after = Shown(new) /\ x.changed = Differing(new, a)
        /\ x.before = q.before
    BY <1>2, <1>5, <1>9, <2>1 DEF Questions, Pcs, Outcomes
  <2>3. \A i \in x.changed \ Hidden : x.after[i] = P[i]
    BY <1>2, <1>4, <1>5, <2>1, <2>2, PatchedFacts, ShownFacts
  <2>4. Differing(new, a) = {} => new = a
    BY <1>2, <1>5, SameSettings DEF Differing
  <2>5. NodeOk(x, new, l, o, m, P, "apply")
    BY <1>4, <1>5, <2>1, <2>2, <2>3, <2>4 DEF NodeOk, PcOk, SureOk, DataOk, Made
  <2>6. trouble' = 0 /\ Smooth => SmoothNode(x, l, m, f, o, P, "apply")
    BY <1>3, <2>2 DEF SmoothNode
  <2>7. /\ Go(n, x) /\ api' = [api EXCEPT ![n] = new] /\ late' = [late EXCEPT ![n] = l]
        /\ Rest /\ UNCHANGED refuses /\ (Fine \/ Fault) /\ new \in Settings
    BY <1>5, <1>7, <1>8, <1>9
  <2>8. QED
    BY <1>1, <1>2, <2>2, <2>5, <2>6, <2>7, OneNode
<1>10. CASE Fine /\ f /\ x = [q EXCEPT !.pc = "done", !.outcome = "refused"] /\ UNCHANGED <<api, late>>
  <2>1. /\ x \in Questions /\ x.pc = "done" /\ x.outcome = "refused" /\ x.undone = q.undone
        /\ x.sure = q.sure /\ (x.useless <=> q.useless)
    BY <1>2, <1>10 DEF Questions, Pcs, Outcomes
  <2>2. NodeOk(x, a, l, o, m, P, "apply")
    BY <1>5, <2>1 DEF NodeOk, PcOk, SureOk, DataOk, Untouched
  <2>3. trouble' = 0 /\ Smooth => SmoothNode(x, l, m, f, o, P, "apply")
    BY <1>3, <1>10, <2>1 DEF SmoothNode
  <2>4. /\ Go(n, x) /\ api' = [api EXCEPT ![n] = a] /\ late' = [late EXCEPT ![n] = l]
        /\ Rest /\ UNCHANGED refuses /\ (Fine \/ Fault)
    BY <1>1, <1>6, <1>10, MyNode DEF Go
  <2>5. QED
    BY <1>1, <1>2, <2>1, <2>2, <2>3, <2>4, OneNode
<1>11. CASE /\ Fault /\ x = [q EXCEPT !.pc = "reread", !.sure = FALSE]
           /\ \/ UNCHANGED <<api, late>>
              \/ api' = [api EXCEPT ![n] = new] /\ UNCHANGED late
              \/ late' = [late EXCEPT ![n] = P] /\ UNCHANGED api
  <2>1. /\ x \in Questions /\ x.pc = "reread" /\ x.outcome = "none" /\ x.undone = "none"
        /\ ~x.sure /\ x.before = q.before /\ ~x.useless
    BY <1>2, <1>5, <1>11 DEF Questions, Pcs
  <2>2. PICK c \in Settings, k \in Patches :
          /\ api' = [api EXCEPT ![n] = c] /\ late' = [late EXCEPT ![n] = k]
          /\ (c = a /\ k = l) \/ (c = new /\ k = l) \/ (c = a /\ k = P)
    <3>1. api = [api EXCEPT ![n] = a] /\ late = [late EXCEPT ![n] = l]
      BY <1>1, MyNode
    <3>2. CASE UNCHANGED <<api, late>>
      BY <1>2, <3>1, <3>2
    <3>3. CASE api' = [api EXCEPT ![n] = new] /\ UNCHANGED late
      BY <1>2, <1>5, <3>1, <3>3
    <3>4. CASE late' = [late EXCEPT ![n] = P] /\ UNCHANGED api
      BY <1>2, <3>1, <3>4
    <3>5. QED
      BY <1>11, <3>2, <3>3, <3>4
  <2>3. NodeOk(x, c, k, o, m, P, "apply")
    <3>1. m = "no" => a = o /\ l = NoPatch /\ x.before = Shown(o)
      BY <1>5, <2>1
    <3>2. CASE c = a /\ k = l
      BY <1>4, <1>5, <2>1, <3>1, <3>2 DEF NodeOk, PcOk, SureOk, DataOk, Untouched, Made, Open
    <3>3. CASE c = new /\ k = l
      BY <1>4, <1>5, <2>1, <3>1, <3>3 DEF NodeOk, PcOk, SureOk, DataOk, Untouched, Made, Open
    <3>4. CASE c = a /\ k = P
      BY <1>4, <1>5, <2>1, <3>1, <3>4 DEF NodeOk, PcOk, SureOk, DataOk, Untouched, Made, Open
    <3>5. QED
      BY <2>2, <3>2, <3>3, <3>4
  <2>4. Go(n, x)
    BY <1>6 DEF Go
  <2>5. QED
    BY <1>1, <1>2, <1>3, <1>6, <1>11, <2>1, <2>2, <2>3, <2>4, OneNode
<1>12. ASSUME NEW out \in {"refused", "applied"}, Fault, api' = [api EXCEPT ![n] = new], UNCHANGED late,
              x = [q EXCEPT !.pc = "done", !.outcome = out, !.changed = {}, !.useless = TRUE]
       PROVE  GInv'
  <2>1. /\ x \in Questions /\ x.pc = "done" /\ x.outcome = out /\ x.undone = "none"
        /\ x.sure /\ x.useless /\ x.changed = {} /\ x.before = q.before
    BY <1>2, <1>5, <1>12 DEF Questions, Pcs, Outcomes
  <2>2. NodeOk(x, new, l, o, m, P, "apply")
    BY <1>4, <1>5, <2>1 DEF NodeOk, PcOk, SureOk, DataOk, Made
  <2>3. /\ Go(n, x) /\ api' = [api EXCEPT ![n] = new] /\ late' = [late EXCEPT ![n] = l]
        /\ Rest /\ UNCHANGED refuses /\ (Fine \/ Fault) /\ new \in Settings
    BY <1>5, <1>12, <1>7, <1>8
  <2>4. ~(trouble' = 0 /\ Smooth)
    BY <1>3, <1>12
  <2>5. QED
    BY <1>1, <1>2, <2>1, <2>2, <2>3, <2>4, OneNode
<1>13. QED
  BY <1>6, <1>9, <1>10, <1>11, <1>12

\* What a node shows afterwards decides whether it took the change.
LEMMA RereadInv ==
    ASSUME GInv, NEW CONSTANT n \in change.nodes, Reread(n)
    PROVE  GInv'
<1>1. PICK q, a, l, o, m, P, f :
        /\ q = asked[n] /\ a = api[n] /\ l = late[n] /\ o = old[n]
        /\ m = meddled[n] /\ P = change.values /\ f = refuses[n]
  OBVIOUS
<1>2. /\ q \in Questions /\ a \in Settings /\ l \in Patches /\ o \in Settings /\ P \in Patches
      /\ f \in BOOLEAN /\ NodeOk(q, a, l, o, m, P, "apply") /\ q.pc = "reread" /\ phase = "apply"
  BY <1>1, MyNode DEF Reread
<1>3. trouble' = 0 /\ Smooth =>
        SmoothNode(q, l, m, f, o, P, "apply") /\ Fine /\ ~Fault
  BY <1>1, <1>2, MyNode DEF Smooth, Fault, Fine, Reread
<1>4. /\ q.outcome = "none" /\ q.undone = "none" /\ ~q.sure /\ ~q.useless
      /\ m = "no" => /\ q.before = Shown(o)
                     /\ Untouched(a, l, o) \/ Made(a, l, o, P) \/ Open(a, l, o, P)
  BY <1>2 DEF NodeOk, PcOk, DataOk
<1>5. ~(trouble' = 0 /\ Smooth)
  BY <1>3, <1>4 DEF SmoothNode
<1>6. PICK now, ch, out :
        /\ now = Shown(a) /\ ch = {i \in DOMAIN P : now[i] # q.before[i]}
        /\ out = IF ch = {} /\ ~\A i \in DOMAIN P : q.before[i] = P[i] THEN "unknown" ELSE "applied"
  OBVIOUS
<1>7. now \in Shows /\ ch \subseteq Items
  BY <1>2, <1>6, ShownFacts, PatchFacts
<1>8. PICK x :
        /\ asked' = [asked EXCEPT ![n] = x]
        /\ \/ x = [q EXCEPT !.pc = "done", !.after = now, !.changed = ch, !.outcome = out]
           \/ x = [q EXCEPT !.pc = "done", !.outcome = "unknown"]
  <2>1. Judged(n, now) = [q EXCEPT !.pc = "done", !.after = now, !.changed = ch, !.outcome = out]
    BY <1>1, <1>6, Zenon DEF Judged
  <2>2. QED
    BY <1>1, <1>6, <2>1 DEF Reread, Go
<1>9. x \in Questions /\ NodeOk(x, a, l, o, m, P, "apply")
  <2>1. CASE x = [q EXCEPT !.pc = "done", !.after = now, !.changed = ch, !.outcome = out]
    <3>1. out \in {"unknown", "applied"}
      BY <1>6
    <3>2. /\ x \in Questions /\ x.pc = "done" /\ x.outcome = out /\ x.undone = "none" /\ ~x.sure
          /\ ~x.useless
          /\ x.after = now /\ x.changed = ch /\ x.before = q.before
      BY <1>2, <1>4, <1>7, <2>1, <3>1 DEF Questions, Pcs, Outcomes
    <3>3. ASSUME m = "no", out = "applied"
          PROVE  /\ ch # {} => Made(a, l, o, P) /\ now = Shown(Patched(o, P))
                 /\ ch = {} => Patched(o, P) = o /\ a = o /\ l \in {NoPatch, P}
      <4>1. CASE ch # {}
        <5>1. a # o
          BY <1>4, <1>6, <3>3, <4>1
        <5>2. QED
          BY <1>4, <1>6, <3>3, <4>1, <5>1 DEF Untouched, Made, Open
      <4>2. CASE ch = {}
        <5>1. \A i \in DOMAIN P : Shown(o)[i] = P[i]
          BY <1>4, <1>6, <3>3, <4>2
        <5>2. Patched(o, P) = o
          BY <1>2, <5>1, AsWanted
        <5>3. QED
          BY <1>4, <3>3, <4>2, <5>2 DEF Untouched, Made, Open
      <4>3. QED
        BY <4>1, <4>2
    <3>4. m = "no" => ch = {i \in DOMAIN P : now[i] # Shown(o)[i]}
      BY <1>4, <1>6
    <3>5. PcOk(x, "apply") /\ SureOk(x, a, l, m, P)
      BY <3>1, <3>2 DEF PcOk, SureOk
    <3>6. m = "no" => DataOk(x, a, l, o, P)
      BY <1>4, <3>1, <3>2, <3>3, <3>4 DEF DataOk
    <3>7. QED
      BY <3>2, <3>5, <3>6 DEF NodeOk
  <2>2. CASE x = [q EXCEPT !.pc = "done", !.outcome = "unknown"]
    <3>1. /\ x \in Questions /\ x.pc = "done" /\ x.outcome = "unknown" /\ x.undone = "none" /\ ~x.sure
          /\ ~x.useless
      BY <1>2, <1>4, <2>2 DEF Questions, Pcs, Outcomes
    <3>2. QED
      BY <3>1 DEF NodeOk, PcOk, SureOk, DataOk
  <2>3. QED
    BY <1>8, <2>1, <2>2
<1>10. /\ Go(n, x) /\ api' = [api EXCEPT ![n] = a] /\ late' = [late EXCEPT ![n] = l]
       /\ Rest /\ UNCHANGED refuses /\ (Fine \/ Fault)
  BY <1>1, <1>8, MyNode DEF Reread, Go
<1>11. QED
  BY <1>1, <1>2, <1>5, <1>9, <1>10, OneNode

\* What is to be put back: what is still as the change left it, and not masked.
LEMMA ReadUndoInv ==
    ASSUME GInv, NEW CONSTANT n \in change.nodes, ReadUndo(n)
    PROVE  GInv'
<1>1. PICK q, a, l, o, m, P, f :
        /\ q = asked[n] /\ a = api[n] /\ l = late[n] /\ o = old[n]
        /\ m = meddled[n] /\ P = change.values /\ f = refuses[n]
  OBVIOUS
<1>2. /\ q \in Questions /\ a \in Settings /\ l \in Patches /\ o \in Settings /\ P \in Patches
      /\ f \in BOOLEAN /\ NodeOk(q, a, l, o, m, P, "undo") /\ q.pc = "undo" /\ phase = "undo"
  BY <1>1, MyNode DEF ReadUndo
<1>3. trouble' = 0 /\ Smooth =>
        SmoothNode(q, l, m, f, o, P, "undo") /\ Fine /\ ~Fault
  BY <1>1, <1>2, MyNode DEF Smooth, Fault, Fine, ReadUndo
<1>4. /\ q.outcome = "applied" /\ q.undone = "none" /\ q.changed # {} /\ q.changed \subseteq Items
      /\ ~q.useless
      /\ q.before \in Shows /\ q.after \in Shows
      /\ m = "no" => /\ Made(a, l, o, P) /\ q.before = Shown(o) /\ q.after = Shown(Patched(o, P))
                     /\ q.sure => q.changed = Differing(Patched(o, P), o)
                     /\ ~q.sure => q.changed = {i \in DOMAIN P : q.after[i] # Shown(o)[i]}
  BY <1>2 DEF NodeOk, PcOk, DataOk, Questions
<1>5. PICK now, b :
        /\ now = Shown(a)
        /\ b = [i \in {j \in q.changed \ {k \in q.changed : q.before[k] = Mask} :
                         now[j] = q.after[j]} |-> q.before[i]]
  OBVIOUS
<1>6. /\ b \in Patches /\ DOMAIN b \subseteq q.changed
      /\ \A i \in DOMAIN b : now[i] = q.after[i]
      /\ \A i \in q.changed : q.before[i] # Mask /\ now[i] = q.after[i]
                              => i \in DOMAIN b /\ b[i] = q.before[i]
  <2>1. DOMAIN b = {j \in q.changed \ {k \in q.changed : q.before[k] = Mask} : now[j] = q.after[j]}
    BY <1>5
  <2>2. DOMAIN b \in SUBSET Items
    BY <1>4, <2>1
  <2>3. \A i \in DOMAIN b : q.before[i] \in Values \union {Null}
    BY <1>4, <2>1 DEF Shows
  <2>4. b \in [DOMAIN b -> Values \union {Null}]
    BY <1>5, <2>1, <2>3
  <2>5. QED
    BY <1>5, <2>1, <2>2, <2>4, PatchFacts
<1>7. PICK x :
        /\ asked' = [asked EXCEPT ![n] = x]
        /\ \/ Fine /\ x = [q EXCEPT !.pc = "putback", !.back = b]
           \/ Fault /\ x = [q EXCEPT !.pc = "done", !.undone = "no"]
  <2>1. Back(n, now) = b
    BY <1>1, <1>5 DEF Back, Masked
  <2>2. QED
    BY <1>1, <1>5, <2>1 DEF ReadUndo, NotUndone, Go
<1>8. /\ x \in Questions /\ NodeOk(x, a, l, o, m, P, "undo")
      /\ trouble' = 0 /\ Smooth => SmoothNode(x, l, m, f, o, P, "undo")
  <2>1. CASE Fine /\ x = [q EXCEPT !.pc = "putback", !.back = b]
    <3>1. /\ x \in Questions /\ x.pc = "putback" /\ x.back = b /\ x.outcome = q.outcome
          /\ x.undone = q.undone /\ x.sure = q.sure /\ (x.useless <=> q.useless) /\ x.changed = q.changed
          /\ x.before = q.before /\ x.after = q.after
      BY <1>2, <1>6, <2>1 DEF Questions, Pcs
    <3>2. m = "no" => now = q.after
      BY <1>4, <1>5 DEF Made
    <3>3. \A i \in DOMAIN b \ Hidden : a[i] = q.after[i]
      BY <1>2, <1>4, <1>5, <1>6, ShownFacts
    <3>4. PcOk(x, "undo") /\ SureOk(x, a, l, m, P)
      BY <1>2, <1>4, <1>6, <3>1, <3>3 DEF NodeOk, PcOk, SureOk
    <3>5. m = "no" => DataOk(x, a, l, o, P)
      BY <1>2, <1>4, <1>6, <3>1, <3>2 DEF NodeOk, DataOk
    <3>6. trouble' = 0 /\ Smooth => SmoothNode(x, l, m, f, o, P, "undo")
      BY <1>3, <3>1 DEF SmoothNode
    <3>7. QED
      BY <3>1, <3>4, <3>5, <3>6 DEF NodeOk
  <2>2. CASE Fault /\ x = [q EXCEPT !.pc = "done", !.undone = "no"]
    <3>1. /\ x \in Questions /\ x.pc = "done" /\ x.outcome = q.outcome /\ x.undone = "no"
          /\ x.sure = q.sure /\ (x.useless <=> q.useless) /\ x.changed = q.changed /\ x.before = q.before /\ x.after = q.after
      BY <1>2, <2>2 DEF Questions, Pcs
    <3>2. NodeOk(x, a, l, o, m, P, "undo")
      BY <1>2, <1>4, <3>1 DEF NodeOk, PcOk, SureOk, DataOk
    <3>3. QED
      BY <1>3, <2>2, <3>1, <3>2
  <2>3. QED
    BY <1>7, <2>1, <2>2
<1>9. /\ Go(n, x) /\ api' = [api EXCEPT ![n] = a] /\ late' = [late EXCEPT ![n] = l]
      /\ Rest /\ UNCHANGED refuses /\ (Fine \/ Fault)
  BY <1>1, <1>7, MyNode DEF ReadUndo, Go
<1>10. QED
  BY <1>1, <1>2, <1>8, <1>9, OneNode

\* The node is as it was, unless something masked was changed.
LEMMA PutBackInv ==
    ASSUME GInv, NEW CONSTANT n \in change.nodes, PutBack(n)
    PROVE  GInv'
<1>1. PICK q, a, l, o, m, P, f :
        /\ q = asked[n] /\ a = api[n] /\ l = late[n] /\ o = old[n]
        /\ m = meddled[n] /\ P = change.values /\ f = refuses[n]
  OBVIOUS
<1>2. /\ q \in Questions /\ a \in Settings /\ l \in Patches /\ o \in Settings /\ P \in Patches
      /\ f \in BOOLEAN /\ NodeOk(q, a, l, o, m, P, "undo") /\ q.pc = "putback" /\ phase = "undo"
  BY <1>1, MyNode DEF PutBack
<1>3. trouble' = 0 /\ Smooth =>
        SmoothNode(q, l, m, f, o, P, "undo") /\ Fine /\ ~Fault
        /\ \A i \in DOMAIN P : Shown(o)[i] # Mask
  BY <1>1, <1>2, MyNode DEF Smooth, Fault, Fine, PutBack, Unmasked
<1>4. /\ q.outcome = "applied" /\ q.undone = "none" /\ q.changed # {} /\ q.changed \subseteq Items
      /\ ~q.useless
      /\ q.before \in Shows /\ q.after \in Shows
      /\ m = "no" => /\ Made(a, l, o, P) /\ q.before = Shown(o) /\ q.after = Shown(Patched(o, P))
                     /\ q.sure => q.changed = Differing(Patched(o, P), o)
                     /\ ~q.sure => q.changed = {i \in DOMAIN P : q.after[i] # Shown(o)[i]}
  BY <1>2 DEF NodeOk, PcOk, DataOk, Questions
<1>5. /\ q.back \in Patches /\ DOMAIN q.back \subseteq q.changed
      /\ m = "no" => \A i \in q.changed : q.before[i] # Mask => i \in DOMAIN q.back /\ q.back[i] = q.before[i]
      /\ q.sure => q.changed \subseteq DOMAIN P
  BY <1>2, <1>4 DEF Questions, NodeOk, SureOk, DataOk
<1>6. PICK c, z :
        /\ c = Patched(a, q.back)
        /\ z = IF {i \in q.changed : q.before[i] = Mask} = {} THEN "yes" ELSE "no"
  OBVIOUS
<1>7. c \in Settings /\ \A i \in Items : c[i] = IF i \in DOMAIN q.back THEN q.back[i] ELSE a[i]
  BY <1>2, <1>5, <1>6, PatchedFacts
<1>8. z \in {"yes", "no"} /\ (z = "yes" => \A i \in q.changed : q.before[i] # Mask)
  BY <1>6
<1>9. PICK x :
        /\ asked' = [asked EXCEPT ![n] = x] /\ Rest /\ UNCHANGED refuses
        /\ \/ /\ Fine /\ x = [q EXCEPT !.pc = "done", !.undone = z]
              /\ api' = [api EXCEPT ![n] = c] /\ UNCHANGED late
           \/ /\ Fault /\ x = [q EXCEPT !.pc = "done", !.undone = "no"]
              /\ \/ UNCHANGED <<api, late>>
                 \/ api' = [api EXCEPT ![n] = c] /\ UNCHANGED late
                 \/ late' = [late EXCEPT ![n] = After(l, q.back)] /\ UNCHANGED api
  <2>1. Undone(n) = [q EXCEPT !.pc = "done", !.undone = z]
    BY <1>1, <1>6 DEF Undone, Masked
  <2>2. QED
    BY <1>1, <1>6, <2>1 DEF PutBack, NotUndone, Go
<1>10. CASE /\ Fine /\ x = [q EXCEPT !.pc = "done", !.undone = z]
            /\ api' = [api EXCEPT ![n] = c] /\ UNCHANGED late
  <2>1. /\ x \in Questions /\ x.pc = "done" /\ x.outcome = q.outcome /\ x.undone = z
        /\ x.sure = q.sure /\ (x.useless <=> q.useless) /\ x.changed = q.changed /\ x.before = q.before /\ x.after = q.after
    BY <1>2, <1>8, <1>10 DEF Questions, Pcs
  <2>2. ASSUME m = "no", z = "yes"
        PROVE  StaysAs(c, l, o, IF q.sure THEN Items ELSE Items \ Hidden)
    <3>1. l = NoPatch /\ a = Patched(o, P)
      BY <1>4, <2>2 DEF Made
    <3>2. ASSUME NEW i \in Items, i \in q.changed
          PROVE  c[i] = o[i]
      BY <1>2, <1>4, <1>5, <1>7, <1>8, <2>2, <3>2, ShownFacts
    <3>3. ASSUME NEW i \in Items, i \notin q.changed, q.sure \/ i \notin Hidden
          PROVE  c[i] = o[i]
      <4>1. c[i] = a[i]
        BY <1>5, <1>7, <3>3
      <4>2. CASE q.sure
        BY <1>4, <2>2, <3>1, <3>3, <4>1, <4>2 DEF Differing
      <4>3. CASE i \notin Hidden /\ i \in DOMAIN P
        BY <1>2, <1>4, <2>2, <3>1, <3>3, <4>1, <4>2, <4>3, ShownFacts, PatchedFacts
      <4>4. CASE i \notin DOMAIN P
        BY <1>2, <3>1, <4>1, <4>4, PatchedFacts
      <4>5. QED
        BY <3>3, <4>2, <4>3, <4>4
    <3>4. QED
      BY <3>1, <3>2, <3>3, PatchFacts DEF StaysAs
  <2>3. NodeOk(x, c, l, o, m, P, "undo")
    BY <1>2, <1>4, <1>8, <2>1, <2>2 DEF NodeOk, PcOk, SureOk, DataOk
  <2>4. trouble' = 0 /\ Smooth => SmoothNode(x, l, m, f, o, P, "undo")
    <3>1. trouble' = 0 /\ Smooth => z = "yes"
      BY <1>3, <1>4, <1>5, <1>6 DEF SmoothNode
    <3>2. QED
      BY <1>3, <2>1, <3>1 DEF SmoothNode
  <2>5. /\ Go(n, x) /\ late' = [late EXCEPT ![n] = l] /\ api' = [api EXCEPT ![n] = c]
        /\ Rest /\ UNCHANGED refuses /\ (Fine \/ Fault)
    BY <1>1, <1>9, <1>10, MyNode DEF Go
  <2>6. QED
    BY <1>1, <1>2, <1>7, <2>1, <2>3, <2>4, <2>5, OneNode
<1>11. CASE /\ Fault /\ x = [q EXCEPT !.pc = "done", !.undone = "no"]
            /\ \/ UNCHANGED <<api, late>>
               \/ api' = [api EXCEPT ![n] = c] /\ UNCHANGED late
               \/ late' = [late EXCEPT ![n] = After(l, q.back)] /\ UNCHANGED api
  <2>1. /\ x \in Questions /\ x.pc = "done" /\ x.outcome = q.outcome /\ x.undone = "no"
        /\ x.sure = q.sure /\ (x.useless <=> q.useless) /\ x.changed = q.changed /\ x.before = q.before /\ x.after = q.after
    BY <1>2, <1>11 DEF Questions, Pcs
  <2>2. PICK d \in Settings, k \in Patches :
          api' = [api EXCEPT ![n] = d] /\ late' = [late EXCEPT ![n] = k]
    BY <1>1, <1>2, <1>5, <1>7, <1>11, MyNode, AfterType
  <2>3. NodeOk(x, d, k, o, m, P, "undo")
    BY <1>2, <1>4, <2>1 DEF NodeOk, PcOk, SureOk, DataOk
  <2>4. Go(n, x) /\ Rest /\ UNCHANGED refuses /\ (Fine \/ Fault)
    BY <1>9, <1>11 DEF Go
  <2>5. QED
    BY <1>1, <1>2, <1>3, <1>11, <2>1, <2>2, <2>3, <2>4, OneNode
<1>12. QED
  BY <1>9, <1>10, <1>11

(***************************************************************************)
(* From one phase to the next.                                             *)
(***************************************************************************)

\* What a change of phase has to show.
LEMMA Onward ==
    ASSUME GInv, NEW CONSTANT ph \in {"look", "dry", "apply", "undo", "answered"}, phase' = ph,
           UNCHANGED <<api, refuses, late, change, trouble, old, meddled>>,
           asked' \in [Nodes -> Questions],
           \A n \in change.nodes :
             NodeOk(asked'[n], api[n], late[n], old[n], meddled[n], change.values, ph),
           \A n \in Nodes \ change.nodes : asked'[n] = asked[n],
           trouble = 0 /\ Smooth => Smooth' /\ GroupAllOrNone'
    PROVE  GInv'
<1>1. GTypeOK'
  BY DEF GInv, GTypeOK
<1>2. GroupAllOrNone'
  BY DEF GInv, GroupAllOrNone
<1>3. QED
  BY <1>1, <1>2 DEF GInv

\* A group with something masked in the change is asked first; others are not.
LEMMA LookedInv ==
    ASSUME GInv, Looked
    PROVE  GInv'
<1>1. PICK ph \in {"dry", "apply"} :
        /\ phase' = ph
        /\ ph = "apply" => \A n \in change.nodes : ~asked[n].risky
  BY DEF Looked
<1>2. \A n \in change.nodes : asked'[n] = [asked[n] EXCEPT !.pc = "read"]
  BY MyNode DEF Looked, All
<1>3. \A n \in Nodes \ change.nodes : asked'[n] = asked[n]
  BY DEF Looked, All
<1>4. ASSUME NEW CONSTANT n \in change.nodes
      PROVE  /\ asked'[n] \in Questions
             /\ NodeOk(asked'[n], api[n], late[n], old[n], meddled[n], change.values, ph)
             /\ trouble = 0 /\ Smooth =>
                  /\ SmoothNode(asked'[n], late[n], meddled[n], refuses[n], old[n], change.values, ph)
                  /\ ph = "apply" => \A i \in DOMAIN change.values : Shown(old[n])[i] # Mask
  <2>1. PICK q, x, a, l, o, m, P, f :
          /\ q = asked[n] /\ a = api[n] /\ l = late[n] /\ o = old[n] /\ x = asked'[n]
          /\ m = meddled[n] /\ P = change.values /\ f = refuses[n]
    OBVIOUS
  <2>2. /\ q \in Questions /\ NodeOk(q, a, l, o, m, P, "look") /\ q.pc = "done"
        /\ x = [q EXCEPT !.pc = "read"]
        /\ trouble = 0 /\ Smooth => SmoothNode(q, l, m, f, o, P, "look")
    BY <1>2, <2>1, MyNode DEF Looked, Together, Smooth
  <2>3. /\ x \in Questions /\ x.pc = "read" /\ x.outcome = q.outcome /\ x.undone = q.undone
        /\ x.sure = q.sure /\ (x.useless <=> q.useless) /\ x.risky = q.risky
    BY <2>2 DEF Questions, Pcs
  <2>4. NodeOk(x, a, l, o, m, P, ph)
    BY <1>1, <2>2, <2>3 DEF NodeOk, PcOk, SureOk, DataOk, Untouched
  <2>5. trouble = 0 /\ Smooth => SmoothNode(x, l, m, f, o, P, ph)
    BY <1>1, <2>2, <2>3 DEF SmoothNode, NodeOk, PcOk
  <2>6. trouble = 0 /\ Smooth /\ ph = "apply" => \A i \in DOMAIN P : Shown(o)[i] # Mask
    BY <1>1, <2>1, <2>2 DEF SmoothNode
  <2>7. QED
    BY <2>1, <2>3, <2>4, <2>5, <2>6
<1>5. asked' \in [Nodes -> Questions]
  <2>1. DOMAIN asked' = Nodes /\ \A n \in Nodes : asked'[n] \in Questions
    BY <1>3, <1>4 DEF Looked, All, GInv, GTypeOK
  <2>2. asked' = [n \in Nodes |-> asked'[n]]
    BY DEF Looked, All
  <2>3. QED
    BY <2>1, <2>2
<1>6. trouble = 0 /\ Smooth => Smooth' /\ GroupAllOrNone'
  BY <1>1, <1>4 DEF Smooth, Unmasked, GroupAllOrNone, Looked
<1>7. UNCHANGED <<api, refuses, late, change, trouble, old, meddled>>
  BY DEF Looked
<1>8. QED
  BY <1>1, <1>3, <1>4, <1>5, <1>6, <1>7, Onward

\* One refusal of the dry run, and nothing has been sent to any of them.
LEMMA DriedOutInv ==
    ASSUME GInv, DriedOut
    PROVE  GInv'
<1>1. PICK ph \in {"answered", "apply"} :
        /\ phase' = ph
        /\ ph = "apply" => \A n \in change.nodes : asked[n].outcome # "refused"
        /\ \A n \in change.nodes :
             asked'[n] = IF ph = "apply" THEN [asked[n] EXCEPT !.pc = "read"]
                                         ELSE [asked[n] EXCEPT !.outcome = "refused"]
        /\ \A n \in Nodes \ change.nodes : asked'[n] = asked[n]
        /\ asked' = [n \in Nodes |-> asked'[n]]
  BY MyNode DEF DriedOut, All
<1>2. ASSUME NEW CONSTANT n \in change.nodes
      PROVE  /\ asked'[n] \in Questions
             /\ NodeOk(asked'[n], api[n], late[n], old[n], meddled[n], change.values, ph)
             /\ trouble = 0 /\ Smooth =>
                  /\ SmoothNode(asked'[n], late[n], meddled[n], refuses[n], old[n], change.values, ph)
                  /\ ph = "apply" => ~refuses[n]
                  /\ api[n] = old[n]
  <2>1. PICK q, x, a, l, o, m, P, f :
          /\ q = asked[n] /\ a = api[n] /\ l = late[n] /\ o = old[n] /\ x = asked'[n]
          /\ m = meddled[n] /\ P = change.values /\ f = refuses[n]
    OBVIOUS
  <2>2. /\ q \in Questions /\ NodeOk(q, a, l, o, m, P, "dry") /\ q.pc = "done"
        /\ x = IF ph = "apply" THEN [q EXCEPT !.pc = "read"] ELSE [q EXCEPT !.outcome = "refused"]
        /\ ph = "apply" => q.outcome # "refused"
        /\ trouble = 0 /\ Smooth => SmoothNode(q, l, m, f, o, P, "dry")
    BY <1>1, <2>1, MyNode DEF DriedOut, Together, Smooth
  <2>3. /\ x \in Questions /\ x.undone = q.undone /\ x.sure = q.sure /\ (x.useless <=> q.useless)
        /\ ph = "apply" => x.pc = "read" /\ x.outcome = q.outcome
        /\ ph = "answered" => x.pc = "done" /\ x.outcome = "refused"
    BY <1>1, <2>2 DEF Questions, Pcs, Outcomes
  <2>4. NodeOk(x, a, l, o, m, P, ph)
    BY <1>1, <2>2, <2>3 DEF NodeOk, PcOk, SureOk, DataOk, Untouched
  <2>5. trouble = 0 /\ Smooth =>
          SmoothNode(x, l, m, f, o, P, ph) /\ a = o /\ (ph = "apply" => ~f)
    BY <1>1, <2>2, <2>3 DEF SmoothNode, NodeOk, PcOk, DataOk, Untouched
  <2>6. QED
    BY <2>1, <2>3, <2>4, <2>5
<1>3. asked' \in [Nodes -> Questions]
  <2>1. \A n \in Nodes : asked'[n] \in Questions
    BY <1>1, <1>2 DEF GInv, GTypeOK
  <2>2. QED
    BY <1>1, <2>1
<1>4. UNCHANGED <<api, refuses, late, change, trouble, old, meddled>>
  BY DEF DriedOut
<1>5. trouble = 0 /\ Smooth => Smooth' /\ GroupAllOrNone'
  BY <1>1, <1>2, <1>4 DEF Smooth, Willing, GroupAllOrNone
<1>6. QED
  BY <1>1, <1>2, <1>3, <1>4, <1>5, Onward

\* What an answer says of a node can be carried over to the next phase: a node
\* that took the change without changing anything is as good as put back.
LEMMA NothingToPutBack ==
    ASSUME NEW q \in Questions, NEW a \in Settings, NEW l \in Patches, NEW o \in Settings,
           NEW P \in Patches, DataOk(q, a, l, o, P),
           q.outcome = "applied", q.undone = "none", q.changed = {}, ~q.useless
    PROVE  StaysAs(a, l, o, Items)
<1>1. Patched(o, P) = o /\ a = o /\ l \in {NoPatch, P}
  BY DEF DataOk
<1>2. \A i \in DOMAIN P : P[i] = o[i]
  BY <1>1, PatchedFacts, PatchFacts
<1>3. QED
  BY <1>1, <1>2, PatchFacts DEF StaysAs

\* All have been heard, and one of a group has not taken the change.
LEMMA HeardUndo ==
    ASSUME GInv, Heard, phase' = "undo"
    PROVE  GInv'
<1>1. /\ phase = "apply" /\ Bad /\ Several
      /\ \A n \in change.nodes : asked[n].pc = "done"
      /\ asked' = [n \in Nodes |->
           CASE asked[n].outcome = "applied" ->
                  [asked[n] EXCEPT !.pc = IF asked[n].changed = {} THEN "done" ELSE "undo",
                                   !.undone = IF asked[n].changed = {} THEN "yes" ELSE "none"]
             [] asked[n].outcome = "unknown" -> [asked[n] EXCEPT !.undone = "no"]
             [] OTHER -> asked[n]]
      /\ UNCHANGED <<api, refuses, late, change, trouble, old, meddled>>
  BY DEF Heard, Together, Several
<1>2. \A n \in Nodes \ change.nodes : asked'[n] = asked[n]
  BY <1>1 DEF GInv
<1>3. ASSUME NEW CONSTANT n \in change.nodes
      PROVE  /\ asked'[n] \in Questions
             /\ NodeOk(asked'[n], api[n], late[n], old[n], meddled[n], change.values, "undo")
             /\ trouble = 0 /\ Smooth =>
                  SmoothNode(asked'[n], late[n], meddled[n], refuses[n], old[n], change.values, "undo")
  <2>1. PICK q, x, a, l, o, m, P, f :
          /\ q = asked[n] /\ a = api[n] /\ l = late[n] /\ o = old[n] /\ x = asked'[n]
          /\ m = meddled[n] /\ P = change.values /\ f = refuses[n]
    OBVIOUS
  <2>2. /\ q \in Questions /\ NodeOk(q, a, l, o, m, P, "apply") /\ q.pc = "done"
        /\ a \in Settings /\ l \in Patches /\ o \in Settings /\ P \in Patches
        /\ trouble = 0 /\ Smooth => SmoothNode(q, l, m, f, o, P, "apply")
    BY <1>1, <2>1, MyNode DEF Smooth
  <2>3. /\ q.outcome \in {"applied", "refused", "unknown"} /\ q.undone = "none"
    BY <2>2 DEF NodeOk, PcOk, Questions, Outcomes
  <2>4. /\ q.outcome = "applied" /\ q.changed = {} => x = [q EXCEPT !.pc = "done", !.undone = "yes"]
        /\ q.outcome = "applied" /\ q.changed # {} => x = [q EXCEPT !.pc = "undo", !.undone = "none"]
        /\ q.outcome = "unknown" => x = [q EXCEPT !.undone = "no"]
        /\ q.outcome = "refused" => x = q
    BY <1>1, <2>1, MyNode
  <2>5. CASE q.outcome = "applied" /\ q.changed = {}
    <3>1. /\ x \in Questions /\ x.pc = "done" /\ x.outcome = "applied" /\ x.undone = "yes"
          /\ x.sure = q.sure /\ (x.useless <=> q.useless) /\ x.changed = q.changed /\ x.before = q.before /\ x.after = q.after
      BY <2>2, <2>4, <2>5 DEF Questions, Pcs
    <3>2. ASSUME m = "no"
          PROVE  /\ q.before = Shown(o)
                 /\ x.useless => Made(a, l, o, P)
                 /\ ~x.useless => StaysAs(a, l, o, IF x.sure THEN Items ELSE Items \ Hidden)
      <4>1. DataOk(q, a, l, o, P)
        BY <2>2, <3>2 DEF NodeOk
      <4>2. ~q.useless => StaysAs(a, l, o, Items)
        BY <2>2, <2>3, <2>5, <4>1, NothingToPutBack
      <4>3. q.before = Shown(o) /\ (q.useless => Made(a, l, o, P))
        BY <2>5, <4>1 DEF DataOk
      <4>4. QED
        BY <3>1, <4>2, <4>3 DEF StaysAs
    <3>3. PcOk(x, "undo") /\ SureOk(x, a, l, m, P)
      BY <2>2, <2>5, <3>1 DEF NodeOk, PcOk, SureOk
    <3>4. m = "no" => DataOk(x, a, l, o, P)
      BY <3>1, <3>2 DEF DataOk
    <3>5. trouble = 0 /\ Smooth => SmoothNode(x, l, m, f, o, P, "undo")
      BY <2>2, <3>1 DEF SmoothNode
    <3>6. QED
      BY <2>1, <3>1, <3>3, <3>4, <3>5 DEF NodeOk
  <2>6. CASE q.outcome = "applied" /\ q.changed # {}
    <3>1. /\ x \in Questions /\ x.pc = "undo" /\ x.outcome = "applied" /\ x.undone = "none"
          /\ x.sure = q.sure /\ (x.useless <=> q.useless) /\ x.changed = q.changed /\ x.before = q.before /\ x.after = q.after
      BY <2>2, <2>4, <2>6 DEF Questions, Pcs
    <3>2. PcOk(x, "undo") /\ SureOk(x, a, l, m, P)
      BY <2>2, <2>3, <2>6, <3>1 DEF NodeOk, PcOk, SureOk
    <3>3. m = "no" => DataOk(x, a, l, o, P)
      BY <2>2, <2>3, <2>6, <3>1 DEF NodeOk, DataOk
    <3>4. trouble = 0 /\ Smooth => SmoothNode(x, l, m, f, o, P, "undo")
      BY <2>2, <3>1 DEF SmoothNode
    <3>5. QED
      BY <2>1, <3>1, <3>2, <3>3, <3>4 DEF NodeOk
  <2>7. CASE q.outcome = "unknown"
    <3>1. /\ x \in Questions /\ x.pc = "done" /\ x.outcome = "unknown" /\ x.undone = "no"
          /\ x.sure = q.sure /\ ~x.useless /\ x.changed = q.changed /\ x.before = q.before /\ x.after = q.after
      <4>1. ~q.useless
        BY <2>2, <2>7 DEF NodeOk, PcOk
      <4>2. QED
        BY <2>2, <2>4, <2>7, <4>1 DEF Questions
    <3>2. NodeOk(x, a, l, o, m, P, "undo")
      BY <2>2, <3>1 DEF NodeOk, PcOk, SureOk, DataOk
    <3>3. trouble = 0 /\ Smooth => SmoothNode(x, l, m, f, o, P, "undo")
      BY <2>2, <2>7 DEF SmoothNode
    <3>4. QED
      BY <2>1, <3>1, <3>2, <3>3
  <2>8. CASE q.outcome = "refused"
    <3>1. x = q
      BY <2>4, <2>8
    <3>2. NodeOk(x, a, l, o, m, P, "undo")
      BY <2>2, <2>3, <2>8, <3>1 DEF NodeOk, PcOk, SureOk, DataOk
    <3>3. trouble = 0 /\ Smooth => SmoothNode(x, l, m, f, o, P, "undo")
      BY <2>2, <2>3, <3>1 DEF SmoothNode
    <3>4. QED
      BY <2>1, <2>2, <3>1, <3>2, <3>3
  <2>9. QED
    BY <2>3, <2>5, <2>6, <2>7, <2>8
<1>4. asked' \in [Nodes -> Questions]
  <2>1. \A n \in Nodes : asked'[n] \in Questions
    BY <1>2, <1>3 DEF GInv, GTypeOK
  <2>2. asked' = [n \in Nodes |-> asked'[n]]
    BY <1>1
  <2>3. QED
    BY <2>1, <2>2
<1>5. trouble = 0 /\ Smooth => Unmasked
  <2>1. ASSUME trouble = 0, Smooth
        PROVE  ~Willing
    <3>1. PICK n \in change.nodes : asked[n].outcome \in {"refused", "unknown"}
      BY <1>1 DEF Bad
    <3>2. SmoothNode(asked[n], late[n], meddled[n], refuses[n], old[n], change.values, "apply")
      BY <1>1, <2>1 DEF Smooth
    <3>3. refuses[n]
      BY <3>1, <3>2 DEF SmoothNode
    <3>4. QED
      BY <3>3 DEF Willing
  <2>2. QED
    BY <1>1, <2>1 DEF Smooth
<1>6. trouble = 0 /\ Smooth => Smooth' /\ GroupAllOrNone'
  BY <1>1, <1>3, <1>5 DEF Smooth, Unmasked, GroupAllOrNone
<1>7. UNCHANGED <<api, refuses, late, change, trouble, old, meddled>>
  BY <1>1
<1>8. "undo" \in {"look", "dry", "apply", "undo", "answered"}
  OBVIOUS
<1>9. QED
  BY <1>2, <1>3, <1>4, <1>6, <1>7, <1>8, Onward

\* One node alone, of finitely many.
LEMMA AloneIsOne ==
    ASSUME NEW S \in SUBSET Nodes, ~(Cardinality(S) > 1), NEW n \in S
    PROVE  S = {n}
<1>1. IsFiniteSet(S)
  BY GlobalAssumption, FS_Subset
<1>2. IsFiniteSet(S \ {n}) /\ Cardinality(S \ {n}) = Cardinality(S) - 1 /\ Cardinality(S) \in Nat
  BY <1>1, FS_RemoveElement, FS_CardinalityType
<1>3. Cardinality(S \ {n}) \in Nat
  BY <1>2, FS_CardinalityType
<1>4. S \ {n} = {}
  BY <1>2, <1>3, FS_EmptySet
<1>5. QED
  BY <1>4

\* All have been heard, and all took the change, or there is only one.
LEMMA HeardAnswered ==
    ASSUME GInv, Heard, phase' # "undo"
    PROVE  GInv'
<1>1. /\ phase = "apply" /\ phase' = "answered" /\ ~(Bad /\ Several)
      /\ \A n \in change.nodes : asked[n].pc = "done"
      /\ UNCHANGED <<asked, api, refuses, late, change, trouble, old, meddled>>
  BY DEF Heard, Together, Several
<1>2. ASSUME NEW CONSTANT n \in change.nodes
      PROVE  /\ NodeOk(asked[n], api[n], late[n], old[n], meddled[n], change.values, "answered")
             /\ trouble = 0 /\ Smooth =>
                  /\ SmoothNode(asked[n], late[n], meddled[n], refuses[n], old[n], change.values, "answered")
                  /\ \/ asked[n].outcome = "applied" /\ api[n] = Patched(old[n], change.values)
                     \/ asked[n].outcome = "refused" /\ api[n] = old[n]
  <2>1. PICK q, a, l, o, m, P, f :
          /\ q = asked[n] /\ a = api[n] /\ l = late[n] /\ o = old[n]
          /\ m = meddled[n] /\ P = change.values /\ f = refuses[n]
    OBVIOUS
  <2>2. /\ q \in Questions /\ NodeOk(q, a, l, o, m, P, "apply") /\ q.pc = "done"
        /\ trouble = 0 /\ Smooth => SmoothNode(q, l, m, f, o, P, "apply")
    BY <1>1, <2>1, MyNode DEF Smooth
  <2>3. /\ q.outcome \in {"applied", "refused", "unknown"} /\ q.undone = "none"
    BY <2>2 DEF NodeOk, PcOk, Questions, Outcomes
  <2>4. NodeOk(q, a, l, o, m, P, "answered")
    BY <2>2, <2>3 DEF NodeOk, PcOk
  <2>5. ASSUME trouble = 0, Smooth
        PROVE  /\ SmoothNode(q, l, m, f, o, P, "answered")
               /\ \/ q.outcome = "applied" /\ a = Patched(o, P)
                  \/ q.outcome = "refused" /\ a = o
    BY <2>2, <2>3, <2>5 DEF SmoothNode, NodeOk, DataOk, Made, Untouched
  <2>6. QED
    BY <2>1, <2>4, <2>5
<1>3. ASSUME trouble = 0, Smooth
      PROVE  \/ \A n \in change.nodes : api[n] = Patched(old[n], change.values)
             \/ \A n \in change.nodes : api[n] = old[n]
  <2>1. CASE ~Bad
    BY <1>2, <1>3, <2>1 DEF Bad
  <2>2. CASE Bad
    <3>1. PICK n \in change.nodes : asked[n].outcome \in {"refused", "unknown"}
      BY <2>2 DEF Bad
    <3>2. change.nodes = {n}
      BY <1>1, <2>2, AloneIsOne DEF Several, GInv, GTypeOK
    <3>3. QED
      BY <1>2, <1>3, <3>1, <3>2
  <2>3. QED
    BY <2>1, <2>2
<1>4. trouble = 0 /\ Smooth => Smooth' /\ GroupAllOrNone'
  BY <1>1, <1>2, <1>3 DEF Smooth, GroupAllOrNone
<1>5. asked' \in [Nodes -> Questions] /\ \A n \in Nodes \ change.nodes : asked'[n] = asked[n]
  BY <1>1 DEF GInv, GTypeOK
<1>6. "answered" \in {"look", "dry", "apply", "undo", "answered"}
  OBVIOUS
<1>7. /\ UNCHANGED <<api, refuses, late, change, trouble, old, meddled>>
      /\ \A n \in change.nodes :
           NodeOk(asked'[n], api[n], late[n], old[n], meddled[n], change.values, "answered")
  BY <1>1, <1>2
<1>8. QED
  BY <1>1, <1>4, <1>5, <1>6, <1>7, Onward

\* Those that took the change have been put back, as far as that was possible.
LEMMA PutBackAllInv ==
    ASSUME GInv, PutBackAll
    PROVE  GInv'
<1>1. /\ phase = "undo" /\ phase' = "answered"
      /\ \A n \in change.nodes : asked[n].pc = "done"
      /\ UNCHANGED <<asked, api, refuses, late, change, trouble, old, meddled>>
  BY DEF PutBackAll, Together
<1>2. ASSUME NEW CONSTANT n \in change.nodes
      PROVE  /\ NodeOk(asked[n], api[n], late[n], old[n], meddled[n], change.values, "answered")
             /\ trouble = 0 /\ Smooth =>
                  /\ SmoothNode(asked[n], late[n], meddled[n], refuses[n], old[n], change.values, "answered")
                  /\ api[n] = old[n]
  <2>1. PICK q, a, l, o, m, P, f :
          /\ q = asked[n] /\ a = api[n] /\ l = late[n] /\ o = old[n]
          /\ m = meddled[n] /\ P = change.values /\ f = refuses[n]
    OBVIOUS
  <2>2. /\ q \in Questions /\ NodeOk(q, a, l, o, m, P, "undo") /\ q.pc = "done"
        /\ a \in Settings /\ o \in Settings
        /\ trouble = 0 /\ Smooth => SmoothNode(q, l, m, f, o, P, "undo")
    BY <1>1, <2>1, MyNode DEF Smooth
  <2>3. /\ q.outcome \in {"applied", "refused", "unknown"} /\ q.undone \in {"none", "yes", "no"}
        /\ q.outcome = "applied" => q.undone # "none"
    BY <2>2 DEF NodeOk, PcOk, Questions, Outcomes
  <2>4. NodeOk(q, a, l, o, m, P, "answered")
    BY <2>2, <2>3 DEF NodeOk, PcOk
  <2>5. ASSUME trouble = 0, Smooth
        PROVE  SmoothNode(q, l, m, f, o, P, "answered") /\ a = o
    <3>1. SmoothNode(q, l, m, f, o, P, "answered")
      BY <2>2, <2>5 DEF SmoothNode
    <3>2. q.outcome = "refused" => a = o
      BY <2>2, <2>5 DEF SmoothNode, NodeOk, DataOk, Untouched
    <3>3. q.outcome = "applied" => StaysAs(a, l, o, Items)
      BY <2>2, <2>3, <2>5 DEF SmoothNode, NodeOk, DataOk
    <3>4. q.outcome = "applied" => a = o
      BY <2>2, <3>3, SameSettings DEF StaysAs
    <3>5. QED
      BY <2>2, <2>3, <2>5, <3>1, <3>2, <3>4 DEF SmoothNode
  <2>6. QED
    BY <2>1, <2>4, <2>5
<1>3. trouble = 0 /\ Smooth => Smooth' /\ GroupAllOrNone'
  BY <1>1, <1>2 DEF Smooth, GroupAllOrNone
<1>4. asked' \in [Nodes -> Questions] /\ \A n \in Nodes \ change.nodes : asked'[n] = asked[n]
  BY <1>1 DEF GInv, GTypeOK
<1>5. "answered" \in {"look", "dry", "apply", "undo", "answered"}
  OBVIOUS
<1>6. /\ UNCHANGED <<api, refuses, late, change, trouble, old, meddled>>
      /\ \A n \in change.nodes :
           NodeOk(asked'[n], api[n], late[n], old[n], meddled[n], change.values, "answered")
  BY <1>1, <1>2
<1>7. QED
  BY <1>1, <1>3, <1>4, <1>5, <1>6, Onward

(***************************************************************************)
(* What happens beside the request, and its beginning.                     *)
(***************************************************************************)

\* A request nobody waits for any more is carried out.
LEMMA LateInv ==
    ASSUME GInv, NEW CONSTANT n \in Nodes, Late(n)
    PROVE  GInv'
<1>1. /\ late[n] # NoPatch /\ late[n] \in Patches /\ api[n] \in Settings
      /\ api' = [api EXCEPT ![n] = Patched(api[n], late[n])] /\ late' = [late EXCEPT ![n] = NoPatch]
      /\ UNCHANGED <<refuses, change, asked, phase, trouble, old, meddled>>
  BY DEF Late, GInv, GTypeOK
<1>2. Patched(api[n], late[n]) \in Settings /\ NoPatch \in Patches
  BY <1>1, PatchedFacts, PatchFacts
<1>3. GTypeOK'
  BY <1>1, <1>2 DEF GInv, GTypeOK
<1>4. phase # "idle"
  BY <1>1 DEF GInv
<1>5. ASSUME NEW CONSTANT m \in change.nodes
      PROVE  NodeOk(asked[m], api'[m], late'[m], old[m], meddled[m], change.values, phase)
  <2>1. /\ m = n => api'[m] = Patched(api[n], late[n]) /\ late'[m] = NoPatch
        /\ m # n => api'[m] = api[m] /\ late'[m] = late[m]
    BY <1>1, MyNode DEF GInv, GTypeOK
  <2>2. m = n => NodeOk(asked[m], Patched(api[n], late[n]), NoPatch, old[m], meddled[m], change.values, phase)
    BY <1>1, MyNode, LateOk
  <2>3. QED
    BY <2>1, <2>2, MyNode
<1>6. ASSUME trouble = 0
      PROVE  Smooth' /\ GroupAllOrNone'
  <2>1. Smooth
    BY <1>6 DEF GInv
  <2>2. n \notin change.nodes
    BY <1>1, <2>1 DEF Smooth, SmoothNode
  <2>3. \A m \in change.nodes : api'[m] = api[m] /\ late'[m] = late[m]
    BY <1>1, <2>2, MyNode DEF GInv, GTypeOK
  <2>4. Smooth'
    BY <1>1, <2>1, <2>3 DEF Smooth, Several, Unmasked, Willing
  <2>5. QED
    BY <1>1, <2>3, <2>4 DEF GInv, GroupAllOrNone
<1>7. \A m \in Nodes \ change'.nodes : asked'[m].pc = "wait" /\ asked'[m].outcome = "none"
  BY <1>1 DEF GInv
<1>8. (trouble = 0 <=> trouble' = 0) /\ (~(trouble = 0) => GroupAllOrNone')
  BY <1>1 DEF GroupAllOrNone
<1>9. \A m \in change'.nodes :
        NodeOk(asked'[m], api'[m], late'[m], old'[m], meddled'[m], change'.values, phase')
  BY <1>1, <1>5
<1>10. phase' # "idle"
  BY <1>1, <1>4
<1>11. QED
  BY <1>3, <1>6, <1>7, <1>8, <1>9, <1>10 DEF GInv

\* Another administrator changes a node.
LEMMA MeddleInv ==
    ASSUME GInv, NEW CONSTANT n \in Nodes, NEW CONSTANT i \in Items,
           NEW CONSTANT v \in Values \union {Null}, Meddle(n, i, v)
    PROVE  GInv'
<1>1. PICK w \in {"yes", "late"} :
        /\ meddled' = [meddled EXCEPT ![n] = w]
        /\ asked[n].pc = "putback" => w = "late"
        /\ api' = [api EXCEPT ![n] = [api[n] EXCEPT ![i] = v]]
        /\ trouble' = trouble + 1
        /\ UNCHANGED <<refuses, late, change, asked, phase, old>>
  BY DEF Meddle, Fault
<1>2. [api[n] EXCEPT ![i] = v] \in Settings
  BY DEF GInv, GTypeOK, Settings
<1>3. GTypeOK'
  BY <1>1, <1>2 DEF GInv, GTypeOK
<1>4. trouble' # 0
  BY <1>1 DEF GInv, GTypeOK
<1>5. ASSUME NEW CONSTANT m \in change.nodes
      PROVE  NodeOk(asked[m], api'[m], late[m], old[m], meddled'[m], change.values, phase)
  <2>1. m # n => api'[m] = api[m] /\ meddled'[m] = meddled[m]
    BY <1>1, MyNode DEF GInv, GTypeOK
  <2>2. m = n => meddled'[m] = w
    BY <1>1, MyNode DEF GInv, GTypeOK
  <2>3. CASE m = n
    <3>1. PcOk(asked[m], phase) /\ SureOk(asked[m], api[m], late[m], meddled[m], change.values)
      BY MyNode DEF NodeOk
    <3>2. SureOk(asked[m], api'[m], late[m], w, change.values)
      BY <1>1, <2>3, <3>1 DEF SureOk
    <3>3. QED
      BY <2>2, <2>3, <3>1, <3>2 DEF NodeOk
  <2>4. QED
    BY <2>1, <2>3, MyNode
<1>6. \A m \in change'.nodes :
        NodeOk(asked'[m], api'[m], late'[m], old'[m], meddled'[m], change'.values, phase')
  BY <1>1, <1>5
<1>7. /\ \A m \in Nodes \ change'.nodes : asked'[m].pc = "wait" /\ asked'[m].outcome = "none"
      /\ phase' = "idle" => change'.nodes = {} /\ late' = [m \in Nodes |-> NoPatch]
  BY <1>1 DEF GInv
<1>8. GroupAllOrNone'
  BY <1>4 DEF GroupAllOrNone
<1>9. QED
  BY <1>3, <1>4, <1>6, <1>7, <1>8 DEF GInv

\* A node begins or ceases to refuse.
LEMMA ChangeMindInv ==
    ASSUME GInv, NEW CONSTANT n \in Nodes, ChangeMind(n)
    PROVE  GInv'
<1>1. /\ refuses' = [refuses EXCEPT ![n] = ~refuses[n]] /\ trouble' = trouble + 1
      /\ UNCHANGED <<api, late, change, asked, phase, old, meddled>>
  BY DEF ChangeMind, Fault
<1>2. GTypeOK'
  BY <1>1 DEF GInv, GTypeOK
<1>3. trouble' # 0
  BY <1>1 DEF GInv, GTypeOK
<1>4. GroupAllOrNone'
  BY <1>3 DEF GroupAllOrNone
<1>5. QED
  BY <1>1, <1>2, <1>3, <1>4 DEF GInv

\* A node that has not been asked yet.
LEMMA UnaskedFacts ==
    /\ Unasked \in Questions
    /\ [Unasked EXCEPT !.pc = "read"] \in Questions
    /\ Unasked.pc = "wait" /\ Unasked.outcome = "none" /\ Unasked.undone = "none"
    /\ Unasked.sure /\ ~Unasked.useless
<1>1. [i \in Items |-> Null] \in Shows
  BY DEF Shows
<1>2. QED
  BY <1>1, PatchFacts DEF Unasked, Questions, Pcs, Outcomes

\* A request begins.
LEMMA RequestInv ==
    ASSUME GInv, NEW CONSTANT nodes \in SUBSET Nodes, NEW CONSTANT values \in Patches,
           Request(nodes, values)
    PROVE  GInv'
<1>1. PICK ph, r :
        /\ ph = IF Cardinality(nodes) > 1 THEN "look" ELSE "apply"
        /\ r = [Unasked EXCEPT !.pc = "read"]
  OBVIOUS
<1>2. /\ phase = "idle" /\ phase' = ph
      /\ change' = [nodes |-> nodes, values |-> values]
      /\ asked' = [n \in Nodes |-> [Unasked EXCEPT !.pc = IF n \in nodes THEN "read" ELSE "wait"]]
      /\ old' = api /\ meddled' = [n \in Nodes |-> "no"]
      /\ UNCHANGED <<api, refuses, late, trouble>>
  BY <1>1 DEF Request
<1>3. /\ ph \in {"look", "apply"} /\ r \in Questions /\ r.pc = "read" /\ r.outcome = "none"
      /\ r.undone = "none" /\ r.sure /\ ~r.useless
  BY <1>1, UnaskedFacts DEF Unasked
<1>4. \A n \in Nodes : asked'[n] = IF n \in nodes THEN r ELSE Unasked
  BY <1>1, <1>2, UnaskedFacts DEF Unasked
<1>5. asked' \in [Nodes -> Questions]
  BY <1>2, <1>3, <1>4, UnaskedFacts
<1>6. GTypeOK'
  BY <1>2, <1>3, <1>5 DEF GInv, GTypeOK
<1>7. change'.nodes = nodes /\ change'.values = values /\ late = [n \in Nodes |-> NoPatch]
  BY <1>2 DEF GInv
<1>8. ASSUME NEW CONSTANT n \in nodes
      PROVE  /\ NodeOk(asked'[n], api'[n], late'[n], old'[n], meddled'[n], values, ph)
             /\ SmoothNode(asked'[n], late'[n], meddled'[n], refuses'[n], old'[n], values, ph)
  <2>1. /\ asked'[n] = r /\ api'[n] = old'[n] /\ late'[n] = NoPatch /\ meddled'[n] = "no"
    BY <1>2, <1>4, <1>7 DEF GInv, GTypeOK
  <2>2. NodeOk(r, old'[n], NoPatch, old'[n], "no", values, ph)
    BY <1>3 DEF NodeOk, PcOk, SureOk, DataOk, Untouched
  <2>3. SmoothNode(r, NoPatch, "no", refuses'[n], old'[n], values, ph)
    BY <1>3 DEF SmoothNode
  <2>4. QED
    BY <2>1, <2>2, <2>3
<1>9. Smooth'
  BY <1>1, <1>2, <1>7, <1>8 DEF Smooth, Several
<1>10. GroupAllOrNone' /\ phase' # "idle"
  BY <1>2, <1>3 DEF GroupAllOrNone
<1>11. \A n \in Nodes \ change'.nodes : asked'[n].pc = "wait" /\ asked'[n].outcome = "none"
  BY <1>4, <1>7, UnaskedFacts
<1>12. QED
  BY <1>2, <1>6, <1>7, <1>8, <1>9, <1>10, <1>11 DEF GInv

\* The invariant holds at the start and is kept by every step.
LEMMA GlobalStart == GlobalInit => GInv
<1>1. SUFFICES ASSUME GlobalInit PROVE GInv
  OBVIOUS
<1>2. GTypeOK
  BY <1>1, UnaskedFacts, PatchFacts DEF GlobalInit, GTypeOK
<1>3. \A n \in Nodes : asked[n].pc = "wait" /\ asked[n].outcome = "none"
  BY <1>1, UnaskedFacts DEF GlobalInit
<1>4. Smooth /\ GroupAllOrNone
  BY <1>1 DEF GlobalInit, Smooth, GroupAllOrNone
<1>5. QED
  BY <1>1, <1>2, <1>3, <1>4 DEF GlobalInit, GInv

\* Every step of a request, a fault or another administrator keeps GInv.
LEMMA GlobalStep == GInv /\ [GlobalNext]_globalVars => GInv'
<1>1. SUFFICES ASSUME GInv, [GlobalNext]_globalVars PROVE GInv'
  OBVIOUS
<1>2. CASE \E nodes \in SUBSET Nodes, values \in Patches : Request(nodes, values)
  BY <1>1, <1>2, RequestInv
<1>3. CASE \E n \in change.nodes : \/ Look(n) \/ DryRun(n) \/ ReadBefore(n) \/ Patch(n) \/ Reread(n)
                                   \/ ReadUndo(n) \/ PutBack(n)
  BY <1>1, <1>3, LookInv, DryRunInv, ReadBeforeInv, PatchInv, RereadInv, ReadUndoInv, PutBackInv
<1>4. CASE Looked \/ DriedOut \/ Heard \/ PutBackAll
  BY <1>1, <1>4, LookedInv, DriedOutInv, HeardUndo, HeardAnswered, PutBackAllInv
<1>5. CASE \E n \in Nodes : Late(n) \/ ChangeMind(n)
  BY <1>1, <1>5, LateInv, ChangeMindInv
<1>6. CASE \E n \in Nodes, i \in Items, v \in Values \union {Null} : Meddle(n, i, v)
  BY <1>1, <1>6, MeddleInv
<1>7. CASE UNCHANGED globalVars
  BY <1>1, <1>7 DEF globalVars, GInv, GTypeOK, Smooth, Several, Unmasked, Willing, GroupAllOrNone
<1>8. QED
  BY <1>1, <1>2, <1>3, <1>4, <1>5, <1>6, <1>7 DEF GlobalNext

(***************************************************************************)
(* The theorems.                                                           *)
(***************************************************************************)

\* The invariant: what is known of every node of the request is so.
THEOREM GlobalInductive == GlobalSpec => []GInv
BY GlobalStart, GlobalStep, PTL DEF GlobalSpec

\* What the answer says of a node nobody else changed meanwhile is so, and stays
\* so, but for a node whose answer came and was of no use: that one has the change
\* and keeps it (globalapi.ts:70, :103, :117, :140; rproxy.ts:410, :428).
THEOREM AnswersAreTrue == GlobalSpec => []AnswerIsTrue
<1>1. GInv => AnswerIsTrue
  <2>1. SUFFICES ASSUME GInv, phase = "answered", NEW n \in change.nodes, meddled[n] = "no"
                 PROVE  /\ asked[n].useless \/ (asked[n].outcome = "applied" /\ asked[n].undone = "none") =>
                             StaysAs(api[n], late[n], Patched(old[n], change.values), Items)
                        /\ asked[n].outcome = "refused" /\ ~asked[n].useless =>
                             StaysAs(api[n], late[n], old[n], Items)
                        /\ asked[n].undone = "yes" /\ ~asked[n].useless =>
                             StaysAs(api[n], late[n], old[n], IF asked[n].sure THEN Items ELSE Items \ Hidden)
    BY DEF AnswerIsTrue, StaysAs
  <2>2. PICK q, a, l, o, P :
          q = asked[n] /\ a = api[n] /\ l = late[n] /\ o = old[n] /\ P = change.values
    OBVIOUS
  <2>3. /\ DataOk(q, a, l, o, P) /\ q \in Questions /\ a \in Settings /\ l \in Patches
        /\ o \in Settings /\ P \in Patches
    BY <2>1, <2>2, MyNode DEF NodeOk
  <2>4. ASSUME Made(a, l, o, P)
        PROVE  StaysAs(a, l, Patched(o, P), Items)
    BY <2>4, PatchFacts DEF Made, StaysAs
  <2>5. q.outcome = "applied" /\ q.undone = "none" /\ ~q.useless => StaysAs(a, l, Patched(o, P), Items)
    <3>1. CASE q.changed = {}
      BY <2>3, <3>1, NothingToPutBack DEF DataOk
    <3>2. CASE q.changed # {}
      BY <2>3, <2>4, <3>2 DEF DataOk
    <3>3. QED
      BY <3>1, <3>2
  <2>6. q.outcome = "refused" /\ ~q.useless => StaysAs(a, l, o, Items)
    BY <2>3, PatchFacts DEF DataOk, Untouched, StaysAs
  <2>7. QED
    BY <2>2, <2>3, <2>4, <2>5, <2>6 DEF DataOk
<1>2. QED
  BY <1>1, GlobalInductive, PTL

\* When nothing is lost and nobody else interferes, a group takes the change as a
\* whole or is left as it was (globalapi.ts:164).
THEOREM GroupsTakeAllOrNone == GlobalSpec => []GroupAllOrNone
<1>1. GInv => GroupAllOrNone
  BY DEF GInv
<1>2. QED
  BY <1>1, GlobalInductive, PTL

\* A node is put back by PutBack only, and an item of it that is put back is
\* one of the change, still with the value of the change.
LEMMA PutBackSpares ==
    ASSUME GInv, [GlobalNext]_globalVars, NEW CONSTANT n \in Nodes, NEW CONSTANT i \in Items \ Hidden,
           asked[n].pc = "putback", asked'[n].pc = "done", asked[n].sure, meddled[n] # "late",
           api'[n][i] # api[n][i]
    PROVE  api[n][i] = change.values[i]
<1>1. n \in change.nodes
  BY DEF GInv
<1>2. PICK q, a, m, P : q = asked[n] /\ a = api[n] /\ m = meddled[n] /\ P = change.values
  OBVIOUS
<1>3. /\ q \in Questions /\ a \in Settings /\ q.pc = "putback" /\ phase = "undo"
      /\ SureOk(q, a, late[n], m, P) /\ PcOk(q, "undo") /\ q.back \in Patches
  BY <1>1, <1>2, MyNode DEF NodeOk, PcOk, GInv, GTypeOK, Questions
<1>4. PutBack(n)
  <2>1. \A x \in change.nodes : /\ ~Look(x) /\ ~DryRun(x) /\ ~ReadBefore(x) /\ ~Patch(x) /\ ~Reread(x)
                                /\ (ReadUndo(x) => api' = api)
                                /\ (PutBack(x) /\ x # n => api'[n] = api[n])
    BY <1>3 DEF Look, DryRun, ReadBefore, Patch, Reread, ReadUndo, PutBack, GInv, GTypeOK
  <2>2. \A nodes \in SUBSET Nodes, values \in Patches : ~Request(nodes, values)
    BY <1>3 DEF Request
  <2>3. (Looked \/ DriedOut \/ Heard \/ PutBackAll) => api' = api
    BY DEF Looked, DriedOut, Heard, PutBackAll
  <2>4. \A x \in Nodes : (Late(x) => asked' = asked) /\ (ChangeMind(x) => asked' = asked)
    BY DEF Late, ChangeMind
  <2>5. \A x \in Nodes, j \in Items, v \in Values \union {Null} : Meddle(x, j, v) => asked' = asked
    BY DEF Meddle
  <2>6. UNCHANGED globalVars => api' = api
    BY DEF globalVars
  <2>7. api' # api /\ asked' # asked
    OBVIOUS
  <2>8. QED
    BY <2>1, <2>2, <2>3, <2>4, <2>5, <2>6, <2>7 DEF GlobalNext
<1>5. api'[n] = Patched(a, q.back)
  BY <1>2, <1>4 DEF PutBack, GInv, GTypeOK
<1>6. i \in DOMAIN q.back
  BY <1>2, <1>3, <1>5, PatchedFacts
<1>7. QED
  BY <1>2, <1>3, <1>6 DEF SureOk, PcOk

\* What another set on a node before it was read again to be put back stays
\* (globalapi.ts:138).
THEOREM UndoLeavesOthers == GlobalSpec => UndoSparesOthers
<1>1. GInv /\ [GlobalNext]_globalVars =>
        [\A n \in Nodes, i \in Items \ Hidden :
           asked[n].pc = "putback" /\ asked'[n].pc = "done" /\ asked[n].sure
           /\ meddled[n] # "late" /\ api'[n][i] # api[n][i] => api[n][i] = change.values[i]]_globalVars
  BY PutBackSpares
<1>2. QED
  BY <1>1, GlobalInductive, PTL DEF GlobalSpec, UndoSparesOthers

(***************************************************************************)
(* Migrations.                                                             *)
(***************************************************************************)

Holding == {"plan", "schema", "run", "record", "unlock"}
AtWork == {"schema", "run", "record"}
MigRuns == [pc : {"idle", "lock"} \union Holding, baseline : {NoBaseline, hand}, steps : Steps]

MigrateTypeOK ==
    /\ hand \in 0..Last
    /\ effect \subseteq Files
    /\ recorded \in Steps
    /\ locked \in Runs \union {NoRun}
    /\ mig \in [Runs -> MigRuns]
    /\ cut \in BOOLEAN /\ twice \in BOOLEAN

\* The step that follows, of the steps to go.
ToGo(steps) == {f \in Files : steps[f] # "none"}
FirstOf(steps) == CHOOSE f \in ToGo(steps) : \A g \in ToGo(steps) : f <= g

\* The steps of a run that are right for a database with the migrations e in
\* effect: nothing is recorded that has not been carried out.
StepsOk(m, e) ==
    /\ \A f \in Files : /\ m.steps[f] \in {"schema", "baseline"} /\ f \notin SKIP => f \in e
                        /\ m.steps[f] = "skipped" => f \in SKIP
                        /\ m.steps[f] = "applied" => f \notin SKIP
    /\ m.pc = "record" => ToGo(m.steps) # {} /\ (m.steps[FirstOf(m.steps)] = "applied" => FirstOf(m.steps) \in e)

\* While no run was cut off, they are also complete: what is to be carried out is
\* not in effect, and what is not to be recorded is recorded.
StepsExact(m, e, r) ==
    \A f \in Files :
        /\ m.steps[f] = "none" <=> r[f] # "none"
        /\ f \notin SKIP => (f \in e <=> m.steps[f] # "applied" \/ (m.pc = "record" /\ f = FirstOf(m.steps)))

\* The database at rest, while no run was cut off.
Clean(e, r, h) ==
    \A f \in Files \ SKIP : f \in e <=> IF r = NoSteps THEN f <= h ELSE r[f] # "none"

RunOk(m, e, r, c) ==
    /\ m.pc = "schema" => e = {} /\ r = NoSteps /\ m.steps = [f \in Files |-> "schema"]
    /\ m.pc \in {"run", "record"} => StepsOk(m, e)
    /\ m.pc \in {"run", "record"} /\ ~c => StepsExact(m, e, r)

DatabaseOk(e, r, h, c, t) ==
    /\ 1..h \ SKIP \subseteq e
    /\ e \intersect SKIP = {}
    /\ \A f \in Files \ SKIP : r[f] # "none" => f \in e
    /\ t => c

\* The inductive invariant.
MInv ==
    /\ MigrateTypeOK
    /\ \A p \in Runs : mig[p].pc \in Holding <=> locked = p
    /\ \A p \in Runs : RunOk(mig[p], effect, recorded, cut)
    /\ DatabaseOk(effect, recorded, hand, cut, twice)
    /\ ~cut /\ (\A p \in Runs : mig[p].pc \notin AtWork) => Clean(effect, recorded, hand)

\* Of some migrations one is the first.
LEMMA SomeFirst ==
    ASSUME NEW S \in SUBSET Files, S # {}
    PROVE  \E f \in S : \A g \in S : f <= g
<1>1. S \subseteq Nat
  BY DEF Files
<1>2. PICK f \in S : \A g \in S : ~(<<g, f>> \in OpToRel(<, Nat))
  BY <1>1, NatLessThanWellFounded, WFMin
<1>3. \A g \in S : ~(g < f)
  BY <1>1, <1>2 DEF OpToRel
<1>4. QED
  BY <1>1, <1>3

\* The step that follows is one of those to go.
LEMMA FirstFacts ==
    ASSUME NEW steps \in Steps, ToGo(steps) # {}
    PROVE  FirstOf(steps) \in Files /\ steps[FirstOf(steps)] # "none"
<1>1. ToGo(steps) \in SUBSET Files
  BY DEF ToGo
<1>2. \E f \in ToGo(steps) : \A g \in ToGo(steps) : f <= g
  BY <1>1, SomeFirst
<1>3. FirstOf(steps) \in ToGo(steps)
  BY <1>2 DEF FirstOf
<1>4. QED
  BY <1>3 DEF ToGo

\* What the model calls them.
LEMMA FollowingFacts ==
    ASSUME NEW p
    PROVE  Pending(p) = ToGo(mig[p].steps) /\ Following(p) = FirstOf(mig[p].steps)
BY DEF Pending, ToGo, Following, FirstOf

\* No step is no step.
LEMMA StepsFacts ==
    /\ NoSteps \in Steps /\ \A f \in Files : NoSteps[f] = "none"
    /\ \A s \in Steps : (\A f \in Files : s[f] = "none") => s = NoSteps
    /\ [f \in Files |-> "schema"] \in Steps
BY DEF NoSteps, Steps, Methods

\* What the next step of the run with the lock has to show.
LEMMA OneRun ==
    ASSUME MInv, NEW CONSTANT p \in Runs, NEW m \in MigRuns, mig[p].pc \in Holding,
           mig' = [mig EXCEPT ![p] = m], UNCHANGED hand,
           (m.pc \in Holding /\ locked' = locked) \/ (m.pc = "idle" /\ locked' = NoRun),
           effect' \subseteq Files, recorded' \in Steps, cut' \in BOOLEAN, twice' \in BOOLEAN,
           RunOk(m, effect', recorded', cut'),
           DatabaseOk(effect', recorded', hand, cut', twice'),
           ~cut' /\ m.pc \notin AtWork => Clean(effect', recorded', hand)
    PROVE  MInv'
<1>1. MigrateTypeOK'
  BY DEF MInv, MigrateTypeOK, MigRuns
<1>2. locked = p
  BY DEF MInv
<1>3. \A q \in Runs : mig'[q] = IF q = p THEN m ELSE mig[q]
  BY DEF MInv, MigrateTypeOK
<1>4. \A q \in Runs \ {p} : mig[q].pc \notin Holding
  BY <1>2 DEF MInv
<1>5. \A q \in Runs : mig'[q].pc \in Holding <=> locked' = q
  BY <1>2, <1>3, <1>4, MigrateAssumption DEF Holding
<1>6. \A q \in Runs : RunOk(mig'[q], effect', recorded', cut')
  BY <1>3, <1>4 DEF RunOk, Holding
<1>7. ~cut' /\ (\A q \in Runs : mig'[q].pc \notin AtWork) => Clean(effect', recorded', hand')
  BY <1>3
<1>8. DatabaseOk(effect', recorded', hand', cut', twice')
  OBVIOUS
<1>9. QED
  BY <1>1, <1>5, <1>6, <1>7, <1>8 DEF MInv

\* While the run with the lock is not at work, none is.
LEMMA OthersIdle ==
    ASSUME MInv, NEW p \in Runs, mig[p].pc \in Holding \ AtWork
    PROVE  ~cut => Clean(effect, recorded, hand)
BY DEF MInv, Holding, AtWork

\* What is known of a run.
LEMMA MyRun ==
    ASSUME MInv, NEW p \in Runs
    PROVE  /\ mig[p] \in MigRuns /\ mig[p].steps \in Steps /\ RunOk(mig[p], effect, recorded, cut)
           /\ mig[p].baseline \in {NoBaseline, hand} /\ hand \in 0..Last
           /\ DatabaseOk(effect, recorded, hand, cut, twice)
           /\ effect \subseteq Files /\ recorded \in Steps /\ cut \in BOOLEAN /\ twice \in BOOLEAN
BY DEF MInv, MigrateTypeOK, MigRuns

\* A run without the lock changes nothing but itself.
LEMMA Outside ==
    ASSUME MInv, NEW CONSTANT p \in Runs, NEW m \in MigRuns, mig[p].pc \notin Holding, m.pc \notin Holding,
           mig' = [mig EXCEPT ![p] = m],
           UNCHANGED <<effect, recorded, hand, locked, cut, twice>>
    PROVE  MInv'
<1>1. MigrateTypeOK'
  BY DEF MInv, MigrateTypeOK, MigRuns
<1>2. \A q \in Runs : mig'[q] = IF q = p THEN m ELSE mig[q]
  BY DEF MInv, MigrateTypeOK
<1>3. \A q \in Runs : mig'[q].pc \in Holding <=> locked' = q
  BY <1>2 DEF MInv
<1>4. \A q \in Runs : RunOk(mig'[q], effect', recorded', cut')
  BY <1>2 DEF MInv, RunOk, Holding
<1>5. ~cut' /\ (\A q \in Runs : mig'[q].pc \notin AtWork) => Clean(effect', recorded', hand')
  BY <1>2 DEF MInv, AtWork, Holding
<1>6. DatabaseOk(effect', recorded', hand', cut', twice')
  BY DEF MInv
<1>7. QED
  BY <1>1, <1>3, <1>4, <1>5, <1>6 DEF MInv

\* A run begins, gives up waiting, or gets the lock.
LEMMA StartInv ==
    ASSUME MInv, NEW CONSTANT p \in Runs, NEW CONSTANT baseline \in {NoBaseline, hand}, Start(p, baseline)
    PROVE  MInv'
<1>1. PICK m : m = [pc |-> "lock", baseline |-> baseline, steps |-> NoSteps]
  OBVIOUS
<1>2. m \in MigRuns /\ m.pc \notin Holding /\ mig[p].pc \notin Holding
  BY <1>1, StepsFacts DEF Start, MigRuns, Holding
<1>3. mig' = [mig EXCEPT ![p] = m] /\ UNCHANGED <<effect, recorded, hand, locked, cut, twice>>
  BY <1>1 DEF Start
<1>4. QED
  BY <1>2, <1>3, Outside

\* A run that did not get the lock ends as it was.
LEMMA LockTimeoutInv ==
    ASSUME MInv, NEW CONSTANT p \in Runs, LockTimeout(p)
    PROVE  MInv'
<1>1. PICK m : m = [mig[p] EXCEPT !.pc = "idle"]
  OBVIOUS
<1>2. m \in MigRuns /\ m.pc \notin Holding /\ mig[p].pc \notin Holding
  BY <1>1, MyRun DEF LockTimeout, MigRuns, Holding
<1>3. mig' = [mig EXCEPT ![p] = m] /\ UNCHANGED <<effect, recorded, hand, locked, cut, twice>>
  BY <1>1 DEF LockTimeout
<1>4. QED
  BY <1>2, <1>3, Outside

\* A run that gets the lock finds it free: no other run is past it.
LEMMA GetLockInv ==
    ASSUME MInv, NEW CONSTANT p \in Runs, GetLock(p)
    PROVE  MInv'
<1>1. PICK m : m = [mig[p] EXCEPT !.pc = "plan"]
  OBVIOUS
<1>2. /\ m \in MigRuns /\ m.pc = "plan" /\ locked = NoRun /\ locked' = p
      /\ mig' = [mig EXCEPT ![p] = m] /\ UNCHANGED <<effect, recorded, hand, cut, twice>>
  BY <1>1, MyRun DEF GetLock, MigRuns, Holding
<1>3. MigrateTypeOK'
  BY <1>2 DEF MInv, MigrateTypeOK, MigRuns
<1>4. \A q \in Runs : mig'[q] = IF q = p THEN m ELSE mig[q]
  BY <1>2 DEF MInv, MigrateTypeOK
<1>5. \A q \in Runs : mig[q].pc \notin Holding
  BY <1>2, MigrateAssumption DEF MInv
<1>6. \A q \in Runs : mig'[q].pc \in Holding <=> locked' = q
  BY <1>2, <1>4, <1>5 DEF Holding
<1>7. \A q \in Runs : RunOk(mig'[q], effect', recorded', cut')
  BY <1>2, <1>4, <1>5 DEF RunOk, Holding
<1>8. ~cut' /\ (\A q \in Runs : mig'[q].pc \notin AtWork) => Clean(effect', recorded', hand')
  BY <1>2, <1>5 DEF MInv, AtWork, Holding
<1>9. DatabaseOk(effect', recorded', hand', cut', twice')
  BY <1>2 DEF MInv
<1>10. QED
  BY <1>3, <1>6, <1>7, <1>8, <1>9 DEF MInv

\* What is planned is right for the database as it was found.
LEMMA PlanInv ==
    ASSUME MInv, NEW CONSTANT p \in Runs, Plan(p)
    PROVE  MInv'
<1>1. PICK x, e, r, h, b : x = mig[p] /\ e = effect /\ r = recorded /\ h = hand /\ b = mig[p].baseline
  OBVIOUS
<1>2. /\ x \in MigRuns /\ x.pc = "plan" /\ x.baseline = b /\ b \in {NoBaseline, h} /\ h \in 0..Last
      /\ e \subseteq Files /\ r \in Steps /\ DatabaseOk(e, r, h, cut, twice)
      /\ ~cut => Clean(e, r, h)
      /\ x.pc \in Holding
  BY <1>1, MyRun, OthersIdle DEF Plan, Holding, AtWork
<1>3. UNCHANGED <<effect, recorded, hand, locked, cut, twice>>
  BY DEF Plan
<1>4. CASE NoPlan(b)
  <2>1. PICK m : m = [x EXCEPT !.pc = "unlock"]
    OBVIOUS
  <2>2. m \in MigRuns /\ m.pc = "unlock" /\ mig' = [mig EXCEPT ![p] = m]
    BY <1>1, <1>2, <1>4, <2>1 DEF Plan, MigRuns, Holding
  <2>3. RunOk(m, e, r, cut)
    BY <2>2 DEF RunOk
  <2>4. /\ m.pc \in Holding /\ locked' = locked
        /\ effect' \subseteq Files /\ recorded' \in Steps /\ cut' \in BOOLEAN /\ twice' \in BOOLEAN
        /\ RunOk(m, effect', recorded', cut') /\ DatabaseOk(effect', recorded', hand, cut', twice')
        /\ ~cut' /\ m.pc \notin AtWork => Clean(effect', recorded', hand)
    BY <1>1, <1>2, <1>3, <2>2, <2>3, MyRun DEF Holding
  <2>5. QED
    BY <1>1, <1>2, <1>3, <2>2, <2>4, OneRun
<1>5. CASE ~NoPlan(b)
  <2>1. PICK c, s : c = (IF NewDatabase THEN "schema" ELSE "run") /\ s = Planned(b)
    OBVIOUS
  <2>2. /\ c \in {"schema", "run"}
        /\ c = "schema" => r = NoSteps /\ e = {} /\ s = [f \in Files |-> "schema"]
        /\ c = "run" /\ r = NoSteps => s = [f \in Files |-> Method(f, b)] /\ e # {} /\ b = h
        /\ r # NoSteps => s = [f \in Files |-> IF r[f] # "none" THEN "none" ELSE Method(f, 0)]
    BY <1>1, <1>2, <1>5, <2>1 DEF Planned, NewDatabase, NoPlan
  <2>3. \A f \in Files, k \in Nat : /\ Method(f, k) \in {"baseline", "skipped", "applied"}
                                    /\ Method(f, k) = "baseline" <=> f <= k
                                    /\ Method(f, k) = "skipped" => f \in SKIP
                                    /\ Method(f, k) = "applied" => f \notin SKIP /\ ~(f <= k)
                                    /\ ~(f <= k) /\ f \notin SKIP => Method(f, k) = "applied"
    BY DEF Method
  <2>4. h \in Nat /\ 0 \in Nat /\ \A f \in Files : ~(f <= 0)
    BY <1>2, MigrateAssumption DEF Files
  <2>5. s \in Steps
    BY <2>2, <2>3, <2>4, StepsFacts DEF Steps, Methods
  <2>6. PICK m : m = [x EXCEPT !.pc = c, !.steps = s]
    OBVIOUS
  <2>7. m \in MigRuns /\ m.pc = c /\ m.steps = s /\ mig' = [mig EXCEPT ![p] = m]
    <3>1. PICK y \in MigRuns : y = x
      BY <1>2
    <3>2. m = [y EXCEPT !.pc = c, !.steps = s]
      BY <2>6, <3>1
    <3>3. m \in MigRuns /\ m.pc = c /\ m.steps = s
      BY <2>2, <2>5, <3>2 DEF MigRuns, Holding
    <3>4. mig' = [mig EXCEPT ![p] = m]
      BY <1>1, <1>5, <2>1, <2>6 DEF Plan
    <3>5. QED
      BY <3>3, <3>4
  <2>8. ASSUME c = "run"
        PROVE  StepsOk(m, e) /\ (~cut => StepsExact(m, e, r))
    <3>1. CASE r = NoSteps
      <4>1. \A f \in Files : s[f] = Method(f, h) /\ r[f] = "none"
        BY <2>2, <2>8, <3>1, StepsFacts
      <4>2. \A f \in Files \ SKIP : f <= h => f \in e
        BY <1>2, <2>4 DEF DatabaseOk, Files
      <4>3. StepsOk(m, e)
        BY <2>3, <2>4, <2>7, <2>8, <4>1, <4>2 DEF StepsOk
      <4>4. ~cut => StepsExact(m, e, r)
        BY <1>2, <2>3, <2>4, <2>7, <2>8, <3>1, <4>1 DEF StepsExact, Clean
      <4>5. QED
        BY <4>3, <4>4
    <3>2. CASE r # NoSteps
      <4>1. \A f \in Files : s[f] = IF r[f] # "none" THEN "none" ELSE Method(f, 0)
        BY <2>2, <3>2
      <4>2. StepsOk(m, e)
        BY <2>3, <2>4, <2>7, <2>8, <4>1 DEF StepsOk
      <4>3. ~cut => StepsExact(m, e, r)
        BY <1>2, <2>3, <2>4, <2>7, <2>8, <3>2, <4>1 DEF StepsExact, Clean
      <4>4. QED
        BY <4>2, <4>3
    <3>3. QED
      BY <3>1, <3>2
  <2>9. RunOk(m, e, r, cut)
    BY <2>2, <2>7, <2>8 DEF RunOk
  <2>10. /\ m.pc \in Holding /\ locked' = locked /\ m.pc \in AtWork
         /\ effect' \subseteq Files /\ recorded' \in Steps /\ cut' \in BOOLEAN /\ twice' \in BOOLEAN
         /\ RunOk(m, effect', recorded', cut') /\ DatabaseOk(effect', recorded', hand, cut', twice')
    BY <1>1, <1>2, <1>3, <2>2, <2>7, <2>9, MyRun DEF Holding, AtWork
  <2>11. QED
    BY <1>1, <1>2, <1>3, <2>7, <2>10, OneRun
<1>6. QED
  BY <1>4, <1>5

\* A new database gets all migrations at once.
LEMMA SchemaInv ==
    ASSUME MInv, NEW CONSTANT p \in Runs, Schema(p)
    PROVE  MInv'
<1>1. PICK x, m : x = mig[p] /\ m = [x EXCEPT !.pc = "run"]
  OBVIOUS
<1>2. /\ x \in MigRuns /\ x.pc = "schema" /\ effect = {} /\ recorded = NoSteps
      /\ x.steps = [f \in Files |-> "schema"] /\ x.pc \in Holding
      /\ DatabaseOk(effect, recorded, hand, cut, twice)
  BY <1>1, MyRun DEF Schema, RunOk, Holding
<1>3. /\ m \in MigRuns /\ m.pc = "run" /\ m.steps = x.steps /\ mig' = [mig EXCEPT ![p] = m]
      /\ effect' = Files \ SKIP /\ UNCHANGED <<recorded, hand, locked, cut, twice>>
  BY <1>1, <1>2 DEF Schema, MigRuns, Holding
<1>4. \A f \in Files : m.steps[f] = "schema" /\ recorded[f] = "none"
  BY <1>2, <1>3, StepsFacts
<1>5. StepsOk(m, Files \ SKIP) /\ StepsExact(m, Files \ SKIP, recorded)
  BY <1>3, <1>4 DEF StepsOk, StepsExact
<1>6. DatabaseOk(Files \ SKIP, recorded, hand, cut, twice)
  BY <1>2, MyRun DEF DatabaseOk
<1>7. /\ m.pc \in Holding /\ locked' = locked /\ m.pc \in AtWork
      /\ effect' \subseteq Files /\ recorded' \in Steps /\ cut' \in BOOLEAN /\ twice' \in BOOLEAN
      /\ RunOk(m, effect', recorded', cut') /\ DatabaseOk(effect', recorded', hand, cut', twice')
  BY <1>2, <1>3, <1>5, <1>6, MyRun DEF Holding, AtWork, RunOk
<1>8. QED
  BY <1>1, <1>2, <1>3, <1>7, OneRun

\* The next migration is carried out, or fails.
LEMMA ApplyInv ==
    ASSUME MInv, NEW CONSTANT p \in Runs, Apply(p)
    PROVE  MInv'
<1>1. PICK x, f : x = mig[p] /\ f = FirstOf(x.steps)
  OBVIOUS
<1>2. /\ x \in MigRuns /\ x.steps \in Steps /\ x.pc = "run" /\ x.pc \in Holding /\ ToGo(x.steps) # {}
      /\ StepsOk(x, effect) /\ (~cut => StepsExact(x, effect, recorded))
      /\ DatabaseOk(effect, recorded, hand, cut, twice) /\ cut \in BOOLEAN /\ twice \in BOOLEAN
      /\ effect \subseteq Files /\ recorded \in Steps
  BY <1>1, MyRun, FollowingFacts DEF Apply, RunOk, Holding
<1>3. f \in Files /\ x.steps[f] # "none"
  BY <1>1, <1>2, FirstFacts
<1>4. PICK m :
        /\ mig' = [mig EXCEPT ![p] = m] /\ UNCHANGED <<recorded, hand, locked, cut>>
        /\ m = [x EXCEPT !.pc = m.pc] /\ m.pc \in {"unlock", "record"}
        /\ \/ x.steps[f] # "applied" /\ m.pc = "record" /\ UNCHANGED <<effect, twice>>
           \/ /\ x.steps[f] = "applied" /\ effect' = effect \union {f} /\ twice' = (twice \/ f \in effect)
              /\ m.pc = "unlock" => f \in effect
  <2>1. PICK c \in {"unlock", "record"} :
          /\ mig' = [mig EXCEPT ![p] = [x EXCEPT !.pc = c]] /\ UNCHANGED <<recorded, hand, locked, cut>>
          /\ \/ x.steps[f] # "applied" /\ c = "record" /\ UNCHANGED <<effect, twice>>
             \/ /\ x.steps[f] = "applied" /\ effect' = effect \union {f} /\ twice' = (twice \/ f \in effect)
                /\ c = "unlock" => f \in effect
    BY <1>1, FollowingFacts DEF Apply
  <2>2. PICK m : m = [x EXCEPT !.pc = c]
    OBVIOUS
  <2>3. m.pc = c
    BY <1>2, <2>2 DEF MigRuns
  <2>4. QED
    BY <2>1, <2>2, <2>3
<1>5. m \in MigRuns /\ m.pc \in {"unlock", "record"} /\ m.steps = x.steps /\ m.pc \in Holding
  BY <1>2, <1>4 DEF MigRuns, Holding
<1>6. effect' \subseteq Files /\ twice' \in BOOLEAN
  BY <1>2, <1>3, <1>4
<1>7. ~cut /\ x.steps[f] = "applied" => f \notin effect
  BY <1>2, <1>3 DEF StepsExact, StepsOk
<1>8. m.pc = "unlock" => cut
  BY <1>4, <1>7
<1>9. DatabaseOk(effect', recorded, hand, cut, twice')
  <2>1. x.steps[f] = "applied" => f \notin SKIP
    BY <1>2, <1>3 DEF StepsOk
  <2>2. twice' => cut
    BY <1>2, <1>4, <1>7 DEF DatabaseOk
  <2>3. QED
    BY <1>2, <1>4, <2>1, <2>2 DEF DatabaseOk
<1>10. ASSUME m.pc = "record"
       PROVE  StepsOk(m, effect') /\ (~cut => StepsExact(m, effect', recorded))
  <2>1. StepsOk(m, effect')
    BY <1>1, <1>2, <1>4, <1>5, <1>10 DEF StepsOk
  <2>2. ASSUME ~cut, NEW g \in Files
        PROVE  /\ m.steps[g] = "none" <=> recorded[g] # "none"
               /\ g \notin SKIP => (g \in effect' <=> m.steps[g] # "applied" \/ (m.pc = "record" /\ g = FirstOf(m.steps)))
    <3>1. /\ x.steps[g] = "none" <=> recorded[g] # "none"
          /\ g \notin SKIP => (g \in effect <=> x.steps[g] # "applied")
      BY <1>2, <2>2 DEF StepsExact
    <3>2. FirstOf(m.steps) = f
      BY <1>1, <1>5
    <3>3. QED
      BY <1>4, <1>5, <1>10, <3>1, <3>2
  <2>3. QED
    BY <2>1, <2>2 DEF StepsExact
<1>11. RunOk(m, effect', recorded, cut)
  BY <1>4, <1>5, <1>10 DEF RunOk
<1>12. QED
  <2>1. /\ m \in MigRuns /\ mig[p].pc \in Holding /\ mig' = [mig EXCEPT ![p] = m] /\ UNCHANGED hand
        /\ m.pc \in Holding /\ locked' = locked
        /\ effect' \subseteq Files /\ recorded' \in Steps /\ cut' \in BOOLEAN /\ twice' \in BOOLEAN
        /\ RunOk(m, effect', recorded', cut') /\ DatabaseOk(effect', recorded', hand, cut', twice')
        /\ ~cut' /\ m.pc \notin AtWork => Clean(effect', recorded', hand)
    BY <1>1, <1>2, <1>4, <1>5, <1>6, <1>8, <1>9, <1>11 DEF AtWork
  <2>2. QED
    BY <2>1, OneRun

\* It is recorded.
LEMMA RecordInv ==
    ASSUME MInv, NEW CONSTANT p \in Runs, Record(p)
    PROVE  MInv'
<1>1. PICK x, f, r, t :
        /\ x = mig[p] /\ f = FirstOf(x.steps)
        /\ r = [recorded EXCEPT ![f] = x.steps[f]] /\ t = [x.steps EXCEPT ![f] = "none"]
  OBVIOUS
<1>2. /\ x \in MigRuns /\ x.steps \in Steps /\ x.pc = "record" /\ x.pc \in Holding /\ ToGo(x.steps) # {}
      /\ StepsOk(x, effect) /\ (~cut => StepsExact(x, effect, recorded))
      /\ DatabaseOk(effect, recorded, hand, cut, twice) /\ cut \in BOOLEAN /\ twice \in BOOLEAN
      /\ effect \subseteq Files /\ recorded \in Steps
  BY <1>1, MyRun DEF Record, RunOk, Holding, StepsOk
<1>3. f \in Files /\ x.steps[f] # "none"
  BY <1>1, <1>2, FirstFacts
<1>4. /\ r \in Steps /\ t \in Steps
      /\ \A g \in Files : r[g] = (IF g = f THEN x.steps[f] ELSE recorded[g])
      /\ \A g \in Files : t[g] = (IF g = f THEN "none" ELSE x.steps[g])
  BY <1>1, <1>2, <1>3 DEF Steps
<1>5. PICK m : m = [x EXCEPT !.pc = "run", !.steps = t]
  OBVIOUS
<1>6. /\ mig' = [mig EXCEPT ![p] = m] /\ recorded' = r
      /\ UNCHANGED <<effect, hand, locked, cut, twice>>
  <2>1. mig' = [mig EXCEPT ![p] = [x EXCEPT !.pc = "run", !.steps = t]]
    BY <1>1, FollowingFacts, MyRun DEF Record, MInv, MigrateTypeOK
  <2>2. QED
    BY <1>1, <1>5, <2>1, FollowingFacts DEF Record
<1>7. m \in MigRuns /\ m.pc = "run" /\ m.steps = t /\ m.pc \in Holding
  BY <1>2, <1>4, <1>5 DEF MigRuns, Holding
<1>8. f \notin SKIP => f \in effect
  BY <1>1, <1>2, <1>3 DEF StepsOk, Steps, Methods
<1>9. DatabaseOk(effect, r, hand, cut, twice)
  BY <1>2, <1>4, <1>8 DEF DatabaseOk
<1>10. StepsOk(m, effect)
  BY <1>2, <1>4, <1>7 DEF StepsOk
<1>11. ASSUME ~cut
       PROVE  StepsExact(m, effect, r)
  <2>1. ASSUME NEW g \in Files
        PROVE  /\ m.steps[g] = "none" <=> r[g] # "none"
               /\ g \notin SKIP => (g \in effect <=> m.steps[g] # "applied")
    <3>1. /\ x.steps[g] = "none" <=> recorded[g] # "none"
          /\ g \notin SKIP => (g \in effect <=> x.steps[g] # "applied" \/ g = f)
      BY <1>1, <1>2, <1>11 DEF StepsExact
    <3>2. QED
      BY <1>3, <1>4, <1>7, <3>1
  <2>2. QED
    BY <1>7, <2>1 DEF StepsExact
<1>12. QED
  <2>1. /\ m \in MigRuns /\ mig[p].pc \in Holding /\ mig' = [mig EXCEPT ![p] = m] /\ UNCHANGED hand
        /\ m.pc \in Holding /\ locked' = locked
        /\ effect' \subseteq Files /\ recorded' \in Steps /\ cut' \in BOOLEAN /\ twice' \in BOOLEAN
        /\ RunOk(m, effect', recorded', cut') /\ DatabaseOk(effect', recorded', hand, cut', twice')
        /\ m.pc \in AtWork
    BY <1>1, <1>2, <1>4, <1>6, <1>7, <1>9, <1>10, <1>11 DEF AtWork, RunOk
  <2>2. QED
    BY <2>1, OneRun

\* Nothing is left to do.
LEMMA OverInv ==
    ASSUME MInv, NEW CONSTANT p \in Runs, Over(p)
    PROVE  MInv'
<1>1. PICK x, m : x = mig[p] /\ m = [x EXCEPT !.pc = "unlock"]
  OBVIOUS
<1>2. /\ x \in MigRuns /\ x.steps \in Steps /\ x.pc = "run" /\ x.pc \in Holding /\ ToGo(x.steps) = {}
      /\ (~cut => StepsExact(x, effect, recorded))
      /\ DatabaseOk(effect, recorded, hand, cut, twice) /\ cut \in BOOLEAN /\ twice \in BOOLEAN
      /\ effect \subseteq Files /\ recorded \in Steps
  BY <1>1, MyRun, FollowingFacts DEF Over, RunOk, Holding
<1>3. ~cut => Clean(effect, recorded, hand)
  <2>1. \A f \in Files : x.steps[f] = "none"
    BY <1>2 DEF ToGo
  <2>2. ~cut => \A f \in Files \ SKIP : f \in effect /\ recorded[f] # "none"
    BY <1>2, <2>1 DEF StepsExact
  <2>3. QED
    BY <2>2, StepsFacts DEF Clean
<1>4. m \in MigRuns /\ m.pc = "unlock"
  BY <1>1, <1>2 DEF MigRuns, Holding
<1>5. /\ m \in MigRuns /\ mig[p].pc \in Holding /\ mig' = [mig EXCEPT ![p] = m] /\ UNCHANGED hand
      /\ m.pc \in Holding /\ locked' = locked
      /\ effect' \subseteq Files /\ recorded' \in Steps /\ cut' \in BOOLEAN /\ twice' \in BOOLEAN
      /\ RunOk(m, effect', recorded', cut') /\ DatabaseOk(effect', recorded', hand, cut', twice')
      /\ ~cut' /\ m.pc \notin AtWork => Clean(effect', recorded', hand)
  BY <1>1, <1>2, <1>3, <1>4 DEF Over, RunOk, Holding
<1>6. QED
  BY <1>5, OneRun

\* The lock is given back.
LEMMA ReleaseInv ==
    ASSUME MInv, NEW CONSTANT p \in Runs, Release(p)
    PROVE  MInv'
<1>1. PICK x, m : x = mig[p] /\ m = [x EXCEPT !.pc = "idle"]
  OBVIOUS
<1>2. /\ x \in MigRuns /\ x.pc = "unlock" /\ x.pc \in Holding \ AtWork
      /\ DatabaseOk(effect, recorded, hand, cut, twice) /\ cut \in BOOLEAN /\ twice \in BOOLEAN
      /\ effect \subseteq Files /\ recorded \in Steps
  BY <1>1, MyRun DEF Release, Holding, AtWork
<1>3. ~cut => Clean(effect, recorded, hand)
  BY <1>1, <1>2, OthersIdle
<1>4. m \in MigRuns /\ m.pc = "idle"
  BY <1>1, <1>2 DEF MigRuns
<1>5. /\ m \in MigRuns /\ mig[p].pc \in Holding /\ mig' = [mig EXCEPT ![p] = m] /\ UNCHANGED hand
      /\ m.pc = "idle" /\ locked' = NoRun
      /\ effect' \subseteq Files /\ recorded' \in Steps /\ cut' \in BOOLEAN /\ twice' \in BOOLEAN
      /\ RunOk(m, effect', recorded', cut') /\ DatabaseOk(effect', recorded', hand, cut', twice')
      /\ ~cut' /\ m.pc \notin AtWork => Clean(effect', recorded', hand)
  BY <1>1, <1>2, <1>3, <1>4 DEF Release, RunOk
<1>6. QED
  BY <1>5, OneRun

\* A run is cut off.
LEMMA CutInv ==
    ASSUME MInv, NEW CONSTANT p \in Runs, Cut(p)
    PROVE  MInv'
<1>1. PICK x, m : x = mig[p] /\ m = [x EXCEPT !.pc = "idle"]
  OBVIOUS
<1>2. /\ x \in MigRuns /\ x.pc \in Holding /\ RunOk(x, effect, recorded, cut)
      /\ DatabaseOk(effect, recorded, hand, cut, twice) /\ cut \in BOOLEAN /\ twice \in BOOLEAN
      /\ effect \subseteq Files /\ recorded \in Steps
  BY <1>1, MyRun DEF Cut, Holding
<1>3. PICK part \in SUBSET Files :
        /\ effect' = part
        /\ part = effect \/ (x.pc = "schema" /\ part \subseteq Files \ SKIP)
  BY <1>1, <1>2 DEF Cut
<1>4. m \in MigRuns /\ m.pc = "idle" /\ mig' = [mig EXCEPT ![p] = m] /\ locked' = NoRun
      /\ cut' = (cut \/ x.pc \in AtWork) /\ UNCHANGED <<recorded, hand, twice>>
  BY <1>1, <1>2 DEF Cut, MigRuns, AtWork
<1>5. cut' \in BOOLEAN /\ (cut => cut')
  BY <1>2, <1>4
<1>6. DatabaseOk(part, recorded, hand, cut', twice)
  <2>1. x.pc = "schema" => effect = {} /\ \A f \in Files : recorded[f] = "none"
    BY <1>2, StepsFacts DEF RunOk
  <2>2. QED
    BY <1>2, <1>3, <1>5, <2>1 DEF DatabaseOk
<1>7. ~cut' => Clean(part, recorded, hand)
  <2>1. ~cut' => ~cut /\ x.pc \in Holding \ AtWork
    BY <1>2, <1>4
  <2>2. ~cut' => part = effect
    BY <1>3, <2>1 DEF AtWork
  <2>3. QED
    BY <1>1, <2>1, <2>2, OthersIdle
<1>8. /\ m \in MigRuns /\ mig[p].pc \in Holding /\ mig' = [mig EXCEPT ![p] = m] /\ UNCHANGED hand
      /\ m.pc = "idle" /\ locked' = NoRun
      /\ effect' \subseteq Files /\ recorded' \in Steps /\ cut' \in BOOLEAN /\ twice' \in BOOLEAN
      /\ RunOk(m, effect', recorded', cut') /\ DatabaseOk(effect', recorded', hand, cut', twice')
      /\ ~cut' /\ m.pc \notin AtWork => Clean(effect', recorded', hand)
  BY <1>1, <1>2, <1>3, <1>4, <1>5, <1>6, <1>7 DEF RunOk
<1>9. QED
  BY <1>8, OneRun

\* The invariant holds at the start and is kept by every step.
LEMMA MigrateStart == MigrateInit => MInv
<1> SUFFICES ASSUME MigrateInit PROVE MInv
  OBVIOUS
<1>1. PICK h \in 0..Last : hand = h /\ effect = 1..h \ SKIP
  BY DEF MigrateInit
<1>2. 1..h \subseteq Files
  BY MigrateAssumption DEF Files
<1>3. MigrateTypeOK
  BY <1>1, <1>2, StepsFacts DEF MigrateInit, MigrateTypeOK, MigRuns
<1>4. \A p \in Runs : mig[p].pc = "idle" /\ locked # p
  BY MigrateAssumption DEF MigrateInit
<1>5. DatabaseOk(effect, recorded, hand, cut, twice)
  BY <1>1, StepsFacts DEF MigrateInit, DatabaseOk
<1>6. Clean(effect, recorded, hand)
  BY <1>1 DEF MigrateInit, Clean, Files
<1>7. QED
  BY <1>3, <1>4, <1>5, <1>6 DEF MInv, RunOk, Holding

\* Every step of a run, and being cut off, keeps MInv.
LEMMA MigrateStep == MInv /\ [MigrateNext]_migrateVars => MInv'
<1> SUFFICES ASSUME MInv, [MigrateNext]_migrateVars PROVE MInv'
  OBVIOUS
<1>1. CASE UNCHANGED migrateVars
  BY <1>1 DEF migrateVars, MInv, MigrateTypeOK, MigRuns
<1>2. CASE MigrateNext
  <2>1. PICK p \in Runs :
          \/ \E baseline \in {NoBaseline, hand} : Start(p, baseline)
          \/ GetLock(p) \/ LockTimeout(p) \/ Plan(p) \/ Schema(p) \/ Apply(p) \/ Record(p)
          \/ Over(p) \/ Release(p) \/ Cut(p)
    BY <1>2 DEF MigrateNext
  <2>2. CASE \E baseline \in {NoBaseline, hand} : Start(p, baseline)
    BY <2>2, StartInv
  <2>3. CASE GetLock(p) \/ LockTimeout(p) \/ Plan(p) \/ Schema(p)
    BY <2>3, GetLockInv, LockTimeoutInv, PlanInv, SchemaInv
  <2>4. CASE Apply(p) \/ Record(p) \/ Over(p) \/ Release(p) \/ Cut(p)
    BY <2>4, ApplyInv, RecordInv, OverInv, ReleaseInv, CutInv
  <2>5. QED
    BY <2>1, <2>2, <2>3, <2>4
<1>3. QED
  BY <1>1, <1>2

\* The invariant: only the run with the lock is past it, and what it has planned
\* stays in accord with the database.
THEOREM MigrateInductive == MigrateSpec => []MInv
BY MigrateStart, MigrateStep, PTL DEF MigrateSpec

\* What is recorded as done is in effect, whatever was cut off (migrate.mjs:8).
THEOREM NothingLeftOut == MigrateSpec => []RecordedIsThere
<1>1. MInv => RecordedIsThere
  BY DEF MInv, DatabaseOk, RecordedIsThere
<1>2. QED
  BY <1>1, MigrateInductive, PTL

\* Unless a run was cut off, no migration is carried out twice (db/README.md:43).
THEOREM CarriedOutOnce == MigrateSpec => []NothingTwice
<1>1. MInv => NothingTwice
  BY DEF MInv, DatabaseOk, NothingTwice
<1>2. QED
  BY <1>1, MigrateInductive, PTL

(***************************************************************************)
(* The token file.  TokenInv: the stamp that is kept is never later than   *)
(* what is loaded, so a stamp that is still the file's vouches for it.     *)
(***************************************************************************)

\* What can be loaded are rows of the file.
LEMMA ParseFacts ==
    ASSUME NEW c \in Contents
    PROVE  Parse(c) \in SUBSET Rows
BY DEF Parse, Contents

\* The file is written, at a later stamp, and the rest of the request rests.
LEMMA WriteInv ==
    ASSUME TokenInv, NEW c \in Contents, Write(c), UNCHANGED <<store, session, ask>>,
           edit' \in [Editors -> Edits], EditsOk'
    PROVE  TokenInv'
<1>1. /\ TokenTypeOK /\ StoreOk /\ DuringOk /\ EditsOk /\ Parse(c) \in SUBSET Rows
      /\ file' = [content |-> c, stamp |-> file.stamp + 1] /\ during' = during \union {Parse(c)}
      /\ file.stamp < MaxWrites /\ file.stamp \in Nat /\ store.key \in Nat /\ MaxWrites \in Nat
  BY ParseFacts, TokenAssumption DEF TokenInv, Write, TokenTypeOK, StoreStates
<1>2. file'.content = c /\ file'.stamp = file.stamp + 1 /\ file'.stamp \in 0..MaxWrites
  BY <1>1
<1>3. TokenTypeOK'
  BY <1>1, <1>2 DEF TokenTypeOK
<1>4. StoreOk'
  BY <1>1, <1>2 DEF StoreOk
<1>5. DuringOk'
  BY <1>1, <1>2 DEF DuringOk
<1>6. QED
  BY <1>3, <1>4, <1>5 DEF TokenInv

\* A request comes.
LEMMA AskInv ==
    ASSUME TokenInv, NEW CONSTANT kind \in {"session", "signin"}, NEW CONSTANT want \in Rows,
           Ask(kind, want)
    PROVE  TokenInv'
<1>1. PICK a : a = [pc |-> "stamp", kind |-> kind, want |-> want]
  OBVIOUS
<1>2. /\ a \in Asks /\ a.pc = "stamp" /\ ask' = a /\ ask.pc = "idle"
      /\ during' = {Parse(file.content)} /\ UNCHANGED <<file, store, session, edit>>
      /\ TokenTypeOK /\ StoreOk /\ DuringOk /\ EditsOk
  BY <1>1 DEF Ask, NoAsk, Asks, TokenInv
<1>3. Parse(file.content) \in SUBSET Rows
  BY <1>2, ParseFacts DEF TokenTypeOK
<1>4. TokenTypeOK'
  BY <1>2, <1>3 DEF TokenTypeOK
<1>5. StoreOk' /\ DuringOk' /\ EditsOk'
  BY <1>2 DEF StoreOk, DuringOk, EditsOk
<1>6. QED
  BY <1>4, <1>5 DEF TokenInv

\* The stamp is taken, and kept, before the file is read.
LEMMA TakeStampInv == TokenInv /\ TakeStamp => TokenInv'
<1> SUFFICES ASSUME TokenInv, TakeStamp PROVE TokenInv'
  OBVIOUS
<1>1. PICK c \in {"decide", "read"} :
        /\ ask' = [ask EXCEPT !.pc = c] /\ ask.pc = "stamp"
        /\ c = "decide" => file.stamp = store.key
        /\ store' = [store EXCEPT !.key = file.stamp] /\ UNCHANGED <<file, session, edit, during>>
        /\ TokenTypeOK /\ StoreOk /\ DuringOk /\ EditsOk
  BY DEF TakeStamp, TokenInv
<1>2. /\ ask'.pc = c /\ ask' \in Asks /\ ask.pc = "stamp"
      /\ store'.key = file.stamp /\ store'.rows = store.rows /\ store' \in StoreStates
      /\ file.stamp \in Nat
  BY <1>1 DEF TakeStamp, TokenTypeOK, Asks, StoreStates
<1>3. TokenTypeOK'
  BY <1>1, <1>2 DEF TokenTypeOK
<1>4. StoreOk'
  BY <1>1, <1>2 DEF StoreOk
<1>5. DuringOk' /\ EditsOk'
  BY <1>1, <1>2 DEF StoreOk, DuringOk, EditsOk
<1>6. QED
  BY <1>3, <1>4, <1>5 DEF TokenInv

\* The file is read.
LEMMA ReadInInv == TokenInv /\ ReadIn => TokenInv'
<1> SUFFICES ASSUME TokenInv, ReadIn PROVE TokenInv'
  OBVIOUS
<1>1. /\ ask.pc = "read" /\ store' = [store EXCEPT !.rows = Parse(file.content)]
      /\ ask' = [ask EXCEPT !.pc = "decide"] /\ UNCHANGED <<file, session, edit, during>>
      /\ TokenTypeOK /\ StoreOk /\ DuringOk /\ EditsOk
  BY DEF ReadIn, TokenInv
<1>2. Parse(file.content) \in SUBSET Rows
  BY <1>1, ParseFacts DEF TokenTypeOK
<1>3. /\ ask'.pc = "decide" /\ ask' \in Asks
      /\ store'.key = store.key /\ store'.rows = Parse(file.content) /\ store' \in StoreStates
  BY <1>1, <1>2 DEF TokenTypeOK, Asks, StoreStates
<1>4. TokenTypeOK'
  BY <1>1, <1>3 DEF TokenTypeOK
<1>5. StoreOk' /\ DuringOk' /\ EditsOk'
  BY <1>1, <1>3 DEF StoreOk, DuringOk, EditsOk
<1>6. QED
  BY <1>4, <1>5 DEF TokenInv

\* The request is answered.
LEMMA DecideInv == TokenInv /\ Decide => TokenInv'
<1> SUFFICES ASSUME TokenInv, Decide PROVE TokenInv'
  OBVIOUS
<1>1. /\ ask.pc = "decide" /\ ask' = NoAsk /\ UNCHANGED <<file, store, edit, during>>
      /\ session' \in Found \union {NoRow, session} /\ TokenTypeOK /\ StoreOk /\ EditsOk
  BY DEF Decide, TokenInv
<1>2. Found \subseteq Rows
  BY <1>1 DEF Found, Matches, TokenTypeOK, StoreStates
<1>3. NoAsk \in Asks /\ NoAsk.pc = "idle"
  BY DEF NoAsk, Asks
<1>4. TokenTypeOK'
  BY <1>1, <1>2, <1>3 DEF TokenTypeOK
<1>5. StoreOk' /\ DuringOk' /\ EditsOk'
  BY <1>1, <1>3 DEF StoreOk, DuringOk, EditsOk
<1>6. QED
  BY <1>4, <1>5 DEF TokenInv

\* An administrator at work on the file.
LEMMA EditInv ==
    ASSUME TokenInv, NEW CONSTANT e \in Editors, EditFile(e)
    PROVE  TokenInv'
<1>1. TokenTypeOK /\ StoreOk /\ DuringOk /\ EditsOk /\ NoEdit \in Edits /\ edit[e] \in Edits
  BY DEF TokenInv, TokenTypeOK, NoEdit, Edits
<1>2. CASE \E cmd \in {"new", "remove"}, row \in Rows : ReadFile(e, cmd, row)
  <2>1. PICK cmd \in {"new", "remove"}, row \in Rows : ReadFile(e, cmd, row)
    BY <1>2
  <2>2. file.content.rows \in SUBSET Rows
    BY <1>1 DEF TokenTypeOK, Contents
  <2>3. [cmd |-> cmd, row |-> row, seen |-> file.content.rows] \in Edits
    BY <2>2 DEF Edits
  <2>4. edit' \in [Editors -> Edits] /\ UNCHANGED <<file, store, session, ask, during>>
    BY <1>1, <2>1, <2>3 DEF ReadFile, TokenTypeOK
  <2>5. EditsOk'
    BY <1>1, <2>1, <2>3 DEF ReadFile, EditsOk, TokenTypeOK
  <2>6. QED
    BY <1>1, <2>4, <2>5 DEF TokenInv, TokenTypeOK, StoreOk, DuringOk
<1>3. CASE Rename(e)
  <2>1. PICK c : /\ c = [rows |-> IF edit[e].cmd = "new" THEN edit[e].seen \union {edit[e].row}
                                  ELSE edit[e].seen \ {edit[e].row}, good |-> TRUE]
                 /\ Write(c) /\ edit' = [edit EXCEPT ![e] = NoEdit] /\ UNCHANGED <<store, session, ask>>
    BY <1>3 DEF Rename
  <2>2. c \in Contents
    BY <1>1, <1>3, <2>1 DEF Rename, EditsOk, Edits, Contents
  <2>3. edit' \in [Editors -> Edits] /\ EditsOk'
    BY <1>1, <2>1 DEF TokenTypeOK, EditsOk, NoEdit
  <2>4. QED
    BY <2>1, <2>2, <2>3, WriteInv
<1>4. CASE TruncateFile(e) \/ Finished(e)
  <2>1. PICK c \in Contents : Write(c)
    <3>1. CASE TruncateFile(e)
      <4>1. PICK part \in SUBSET file.content.rows, ok \in BOOLEAN : Write([rows |-> part, good |-> ok])
        BY <3>1 DEF TruncateFile
      <4>2. [rows |-> part, good |-> ok] \in Contents
        BY <1>1, <4>1 DEF TokenTypeOK, Contents
      <4>3. QED
        BY <4>1, <4>2
    <3>2. CASE Finished(e)
      BY <3>2 DEF Finished
    <3>3. QED
      BY <1>4, <3>1, <3>2
  <2>2. UNCHANGED <<store, session, ask>>
    BY <1>4 DEF TruncateFile, Finished
  <2>3. edit' \in [Editors -> Edits] /\ EditsOk'
    BY <1>1, <1>4 DEF TruncateFile, Finished, TokenTypeOK, EditsOk, NoEdit, Edits
  <2>4. QED
    BY <2>1, <2>2, <2>3, WriteInv
<1>5. QED
  BY <1>2, <1>3, <1>4 DEF EditFile

\* The invariant holds at the start and is kept by every step.
LEMMA TokenStart == TokenInit => TokenInv
<1> SUFFICES ASSUME TokenInit PROVE TokenInv
  OBVIOUS
<1>1. TokenTypeOK
  BY TokenAssumption DEF TokenInit, TokenTypeOK, StoreStates, Asks, NoAsk, Edits, NoEdit, Contents
<1>2. StoreOk /\ DuringOk /\ EditsOk
  BY DEF TokenInit, StoreOk, DuringOk, EditsOk, NoAsk, NoEdit
<1>3. QED
  BY <1>1, <1>2 DEF TokenInv

\* Every step of a request, the command and the editors keeps TokenInv.
LEMMA TokenStep == TokenInv /\ [TokenNext]_tokenVars => TokenInv'
<1> SUFFICES ASSUME TokenInv, [TokenNext]_tokenVars PROVE TokenInv'
  OBVIOUS
<1>1. CASE \E kind \in {"session", "signin"}, want \in Rows : Ask(kind, want)
  BY <1>1, AskInv
<1>2. CASE TakeStamp \/ ReadIn \/ Decide
  BY <1>2, TakeStampInv, ReadInInv, DecideInv
<1>3. CASE SessionOver
  BY <1>3 DEF SessionOver, TokenInv, TokenTypeOK, StoreOk, DuringOk, EditsOk
<1>4. CASE \E e \in Editors : EditFile(e)
  BY <1>4, EditInv
<1>5. CASE UNCHANGED tokenVars
  BY <1>5 DEF tokenVars, TokenInv, TokenTypeOK, StoreOk, DuringOk, EditsOk
<1>6. QED
  BY <1>1, <1>2, <1>3, <1>4, <1>5 DEF TokenNext, TokenRequest

\* The invariant: what is loaded is as new as the stamp that is kept.
THEOREM TokenInductive == TokenSpec => []TokenInv
BY TokenStart, TokenStep, PTL DEF TokenSpec

\* The answer to a request is right for the file as it was at some moment of the
\* request (tokenauth.ts:7, :199 and :263).
THEOREM AnswersWereTrue == TokenSpec => []AnswerWasTrue
<1>1. TokenInv => AnswerWasTrue
  BY DEF TokenInv, DuringOk, AnswerWasTrue, Found
<1>2. QED
  BY <1>1, TokenInductive, PTL

(***************************************************************************)
(* Lockout.                                                                *)
(***************************************************************************)

\* A source is in the map once, and whoever comes after it has been counted since it was.
OrderOk ==
    /\ Len(order) <= MaxEntries
    /\ \A i, j \in 1..Len(order) : order[i] = order[j] => i = j
    /\ \A i, j \in 1..Len(order) : i < j => order[j] \in others[order[i]]
    /\ \A s \in Sources : IsFiniteSet(others[s])

\* The entry of a source: counting, or locked out for as long as a window is at least.
EntryOk(s) ==
    Known(s) =>
        /\ seen[s].first <= clock /\ seen[s].count >= 1
        /\ seen[s].until = 0 => seen[s].count <= MaxAttempts
        /\ seen[s].until # 0 => seen[s].first + Secs <= seen[s].until

\* The 401 answers of a source: numbered in their window, which are apart, and counted in the
\* entry, if its window is theirs.
AnswersOk(s) ==
    /\ Known(s) \/ wrong[s] = {}
    /\ \A a \in wrong[s] :
          /\ a.first <= a.at /\ a.at < a.first + Secs /\ (a.nth = 1 => a.at = a.first)
          /\ \/ a.first = seen[s].first /\ a.nth <= seen[s].count
             \/ a.first + Secs <= seen[s].first
    /\ \A a, b \in wrong[s] :
          /\ a.first = b.first /\ a.nth = b.nth => a = b
          /\ a.first = b.first \/ a.first + Secs <= b.first \/ b.first + Secs <= a.first

\* Who was told to wait is locked out until then.
ToldOk(s) == told[s] <= clock \/ (Known(s) /\ told[s] <= seen[s].until)

\* The inductive invariant.
LockInv == LockTypeOK /\ OrderOk /\ \A s \in Sources : EntryOk(s) /\ AnswersOk(s) /\ ToldOk(s)

\* The map without a source it knows.
LEMMA DeletedFacts ==
    ASSUME LockTypeOK, NEW s \in Sources, Known(s)
    PROVE  /\ Place(s) \in 1..Len(order) /\ order[Place(s)] = s
           /\ Deleted(s) \in Seq(Sources) /\ Len(Deleted(s)) = Len(order) - 1
           /\ \A i \in 1..Len(order) - 1 : Deleted(s)[i] = order[IF i < Place(s) THEN i ELSE i + 1]
<1>1. order \in Seq(Sources) /\ Len(order) \in Nat /\ DOMAIN order = 1..Len(order)
  BY DEF LockTypeOK
<1>2. Place(s) \in 1..Len(order) /\ order[Place(s)] = s
  BY <1>1 DEF Known, Place
<1>3. PICK p : p = Place(s)
  OBVIOUS
<1>4. PICK a, b : a = SubSeq(order, 1, p - 1) /\ b = SubSeq(order, p + 1, Len(order))
  OBVIOUS
<1>5. a \in Seq(Sources) /\ Len(a) = p - 1 /\ \A i \in 1..p - 1 : a[i] = order[i]
  <2>1. \A i \in 1..p - 1 : order[i] \in Sources
    BY <1>1, <1>2, <1>3
  <2>2. p - 1 \in Int /\ p - 1 >= 0
    BY <1>1, <1>2, <1>3
  <2>3. QED
    BY <1>4, <2>1, <2>2, SubSeqProperties
<1>6. b \in Seq(Sources) /\ Len(b) = Len(order) - p /\ \A i \in 1..Len(order) - p : b[i] = order[p + i]
  <2>1. \A i \in p + 1..Len(order) : order[i] \in Sources
    BY <1>1, <1>2, <1>3
  <2>2. p \in Int /\ p + 1 \in Int /\ Len(order) \in Int /\ p <= Len(order)
    BY <1>1, <1>2, <1>3
  <2>3. /\ b \in Seq(Sources)
        /\ Len(b) = IF p + 1 <= Len(order) THEN Len(order) - (p + 1) + 1 ELSE 0
        /\ \A i \in 1..Len(order) - (p + 1) + 1 : b[i] = order[p + 1 + i - 1]
    BY <1>4, <2>1, <2>2, SubSeqProperties
  <2>4. Len(order) - (p + 1) + 1 = Len(order) - p /\ \A i \in Int : p + 1 + i - 1 = p + i
    BY <2>2
  <2>5. Len(b) = Len(order) - p
    BY <2>2, <2>3
  <2>6. ASSUME NEW i \in 1..Len(order) - p PROVE b[i] = order[p + i]
    <3>1. i \in 1..Len(order) - (p + 1) + 1 /\ p + 1 + i - 1 = p + i
      BY <2>2
    <3>2. QED
      BY <2>3, <3>1
  <2>7. QED
    BY <2>3, <2>5, <2>6
<1>7. Deleted(s) = a \o b
  BY <1>3, <1>4 DEF Deleted
<1>8. /\ Deleted(s) \in Seq(Sources) /\ Len(Deleted(s)) = Len(order) - 1
      /\ \A i \in 1..Len(order) - 1 : Deleted(s)[i] = IF i <= p - 1 THEN a[i] ELSE b[i - (p - 1)]
  <2>1. /\ Deleted(s) \in Seq(Sources) /\ Len(Deleted(s)) = Len(a) + Len(b)
        /\ \A i \in 1..Len(a) + Len(b) : Deleted(s)[i] = IF i <= Len(a) THEN a[i] ELSE b[i - Len(a)]
    <3>1. a \in Seq(Sources) /\ b \in Seq(Sources)
      BY <1>5, <1>6
    <3>2. QED
      BY <1>7, <3>1, ConcatProperties
  <2>2. Len(a) = p - 1 /\ Len(a) + Len(b) = Len(order) - 1
    BY <1>1, <1>2, <1>3, <1>5, <1>6
  <2>3. QED
    BY <2>1, <2>2
<1>9. ASSUME NEW i \in 1..Len(order) - 1 PROVE Deleted(s)[i] = order[IF i < p THEN i ELSE i + 1]
  <2>1. CASE i < p
    BY <1>1, <1>2, <1>3, <1>5, <1>8, <2>1
  <2>2. CASE ~(i < p)
    <3>1. i - (p - 1) \in 1..Len(order) - p /\ p + (i - (p - 1)) = i + 1 /\ ~(i <= p - 1)
      BY <1>1, <1>2, <1>3, <2>2
    <3>2. QED
      BY <1>6, <1>8, <2>2, <3>1
  <2>3. QED
    BY <2>1, <2>2
<1>10. QED
  BY <1>2, <1>3, <1>8, <1>9

\* The n first of R are others than s in the order they had, and only a full map lost one.
RememberedAs(R, n, s) ==
    \E f \in [1..n -> 1..Len(order)] :
        /\ \A i, j \in 1..n : i < j => f[i] < f[j]
        /\ \A i \in 1..n : R[i] = order[f[i]] /\ order[f[i]] # s
        /\ \A k \in 1..Len(order) :
              \/ order[k] = s \/ \E i \in 1..n : f[i] = k
              \/ k = 1 /\ Len(order) = MaxEntries /\ ~Known(s)

\* What remember makes of the map: the source is at its end, before it are others in the order they
\* had, and only the first is forgotten, by one that is new in a full map.
LEMMA RememberFacts ==
    ASSUME LockTypeOK, OrderOk, NEW s \in Sources
    PROVE  /\ Remember(s) \in Seq(Sources)
           /\ Len(Remember(s)) \in 1..MaxEntries
           /\ Remember(s)[Len(Remember(s))] = s
           /\ RememberedAs(Remember(s), Len(Remember(s)) - 1, s)
<1>1. /\ order \in Seq(Sources) /\ Len(order) \in Nat /\ DOMAIN order = 1..Len(order)
      /\ MaxEntries \in Nat \ {0} /\ Len(order) <= MaxEntries
  BY LockoutAssumption DEF LockTypeOK, OrderOk
<1>2. PICK R : R = Remember(s)
  OBVIOUS
<1>3. CASE Known(s)
  <2>1. PICK d, p : d = Deleted(s) /\ p = Place(s)
    OBVIOUS
  <2>2. /\ p \in 1..Len(order) /\ order[p] = s
        /\ d \in Seq(Sources) /\ Len(d) = Len(order) - 1
        /\ \A i \in 1..Len(order) - 1 : d[i] = order[IF i < p THEN i ELSE i + 1]
    BY <1>3, <2>1, DeletedFacts
  <2>3. PICK F : F = Append(d, s)
    OBVIOUS
  <2>4. /\ F \in Seq(Sources) /\ Len(F) = Len(order) /\ F[Len(order)] = s
        /\ \A i \in 1..Len(order) - 1 : F[i] = d[i]
    <3>1. /\ F \in Seq(Sources) /\ Len(F) = Len(d) + 1 /\ F[Len(d) + 1] = s
          /\ \A i \in 1..Len(d) : F[i] = d[i]
      BY <2>2, <2>3, AppendProperties
    <3>2. Len(d) = Len(order) - 1 /\ Len(d) + 1 = Len(order)
      BY <1>1, <2>2
    <3>3. QED
      BY <3>1, <3>2
  <2>5. R = F
    <3>1. ~(Len(F) > MaxEntries)
      BY <1>1, <2>4
    <3>2. QED
      BY <1>2, <1>3, <2>1, <2>3, <3>1 DEF Remember
  <2>6. PICK f : f = [i \in 1..Len(order) - 1 |-> IF i < p THEN i ELSE i + 1]
    OBVIOUS
  <2>7. f \in [1..Len(order) - 1 -> 1..Len(order)]
    BY <1>1, <2>2, <2>6
  <2>8. \A i, j \in 1..Len(order) - 1 : i < j => f[i] < f[j]
    BY <1>1, <2>2, <2>6
  <2>9. ASSUME NEW i \in 1..Len(order) - 1 PROVE R[i] = order[f[i]] /\ order[f[i]] # s
    <3>0. f[i] = IF i < p THEN i ELSE i + 1
      BY <2>6
    <3>1. f[i] # p /\ f[i] \in 1..Len(order) /\ F[i] = order[f[i]]
      BY <1>1, <2>2, <2>4, <2>7, <3>0
    <3>2. QED
      BY <2>2, <2>5, <3>1 DEF OrderOk
  <2>10. ASSUME NEW k \in 1..Len(order), order[k] # s PROVE \E i \in 1..Len(order) - 1 : f[i] = k
    <3>1. CASE k < p
      <4>1. k \in 1..Len(order) - 1 /\ f[k] = k
        BY <1>1, <2>2, <2>6, <3>1
      <4>2. QED
        BY <4>1
    <3>2. CASE k > p
      <4>1. k - 1 \in 1..Len(order) - 1 /\ ~(k - 1 < p) /\ k - 1 + 1 = k
        BY <1>1, <2>2, <3>2
      <4>2. f[k - 1] = k
        BY <2>6, <4>1
      <4>3. QED
        BY <4>1, <4>2
    <3>3. QED
      BY <1>1, <2>2, <2>10, <3>1, <3>2
  <2>11. Len(R) - 1 = Len(order) - 1 /\ Len(R) \in 1..MaxEntries /\ R \in Seq(Sources) /\ R[Len(R)] = s
    BY <1>1, <2>2, <2>4, <2>5
  <2>12. PICK n : n = Len(order) - 1 /\ n = Len(R) - 1
    BY <2>11
  <2>13. /\ f \in [1..n -> 1..Len(order)]
         /\ \A i, j \in 1..n : i < j => f[i] < f[j]
         /\ \A i \in 1..n : R[i] = order[f[i]] /\ order[f[i]] # s
         /\ \A k \in 1..Len(order) : order[k] = s \/ \E i \in 1..n : f[i] = k
    BY <2>7, <2>8, <2>9, <2>10, <2>12
  <2>14. RememberedAs(R, n, s)
    BY <2>13 DEF RememberedAs
  <2>15. QED
    BY <1>2, <2>11, <2>12, <2>14
<1>4. CASE ~Known(s)
  <2>1. PICK F : F = Append(order, s)
    OBVIOUS
  <2>2. /\ F \in Seq(Sources) /\ Len(F) = Len(order) + 1 /\ F[Len(order) + 1] = s /\ F # <<>>
        /\ \A i \in 1..Len(order) : F[i] = order[i]
    BY <1>1, <2>1, AppendProperties
  <2>3. R = IF Len(F) > MaxEntries THEN Tail(F) ELSE F
    BY <1>2, <1>4, <2>1 DEF Remember
  <2>4. \A i \in 1..Len(order) : order[i] # s
    BY <1>1, <1>4 DEF Known
  <2>5. CASE Len(F) <= MaxEntries
    <3>1. R = F
      BY <1>1, <2>2, <2>3, <2>5
    <3>2. Len(R) - 1 = Len(order) /\ Len(R) \in 1..MaxEntries /\ R \in Seq(Sources) /\ R[Len(R)] = s
      BY <1>1, <2>2, <2>5, <3>1
    <3>3. PICK f : f = [i \in 1..Len(order) |-> i]
      OBVIOUS
    <3>4. f \in [1..Len(order) -> 1..Len(order)] /\ \A i \in 1..Len(order) : f[i] = i
      BY <3>3
    <3>5. /\ \A i, j \in 1..Len(order) : i < j => f[i] < f[j]
          /\ \A i \in 1..Len(order) : R[i] = order[f[i]] /\ order[f[i]] # s
          /\ \A k \in 1..Len(order) : \E i \in 1..Len(order) : f[i] = k
      BY <2>2, <2>4, <3>1, <3>4
    <3>6. RememberedAs(R, Len(order), s)
      BY <3>4, <3>5 DEF RememberedAs
    <3>7. QED
      BY <1>2, <3>2, <3>6
  <2>6. CASE Len(F) > MaxEntries
    <3>0. R = Tail(F)
      BY <2>3, <2>6
    <3>a. Len(F) = Len(order) + 1 /\ Len(order) \in Nat /\ Len(order) <= MaxEntries /\ MaxEntries \in Nat
      BY <1>1, <2>2
    <3>b. Len(order) = MaxEntries
      BY <2>6, <3>a
    <3>1. R = Tail(F) /\ Len(order) = MaxEntries
      BY <3>0, <3>b
    <3>2. R \in Seq(Sources) /\ Len(R) = Len(order) /\ \A i \in 1..Len(order) : R[i] = F[i + 1]
      BY <1>1, <2>2, <3>1, HeadTailProperties
    <3>3. Len(R) \in 1..MaxEntries /\ R[Len(R)] = s
      BY <1>1, <2>2, <3>1, <3>2
    <3>4. PICK f : f = [i \in 1..Len(order) - 1 |-> i + 1]
      OBVIOUS
    <3>5. f \in [1..Len(order) - 1 -> 1..Len(order)] /\ \A i \in 1..Len(order) - 1 : f[i] = i + 1
      BY <1>1, <3>4
    <3>6. \A i, j \in 1..Len(order) - 1 : i < j => f[i] < f[j]
      BY <1>1, <3>5
    <3>7. \A i \in 1..Len(order) - 1 : R[i] = order[f[i]] /\ order[f[i]] # s
      <4>1. ASSUME NEW i \in 1..Len(order) - 1 PROVE R[i] = order[i + 1] /\ order[i + 1] # s
        <5>1. i \in 1..Len(order) /\ i + 1 \in 1..Len(order)
          BY <1>1
        <5>2. QED
          BY <2>2, <2>4, <3>2, <5>1
      <4>2. QED
        BY <3>5, <4>1
    <3>8. ASSUME NEW k \in 1..Len(order), k # 1 PROVE \E i \in 1..Len(order) - 1 : f[i] = k
      <4>1. k - 1 \in 1..Len(order) - 1 /\ k - 1 + 1 = k
        BY <1>1, <3>8
      <4>2. QED
        BY <3>5, <4>1
    <3>9. Len(R) - 1 = Len(order) - 1
      BY <3>2
    <3>10. QED
      <4>1. R \in Seq(Sources)
        BY <3>2
      <4>2. \A k \in 1..Len(order) : (\E i \in 1..Len(order) - 1 : f[i] = k) \/ (k = 1 /\ Len(order) = MaxEntries)
        BY <3>1, <3>8
      <4>3. RememberedAs(R, Len(order) - 1, s)
        BY <1>4, <3>5, <3>6, <3>7, <4>2 DEF RememberedAs
      <4>4. QED
        BY <1>2, <3>3, <3>9, <4>1, <4>3
  <2>7. Len(F) <= MaxEntries \/ Len(F) > MaxEntries
    BY <1>1, <2>2
  <2>8. QED
    BY <2>5, <2>6, <2>7
<1>5. QED
  BY <1>3, <1>4

\* The map when there is nothing in it.
LEMMA LockStart == LockInit => LockInv
<1> SUFFICES ASSUME LockInit PROVE LockInv
  OBVIOUS
<1>1. /\ Secs \in Nat \ {0} /\ LastSecond \in Nat /\ 0 \in 0..LastSecond /\ 0 \in 0..LastSecond + Secs
      /\ MaxEntries \in Nat /\ 0 \in 0..MaxAttempts + 1
  BY LockoutAssumption
<1>2. NewEntry(0) \in Entries
  BY <1>1 DEF NewEntry, Entries, Times
<1>3. order \in Seq(Sources) /\ Len(order) = 0 /\ DOMAIN order = 1..0
  BY EmptySeq DEF LockInit
<1>4. LockTypeOK
  BY <1>1, <1>2, <1>3 DEF LockInit, LockTypeOK, Times
<1>5. OrderOk
  BY <1>1, <1>3, FS_EmptySet DEF LockInit, OrderOk
<1>6. ASSUME NEW s \in Sources PROVE EntryOk(s) /\ AnswersOk(s) /\ ToldOk(s)
  BY <1>3 DEF LockInit, Known, EntryOk, AnswersOk, ToldOk
<1>7. QED
  BY <1>4, <1>5, <1>6 DEF LockInv

\* Time goes by.
LEMMA LockTickInv ==
    ASSUME LockInv, LockTick
    PROVE  LockInv'
<1>1. clock \in Nat /\ clock' = clock + 1 /\ clock' \in Times
  BY LockoutAssumption DEF LockInv, LockTypeOK, LockTick, Times
<1>2. LockTypeOK' /\ OrderOk'
  BY <1>1 DEF LockInv, LockTypeOK, OrderOk, LockTick
<1>3. ASSUME NEW s \in Sources PROVE (EntryOk(s) /\ AnswersOk(s) /\ ToldOk(s))'
  <2>1. EntryOk(s) /\ AnswersOk(s) /\ ToldOk(s) /\ Known(s)' = Known(s)
    BY DEF LockInv, LockTick, Known
  <2>2. seen[s].first \in Nat /\ told[s] \in Nat
    BY LockoutAssumption DEF LockInv, LockTypeOK, Entries, Times
  <2>3. QED
    BY <1>1, <2>1, <2>2 DEF EntryOk, AnswersOk, ToldOk, LockTick
<1>4. QED
  BY <1>2, <1>3 DEF LockInv

\* The entry a wrong token is counted in: it is of now or of a window that is not over, and the
\* answers counted before were in it or in windows before it.
LEMMA EntryFacts ==
    ASSUME LockInv, NEW s \in Sources, ~LockedOut(s)
    PROVE  /\ Entry(s) \in Entries /\ Entry(s).until = 0
           /\ Entry(s).first <= clock /\ clock < Entry(s).first + Secs
           /\ Entry(s).count \in 0..MaxAttempts
           /\ Entry(s).count = 0 => Entry(s).first = clock
           /\ \A a \in wrong[s] :
                 \/ a.first = Entry(s).first /\ a.nth <= Entry(s).count
                 \/ a.first + Secs <= Entry(s).first
<1>1. /\ Secs \in Nat \ {0} /\ MaxAttempts \in Nat \ {0} /\ LastSecond \in Nat
      /\ clock \in 0..LastSecond /\ seen[s] \in Entries
      /\ wrong[s] \subseteq [first : Times, nth : 1..MaxAttempts, at : Times]
      /\ EntryOk(s) /\ AnswersOk(s)
  BY LockoutAssumption DEF LockInv, LockTypeOK, Times
<1>2. PICK e : e = seen[s]
  OBVIOUS
<1>3. /\ e.first \in 0..LastSecond /\ e.count \in 0..MaxAttempts + 1 /\ e.until \in 0..LastSecond + Secs
  BY <1>1, <1>2 DEF Entries, Times
<1>4. CASE Known(s) /\ clock - e.first < Secs /\ e.until = 0
  <2>1. e.first <= clock /\ e.count >= 1 /\ e.count <= MaxAttempts
    BY <1>1, <1>2, <1>4 DEF EntryOk
  <2>2. Entry(s) = e
    BY <1>1, <1>2, <1>3, <1>4 DEF Entry
  <2>3. clock < e.first + Secs
    BY <1>1, <1>3, <1>4
  <2>4. \A a \in wrong[s] : (a.first = e.first /\ a.nth <= e.count) \/ a.first + Secs <= e.first
    BY <1>1, <1>2 DEF AnswersOk
  <2>5. QED
    BY <1>1, <1>2, <1>3, <1>4, <2>1, <2>2, <2>3, <2>4
<1>5. CASE ~Known(s) \/ clock - e.first >= Secs \/ e.until # 0
  <2>1. Entry(s) = NewEntry(clock)
    BY <1>2, <1>5 DEF Entry
  <2>2. PICK n : n = NewEntry(clock)
    OBVIOUS
  <2>3. n \in Entries /\ n.first = clock /\ n.count = 0 /\ n.until = 0
    BY <1>1, <2>2 DEF NewEntry, Entries, Times
  <2>4. ASSUME NEW a \in wrong[s] PROVE a.first + Secs <= clock
    <3>1. a.first \in Nat /\ Known(s) /\ (a.first = e.first \/ a.first + Secs <= e.first) /\ e.first <= clock
      BY <1>1, <1>2 DEF AnswersOk, EntryOk, Times
    <3>2. e.first + Secs <= clock
      <4>1. CASE clock - e.first >= Secs
        BY <1>1, <1>3, <4>1
      <4>2. CASE e.until # 0
        <5>1. e.first + Secs <= e.until
          BY <1>1, <1>2, <3>1, <4>2 DEF EntryOk
        <5>2. ~(e.until > clock)
          BY <1>2, <3>1 DEF LockedOut
        <5>3. QED
          BY <1>1, <1>3, <5>1, <5>2
      <4>3. QED
        BY <1>5, <3>1, <4>1, <4>2
    <3>3. QED
      BY <1>1, <1>3, <3>1, <3>2
  <2>5. QED
    BY <1>1, <2>1, <2>2, <2>3, <2>4
<1>6. QED
  BY <1>1, <1>3, <1>4, <1>5

\* The places of the map after a wrong token.
LEMMA WrongOrder ==
    ASSUME LockInv, NEW CONSTANT s \in Sources, Wrong(s)
    PROVE  /\ order' \in Seq(Sources) /\ OrderOk'
           /\ Known(s)'
           /\ \A x \in Sources : Known(x)' => x = s \/ Known(x)
<1>1. /\ LockTypeOK /\ OrderOk /\ order' = Remember(s)
      /\ others' = [x \in Sources |-> IF x = s THEN {} ELSE others[x] \union {s}]
  BY DEF LockInv, Wrong
<1>2. PICK R : R = Remember(s)
  OBVIOUS
<1>3. PICK n : n = Len(R)
  OBVIOUS
<1>4. R \in Seq(Sources) /\ n \in 1..MaxEntries /\ R[n] = s /\ MaxEntries \in Nat
  BY <1>1, <1>2, <1>3, RememberFacts, LockoutAssumption
<1>5. PICK f \in [1..n - 1 -> 1..Len(order)] :
         /\ \A i, j \in 1..n - 1 : i < j => f[i] < f[j]
         /\ \A i \in 1..n - 1 : R[i] = order[f[i]] /\ order[f[i]] # s
  <2>1. \E f \in [1..Len(Remember(s)) - 1 -> 1..Len(order)] :
           /\ \A i, j \in 1..Len(Remember(s)) - 1 : i < j => f[i] < f[j]
           /\ \A i \in 1..Len(Remember(s)) - 1 : Remember(s)[i] = order[f[i]] /\ order[f[i]] # s
    BY <1>1, RememberFacts, Zenon DEF RememberedAs
  <2>2. QED
    BY <1>2, <1>3, <2>1
<1>6. /\ order \in Seq(Sources) /\ Len(order) \in Nat /\ DOMAIN order = 1..Len(order)
      /\ DOMAIN R = 1..n /\ order' = R
  BY <1>1, <1>2, <1>3, <1>4 DEF LockTypeOK
<1>7. \A i \in 1..n - 1 : i \in Nat /\ f[i] \in 1..Len(order) /\ R[i] \in Sources
  BY <1>4, <1>5, <1>6
<1>8. \A i \in 1..n : i \in 1..n - 1 \/ i = n
  BY <1>4
<1>9. \A i, j \in 1..n : R[i] = R[j] => i = j
  <2>1. ASSUME NEW i \in 1..n, NEW j \in 1..n, i < j PROVE R[i] # R[j]
    <3>1. i \in 1..n - 1
      BY <1>4, <2>1
    <3>2. CASE j = n
      BY <1>4, <1>5, <3>1, <3>2
    <3>3. CASE j \in 1..n - 1
      <4>1. f[i] < f[j] /\ f[i] \in Nat /\ f[j] \in Nat /\ f[i] # f[j]
        BY <1>5, <1>7, <2>1, <3>1, <3>3
      <4>2. QED
        BY <1>1, <1>5, <1>7, <3>1, <3>3, <4>1 DEF OrderOk
    <3>4. QED
      BY <1>8, <3>2, <3>3
  <2>2. \A i, j \in 1..n : i < j \/ j < i \/ i = j
    BY <1>4
  <2>3. QED
    BY <2>1, <2>2
<1>10. ASSUME NEW i \in 1..n, NEW j \in 1..n, i < j PROVE R[j] \in others'[R[i]]
  <2>1. i \in 1..n - 1
    BY <1>4, <1>10
  <2>2. R[i] \in Sources /\ R[i] # s /\ others'[R[i]] = others[R[i]] \union {s}
    BY <1>1, <1>5, <1>7, <2>1
  <2>3. CASE j = n
    BY <1>4, <2>2, <2>3
  <2>4. CASE j \in 1..n - 1
    <3>1. f[i] < f[j] /\ f[i] \in 1..Len(order) /\ f[j] \in 1..Len(order)
      BY <1>5, <1>7, <1>10, <2>1, <2>4
    <3>2. order[f[j]] \in others[order[f[i]]]
      BY <1>1, <3>1 DEF OrderOk
    <3>3. QED
      BY <1>5, <2>1, <2>2, <2>4, <3>2
  <2>5. QED
    BY <1>8, <2>3, <2>4
<1>11. ASSUME NEW x \in Sources PROVE IsFiniteSet(others'[x])
  <2>1. IsFiniteSet(others[x]) /\ IsFiniteSet(others[x] \union {s}) /\ IsFiniteSet({})
    BY <1>1, FS_AddElement, FS_EmptySet DEF OrderOk
  <2>2. QED
    BY <1>1, <2>1
<1>12. OrderOk'
  <2>1. Len(order') = n /\ n <= MaxEntries
    BY <1>3, <1>4, <1>6
  <2>2. QED
    BY <1>6, <1>9, <1>10, <1>11, <2>1 DEF OrderOk
<1>13. Known(s)'
  <2>1. n \in DOMAIN order' /\ order'[n] = s
    BY <1>4, <1>6
  <2>2. QED
    BY <2>1 DEF Known
<1>14. ASSUME NEW x \in Sources, Known(x)', x # s PROVE Known(x)
  <2>1. PICK i \in 1..n : R[i] = x
    BY <1>6, <1>14 DEF Known
  <2>2. i \in 1..n - 1
    BY <1>4, <1>8, <1>14, <2>1
  <2>3. QED
    BY <1>5, <1>6, <1>7, <2>1, <2>2 DEF Known
<1>15. QED
  BY <1>4, <1>6, <1>12, <1>13, <1>14


\* A wrong token is counted, and answered.
LEMMA WrongInv ==
    ASSUME LockInv, NEW CONSTANT s \in Sources, Wrong(s)
    PROVE  LockInv'
<1>1. /\ LockTypeOK /\ ~LockedOut(s) /\ clock' = clock
      /\ \A x \in Sources : EntryOk(x) /\ AnswersOk(x) /\ ToldOk(x)
  BY DEF LockInv, Wrong
<1>2. PICK e : e = Entry(s)
  OBVIOUS
<1>3. /\ e \in Entries /\ e.until = 0 /\ e.first <= clock /\ clock < e.first + Secs
      /\ e.count \in 0..MaxAttempts /\ (e.count = 0 => e.first = clock)
      /\ \A a \in wrong[s] : (a.first = e.first /\ a.nth <= e.count) \/ a.first + Secs <= e.first
  BY <1>1, <1>2, EntryFacts
<1> DEFINE over == e.count + 1 > MaxAttempts
<1>4. PICK gone, u : /\ gone = {x \in Sources : Known(x) /\ \A i \in DOMAIN Remember(s) : Remember(s)[i] # x}
                     /\ u = IF over THEN clock + Secs ELSE 0
  OBVIOUS
<1>5. PICK m : m = [e EXCEPT !.count = @ + 1, !.until = u]
  OBVIOUS
<1>6. PICK a : a = [first |-> e.first, nth |-> e.count + 1, at |-> clock]
  OBVIOUS
<1>7. /\ Secs \in Nat \ {0} /\ MaxAttempts \in Nat \ {0} /\ LastSecond \in Nat /\ clock \in 0..LastSecond
      /\ e.first \in 0..LastSecond
  BY <1>1, <1>3, LockoutAssumption DEF LockTypeOK, Entries, Times
<1>8. /\ m \in Entries /\ m.first = e.first /\ m.count = e.count + 1
      /\ m.until = IF over THEN clock + Secs ELSE 0
  <2>1. u \in 0..LastSecond + Secs /\ e.count + 1 \in 0..MaxAttempts + 1
    BY <1>3, <1>4, <1>7
  <2>2. /\ m \in Entries /\ m.first = e.first /\ m.count = e.count + 1 /\ m.until = u
    BY <1>3, <1>5, <2>1 DEF Entries
  <2>3. QED
    BY <1>4, <2>2
<1>9. a.first = e.first /\ a.nth = e.count + 1 /\ a.at = clock
  BY <1>6
<1>10. ~over => a \in [first : Times, nth : 1..MaxAttempts, at : Times]
  <2>1. ~over => e.count + 1 \in 1..MaxAttempts
    BY <1>3, <1>7
  <2>2. QED
    BY <1>6, <1>7, <2>1 DEF Times
<1>11. /\ seen' = [seen EXCEPT ![s] = m]
       /\ wrong' = [x \in Sources |-> IF x \in gone THEN {}
                                      ELSE IF x = s /\ ~over THEN wrong[x] \union {a} ELSE wrong[x]]
       /\ told' = [x \in Sources |-> IF x \in gone THEN 0
                                     ELSE IF x = s /\ over THEN clock + Secs ELSE told[x]]
       /\ others' = [x \in Sources |-> IF x = s THEN {} ELSE others[x] \union {s}]
       /\ order' = Remember(s)
  <2>1. m = [e EXCEPT !.count = @ + 1, !.until = IF over THEN Wait(s, e) ELSE 0]
    BY <1>4, <1>5 DEF Wait
  <2>2. QED
    BY <1>2, <1>4, <1>6, <2>1 DEF Wrong
<1>12. /\ order' \in Seq(Sources) /\ OrderOk' /\ Known(s)'
       /\ \A x \in Sources : Known(x)' => x = s \/ Known(x)
  BY WrongOrder
<1>13. \A x \in Sources : x \in gone <=> Known(x) /\ ~Known(x)'
  BY <1>4, <1>11 DEF Known
<1>14. LockTypeOK'
  <2>1. others' \in [Sources -> SUBSET Sources]
    BY <1>1, <1>11 DEF LockTypeOK
  <2>2. told' \in [Sources -> 0..LastSecond + Secs]
    BY <1>1, <1>7, <1>11 DEF LockTypeOK
  <2>3. wrong' \in [Sources -> SUBSET [first : Times, nth : 1..MaxAttempts, at : Times]]
    BY <1>1, <1>10, <1>11 DEF LockTypeOK
  <2>4. seen' \in [Sources -> Entries]
    BY <1>1, <1>8, <1>11 DEF LockTypeOK
  <2>5. QED
    BY <1>1, <1>12, <2>1, <2>2, <2>3, <2>4 DEF LockTypeOK, Times, Entries
<1>15. ASSUME NEW x \in Sources, x # s PROVE (EntryOk(x) /\ AnswersOk(x) /\ ToldOk(x))'
  <2>1. seen'[x] = seen[x]
    BY <1>1, <1>11, <1>15 DEF LockTypeOK
  <2>2. CASE x \in gone
    <3>1. ~Known(x)' /\ wrong'[x] = {} /\ told'[x] = 0
      BY <1>11, <1>13, <2>2
    <3>2. QED
      BY <1>1, <1>7, <3>1 DEF EntryOk, AnswersOk, ToldOk
  <2>3. CASE x \notin gone
    <3>1. Known(x)' = Known(x) /\ wrong'[x] = wrong[x] /\ told'[x] = told[x]
      BY <1>11, <1>12, <1>13, <1>15, <2>3 DEF Known
    <3>2. EntryOk(x) /\ AnswersOk(x) /\ ToldOk(x)
      BY <1>1
    <3>3. QED
      BY <1>1, <2>1, <3>1, <3>2 DEF EntryOk, AnswersOk, ToldOk
  <2>4. QED
    BY <2>2, <2>3
<1>16. s \notin gone /\ seen'[s] = m
  BY <1>1, <1>11, <1>12, <1>13 DEF LockTypeOK
<1>17. EntryOk(s)'
  <2>1. m.first <= clock /\ m.count >= 1
    BY <1>3, <1>7, <1>8
  <2>2. over => m.until = clock + Secs /\ m.until # 0 /\ m.first + Secs <= m.until
    BY <1>3, <1>7, <1>8
  <2>3. ~over => m.until = 0 /\ m.count <= MaxAttempts
    BY <1>3, <1>4, <1>7, <1>8
  <2>4. QED
    BY <1>1, <1>16, <2>1, <2>2, <2>3 DEF EntryOk
<1>18. AnswersOk(s)'
  <2>1. /\ wrong[s] \subseteq [first : Times, nth : 1..MaxAttempts, at : Times] /\ AnswersOk(s)
    BY <1>1 DEF LockTypeOK
  <2>2. CASE over
    <3>1. wrong'[s] = wrong[s]
      BY <1>11, <1>16, <2>2
    <3>2. \A b \in wrong[s] : (b.first = m.first /\ b.nth <= m.count) \/ b.first + Secs <= m.first
      BY <1>3, <1>7, <1>8, <2>1
    <3>3. QED
      BY <1>12, <1>16, <2>1, <3>1, <3>2 DEF AnswersOk
  <2>3. CASE ~over
    <3>1. wrong'[s] = wrong[s] \union {a}
      BY <1>11, <1>16, <2>3
    <3>2. a.first <= a.at /\ a.at < a.first + Secs /\ (a.nth = 1 => a.at = a.first)
      BY <1>3, <1>7, <1>9
    <3>3. a.first = m.first /\ a.nth <= m.count
      BY <1>3, <1>7, <1>8, <1>9
    <3>4. \A b \in wrong[s] :
             /\ ~(a.first = b.first /\ a.nth = b.nth)
             /\ a.first = b.first \/ b.first + Secs <= a.first
      BY <1>3, <1>7, <1>9, <2>1
    <3>5. \A b \in wrong[s] : (b.first = m.first /\ b.nth <= m.count) \/ b.first + Secs <= m.first
      BY <1>3, <1>7, <1>8, <2>1
    <3>6. \A b \in wrong'[s] :
             /\ b.first <= b.at /\ b.at < b.first + Secs /\ (b.nth = 1 => b.at = b.first)
             /\ (b.first = m.first /\ b.nth <= m.count) \/ b.first + Secs <= m.first
      BY <2>1, <3>1, <3>2, <3>3, <3>5 DEF AnswersOk
    <3>7. \A b, c \in wrong'[s] :
             /\ b.first = c.first /\ b.nth = c.nth => b = c
             /\ b.first = c.first \/ b.first + Secs <= c.first \/ c.first + Secs <= b.first
      BY <2>1, <3>1, <3>4 DEF AnswersOk
    <3>8. QED
      BY <1>12, <1>16, <3>6, <3>7 DEF AnswersOk
  <2>4. QED
    BY <1>4, <2>2, <2>3
<1>19. ToldOk(s)'
  <2>1. CASE over
    <3>1. told'[s] = clock + Secs /\ m.until = clock + Secs
      BY <1>8, <1>11, <1>16, <2>1
    <3>2. QED
      BY <1>7, <1>12, <1>16, <3>1 DEF ToldOk
  <2>2. CASE ~over
    <3>1. told'[s] = told[s] /\ told[s] \in Nat
      BY <1>1, <1>7, <1>11, <1>16, <2>2 DEF LockTypeOK
    <3>2. told[s] <= clock
      <4>1. Known(s) => seen[s].until <= clock /\ seen[s].until \in Nat
        BY <1>1, <1>7 DEF LockedOut, LockTypeOK, Entries
      <4>2. QED
        BY <1>1, <1>7, <3>1, <4>1 DEF ToldOk
    <3>3. QED
      BY <1>1, <3>1, <3>2 DEF ToldOk
  <2>3. QED
    BY <1>4, <2>1, <2>2
<1>20. QED
  BY <1>12, <1>14, <1>15, <1>17, <1>18, <1>19 DEF LockInv

\* The invariant: entries and answers of a source, and the order in which sources were counted.
THEOREM LockInductive == LockSpec => []LockInv
<1>1. LockInv /\ [LockNext]_lockVars => LockInv'
  <2> SUFFICES ASSUME LockInv, [LockNext]_lockVars PROVE LockInv'
    OBVIOUS
  <2>1. CASE LockTick
    BY <2>1, LockTickInv
  <2>2. ASSUME NEW CONSTANT s \in Sources, Wrong(s) PROVE LockInv'
    BY <2>2, WrongInv
  <2>3. CASE UNCHANGED lockVars
    BY <2>3 DEF lockVars, LockInv, LockTypeOK, OrderOk, EntryOk, AnswersOk, ToldOk, Known
  <2>4. QED
    BY <2>1, <2>2, <2>3 DEF LockNext
<1>2. QED
  BY <1>1, LockStart, PTL DEF LockSpec

\* A window of Secs seconds has answers of two windows of the source at most, and not the first one
\* of the earlier.
LEMMA FewWrongAnswers ==
    ASSUME LockInv, NEW s \in Sources, NEW t \in Times
    PROVE  WrongAnswers(s, t) < 2 * MaxAttempts
<1>1. PICK W : W = {a \in wrong[s] : t <= a.at /\ a.at < t + Secs}
  OBVIOUS
<1>2. /\ Secs \in Nat \ {0} /\ MaxAttempts \in Nat \ {0} /\ t \in Nat
      /\ wrong[s] \subseteq [first : Nat, nth : 1..MaxAttempts, at : Nat] /\ AnswersOk(s)
  BY LockoutAssumption DEF LockInv, LockTypeOK, Times
<1>3. /\ \A a \in W :
            /\ a.first \in Nat /\ a.nth \in 1..MaxAttempts /\ a.at \in Nat
            /\ t <= a.at /\ a.at < t + Secs
            /\ a.first <= a.at /\ a.at < a.first + Secs /\ (a.nth = 1 => a.at = a.first)
      /\ \A a, b \in W :
            /\ a.first = b.first /\ a.nth = b.nth => a = b
            /\ a.first = b.first \/ a.first + Secs <= b.first \/ b.first + Secs <= a.first
  BY <1>1, <1>2 DEF AnswersOk
<1>4. PICK f : f = [a \in W |-> IF a.first < t THEN MaxAttempts + a.nth - 1 ELSE a.nth]
  OBVIOUS
<1>5. \A a \in W : a.first < t => a.nth # 1
  BY <1>2, <1>3
<1>6. \A a \in W : f[a] \in 1..2 * MaxAttempts - 1
  BY <1>2, <1>3, <1>4, <1>5
<1>7. ASSUME NEW a \in W, NEW b \in W, a.first < t <=> b.first < t PROVE a.first = b.first
  <2>1. /\ a.first \in Nat /\ b.first \in Nat /\ a.at \in Nat /\ b.at \in Nat
        /\ t <= a.at /\ a.at < t + Secs /\ t <= b.at /\ b.at < t + Secs
        /\ a.first <= a.at /\ a.at < a.first + Secs /\ b.first <= b.at /\ b.at < b.first + Secs
        /\ a.first = b.first \/ a.first + Secs <= b.first \/ b.first + Secs <= a.first
    BY <1>3
  <2>2. QED
    BY <1>2, <1>7, <2>1
<1>8. \A a, b \in W : f[a] = f[b] => a = b
  <2> SUFFICES ASSUME NEW a \in W, NEW b \in W, f[a] = f[b] PROVE a = b
    OBVIOUS
  <2>1. /\ f[a] = IF a.first < t THEN MaxAttempts + a.nth - 1 ELSE a.nth
        /\ f[b] = IF b.first < t THEN MaxAttempts + b.nth - 1 ELSE b.nth
    BY <1>4
  <2>2. a.nth \in 1..MaxAttempts /\ b.nth \in 1..MaxAttempts /\ MaxAttempts \in Nat \ {0}
    BY <1>2, <1>3
  <2>3. (a.first < t <=> b.first < t) /\ a.nth = b.nth
    <3>1. (a.first < t => a.nth # 1) /\ (b.first < t => b.nth # 1)
      BY <1>5
    <3>2. CASE a.first < t /\ ~(b.first < t)
      <4>1. MaxAttempts + a.nth - 1 = b.nth
        BY <2>1, <3>2
      <4>2. QED
        BY <2>2, <3>1, <3>2, <4>1
    <3>3. CASE b.first < t /\ ~(a.first < t)
      <4>1. MaxAttempts + b.nth - 1 = a.nth
        BY <2>1, <3>3
      <4>2. QED
        BY <2>2, <3>1, <3>3, <4>1
    <3>4. CASE a.first < t /\ b.first < t
      <4>1. MaxAttempts + a.nth - 1 = MaxAttempts + b.nth - 1
        BY <2>1, <3>4
      <4>2. QED
        BY <2>2, <3>4, <4>1
    <3>5. CASE ~(a.first < t) /\ ~(b.first < t)
      BY <2>1, <3>5
    <3>6. (a.first < t) \in BOOLEAN /\ (b.first < t) \in BOOLEAN
      BY <1>2, <1>3
    <3>7. QED
      BY <3>2, <3>3, <3>4, <3>5, <3>6
  <2>4. QED
    BY <1>3, <1>7, <2>3
<1>9. f \in Injection(W, 1..2 * MaxAttempts - 1)
  <2>1. f \in [W -> 1..2 * MaxAttempts - 1]
    BY <1>4, <1>6
  <2>2. QED
    BY <1>8, <2>1 DEF Injection, IsInjective
<1>10. /\ IsFiniteSet(1..2 * MaxAttempts - 1)
       /\ Cardinality(1..2 * MaxAttempts - 1) = 2 * MaxAttempts - 1
  BY <1>2, FS_Interval
<1>11. IsFiniteSet(W) /\ Cardinality(W) <= 2 * MaxAttempts - 1
  BY <1>9, <1>10, FS_Injection
<1>12. QED
  BY <1>1, <1>2, <1>11, FS_CardinalityType DEF WrongAnswers

\* A source that was told to wait is answered nothing else before its time, and is never answered 401
\* so often as twice the attempts within as many seconds (tokenauth.ts:318-333).
THEOREM GuessesAreFew == LockSpec => []WrongAnswersBounded
<1>1. LockInv => WrongAnswersBounded
  <2> SUFFICES ASSUME LockInv, NEW s \in Sources
               PROVE  /\ told[s] > clock => LockedOut(s)
                      /\ \A t \in Times : WrongAnswers(s, t) < 2 * MaxAttempts
    BY DEF WrongAnswersBounded
  <2>1. ToldOk(s) /\ told[s] \in Nat /\ clock \in Nat /\ seen[s].until \in Nat
    BY LockoutAssumption DEF LockInv, LockTypeOK, Entries, Times
  <2>2. told[s] > clock => LockedOut(s)
    BY <2>1 DEF ToldOk, LockedOut
  <2>3. QED
    BY <2>2, FewWrongAnswers
<1>2. QED
  BY <1>1, LockInductive, PTL

\* A source is forgotten by one that is new in a full map, and all the others there have been counted
\* since it was (tokenauth.ts:335-343).
THEOREM FirstIsForgotten == LockSpec => ForgottenLast
<1>1. LockInv /\ [LockNext]_lockVars
         => [\A s \in Sources : Known(s) /\ ~Known(s)' => Cardinality(others'[s]) >= MaxEntries]_lockVars
  <2> SUFFICES ASSUME LockInv, LockNext, NEW x \in Sources, Known(x), ~Known(x)'
               PROVE  Cardinality(others'[x]) >= MaxEntries
    OBVIOUS
  <2>1. PICK s \in Sources : Wrong(s)
    BY DEF LockNext, LockTick, Known
  <2>2. /\ LockTypeOK /\ OrderOk /\ order' = Remember(s)
        /\ others' = [y \in Sources |-> IF y = s THEN {} ELSE others[y] \union {s}]
    BY <2>1 DEF LockInv, Wrong
  <2>3. PICK f \in [1..Len(Remember(s)) - 1 -> 1..Len(order)] :
           /\ \A i \in 1..Len(Remember(s)) - 1 : Remember(s)[i] = order[f[i]]
           /\ \A k \in 1..Len(order) :
                 \/ order[k] = s \/ \E i \in 1..Len(Remember(s)) - 1 : f[i] = k
                 \/ k = 1 /\ Len(order) = MaxEntries /\ ~Known(s)
    BY <2>2, RememberFacts, Zenon DEF RememberedAs
  <2>4. /\ Remember(s) \in Seq(Sources) /\ Len(Remember(s)) \in Nat
        /\ DOMAIN Remember(s) = 1..Len(Remember(s))
        /\ Len(Remember(s)) >= 1 /\ Remember(s)[Len(Remember(s))] = s
    <3>1. Remember(s) \in Seq(Sources) /\ Len(Remember(s)) \in 1..MaxEntries /\ Remember(s)[Len(Remember(s))] = s
      BY <2>2, RememberFacts, Zenon
    <3>2. QED
      BY <3>1, LockoutAssumption
  <2>5. /\ order \in Seq(Sources) /\ Len(order) \in Nat /\ DOMAIN order = 1..Len(order)
        /\ MaxEntries \in Nat \ {0}
    BY <2>2, LockoutAssumption DEF LockTypeOK
  <2>6. x # s
    BY <2>2, <2>4 DEF Known
  <2>7. PICK k \in 1..Len(order) : order[k] = x
    BY <2>5 DEF Known
  <2>8. ~\E i \in 1..Len(Remember(s)) - 1 : f[i] = k
    <3> SUFFICES ASSUME NEW i \in 1..Len(Remember(s)) - 1, f[i] = k PROVE FALSE
      OBVIOUS
    <3>1. Remember(s)[i] = x
      BY <2>3, <2>7
    <3>2. i \in DOMAIN Remember(s)
      BY <2>4
    <3>3. Known(x)'
      BY <2>2, <3>1, <3>2 DEF Known
    <3>4. QED
      BY <3>3
  <2>9. k = 1 /\ Len(order) = MaxEntries /\ ~Known(s)
    BY <2>3, <2>6, <2>7, <2>8
  <2>10. /\ \A j \in 1..Len(order) : order[j] # s
         /\ \A j \in 2..Len(order) : order[j] \in others[x]
         /\ \A i, j \in 1..Len(order) : order[i] = order[j] => i = j
    <3>1. \A j \in 1..Len(order) : order[j] # s
      BY <2>5, <2>9 DEF Known
    <3>2. \A j \in 2..Len(order) : j \in 1..Len(order) /\ 1 < j
      BY <2>5
    <3>3. QED
      BY <2>2, <2>7, <2>9, <3>1, <3>2 DEF OrderOk
  <2>11. PICK g : g = [i \in 1..MaxEntries |-> IF i = 1 THEN s ELSE order[i]]
    OBVIOUS
  <2>12. others'[x] = others[x] \union {s}
    BY <2>2, <2>6
  <2>13. g \in Injection(1..MaxEntries, others'[x])
    <3>1. \A i \in 1..MaxEntries : g[i] \in others'[x]
      BY <2>5, <2>9, <2>10, <2>11, <2>12
    <3>2. \A i, j \in 1..MaxEntries : g[i] = g[j] => i = j
      BY <2>5, <2>9, <2>10, <2>11
    <3>3. QED
      <4>1. g \in [1..MaxEntries -> others'[x]]
        BY <2>11, <3>1
      <4>2. QED
        BY <3>2, <4>1 DEF Injection, IsInjective
  <2>14. IsFiniteSet(others'[x])
    BY <2>2, <2>12, FS_AddElement DEF OrderOk
  <2>15. IsFiniteSet(1..MaxEntries) /\ Cardinality(1..MaxEntries) = MaxEntries
    <3>1. 1 \in Int /\ MaxEntries \in Int /\ ~(1 > MaxEntries) /\ MaxEntries - 1 + 1 = MaxEntries
      BY <2>5
    <3>2. QED
      BY <3>1, FS_Interval
  <2>16. Cardinality(1..MaxEntries) <= Cardinality(others'[x])
    BY <2>13, <2>14, FS_Injection
  <2>17. QED
    BY <2>5, <2>14, <2>15, <2>16, FS_CardinalityType
<1>2. QED
  BY <1>1, LockInductive, PTL DEF LockSpec, ForgottenLast

(***************************************************************************)
(* The ACME settings while they are edited.  AcmeInv: accounts, providers  *)
(* and resolvers stay lists of their kind, whatever is typed.              *)
(***************************************************************************)

\* A sequence without one of its elements.
LEMMA RestOfSeq ==
    ASSUME NEW S, NEW s \in Seq(S), NEW i \in DOMAIN s
    PROVE  SubSeq(s, 1, i - 1) \o SubSeq(s, i + 1, Len(s)) \in Seq(S)
<1>1. Len(s) \in Nat /\ DOMAIN s = 1..Len(s) /\ i \in 1..Len(s)
  BY LenProperties
<1>2. \A j \in 1..(i - 1) : s[j] \in S
  BY <1>1, ElementOfSeq
<1>3. \A j \in (i + 1)..Len(s) : s[j] \in S
  BY <1>1, ElementOfSeq
<1>4. SubSeq(s, 1, i - 1) \in Seq(S)
  BY <1>1, <1>2, SubSeqProperties
<1>5. SubSeq(s, i + 1, Len(s)) \in Seq(S)
  BY <1>1, <1>3, SubSeqProperties
<1>6. QED
  BY <1>4, <1>5, ConcatProperties

\* What the form holds: a provider of DNS challenges only where they are asked for.
Accounts == [name : EntryNames, allowed : Plain, eab_kid : Plain, eab_hmac_key_file : AcmeFiles, ca_file : AcmeFiles]
Texts == Plain \union AcmeFiles \union Calls
Providers == [name : EntryNames, type : Types, allowed : Plain, ca_file : AcmeFiles, own : [ProviderFields -> Texts]]
Resolvers ==
    {r \in [name : EntryNames, account : EntryNames, challenge : {"http-01", "dns-01"}, dns_provider : EntryNames] :
        r.dns_provider # "" => r.challenge = "dns-01"}
AcmeForms == [accounts : Seq(Accounts), providers : Seq(Providers), resolvers : Seq(Resolvers), storage : Plain]

\* The inductive invariant: a form that was not touched is the one of the value.
AcmeInv ==
    /\ acmeForm \in AcmeForms
    /\ formEdits \in Nat
    /\ acmeValue \in Stored \union {EmptyValue}
    /\ formEdits = 0 => acmeForm = toAcmeForm(acmeValue)

\* A text may be missing, good, or masked.
LEMMA NoneIsText == "none" \in Texts /\ "good" \in Texts /\ "masked" \in Texts
  BY DEF Texts, Plain

\* A provider of rproxy's is one.
LEMMA ProviderTyped ==
    ASSUME NEW type \in Types, NEW own, \A f \in DOMAIN own : own[f] \in Texts
    PROVE  Provider(type, own) \in Providers
<1>1. PICK fs : fs = [f \in ProviderFields |-> IF f \in DOMAIN own THEN own[f] ELSE "none"]
  OBVIOUS
<1>2. fs \in [ProviderFields -> Texts]
  BY <1>1, NoneIsText
<1>3. Provider(type, own) = [name |-> "b", type |-> type, allowed |-> "good", ca_file |-> "none", own |-> fs]
  <2>1. PICK none : emptyProvider = [name |-> "", type |-> "powerdns", allowed |-> "none", ca_file |-> "none", own |-> none]
    BY DEF emptyProvider
  <2>2. Provider(type, own) = [emptyProvider EXCEPT !.name = "b", !.type = type, !.allowed = "good", !.own = fs]
    BY <1>1, Zenon DEF Provider
  <2>3. QED
    BY <2>1, <2>2
<1>4. QED
  BY <1>2, <1>3 DEF Providers, EntryNames, Plain, AcmeFiles

\* The values that are stored.
LEMMA StoredFacts ==
    ASSUME NEW v \in Stored
    PROVE  \/ v = [accounts |-> {[Anyone EXCEPT !.ca_file = "here"]}, providers |-> {}, resolvers |-> {}, storage |-> "none"]
           \/ v = [accounts |-> {[Anyone EXCEPT !.eab_kid = "good", !.eab_hmac_key_file = "masked"]},
                   providers |-> {}, resolvers |-> {}, storage |-> "none"]
           \/ \E p \in Providers :
                 /\ \/ p = Provider("http", [add |-> "good", remove |-> "good", zones |-> "good"])
                    \/ p = Provider("http", [add |-> "masked", remove |-> "good", secret_file |-> "masked"])
                    \/ p = Provider("powerdns", [api_url |-> "good", api_key_file |-> "masked", ttl |-> "good"])
                 /\ v = [accounts |-> {Anyone}, providers |-> {p},
                         resolvers |-> {[name |-> "a", account |-> "a", challenge |-> "dns-01", dns_provider |-> "b"]},
                         storage |-> "good"]
<1>1. \A p : \/ p = Provider("http", [add |-> "good", remove |-> "good", zones |-> "good"])
             \/ p = Provider("http", [add |-> "masked", remove |-> "good", secret_file |-> "masked"])
             \/ p = Provider("powerdns", [api_url |-> "good", api_key_file |-> "masked", ttl |-> "good"])
             => p \in Providers
  <2>1. \A f \in DOMAIN [add |-> "good", remove |-> "good", zones |-> "good"] :
            [add |-> "good", remove |-> "good", zones |-> "good"][f] \in Texts
    BY NoneIsText
  <2>2. \A f \in DOMAIN [add |-> "masked", remove |-> "good", secret_file |-> "masked"] :
            [add |-> "masked", remove |-> "good", secret_file |-> "masked"][f] \in Texts
    BY NoneIsText
  <2>3. \A f \in DOMAIN [api_url |-> "good", api_key_file |-> "masked", ttl |-> "good"] :
            [api_url |-> "good", api_key_file |-> "masked", ttl |-> "good"][f] \in Texts
    BY NoneIsText
  <2>4. "http" \in Types /\ "powerdns" \in Types
    BY DEF Types
  <2>5. QED
    BY <2>1, <2>2, <2>3, <2>4, ProviderTyped
<1>2. QED
  BY <1>1 DEF Stored

\* One entry after another, when there is one at most.
LEMMA OneInTurn ==
    ASSUME NEW S, NEW e
    PROVE  /\ InTurn({}) = <<>> /\ <<>> \in Seq(S)
           /\ InTurn({e}) = <<e>> /\ (e \in S => <<e>> \in Seq(S))
BY DEF InTurn

\* The accounts of the stored values.
LEMMA AnyoneTyped ==
    /\ Anyone \in Accounts /\ [Anyone EXCEPT !.ca_file = "here"] \in Accounts
    /\ [Anyone EXCEPT !.eab_kid = "good", !.eab_hmac_key_file = "masked"] \in Accounts
    /\ Anyone.name = "a" /\ Anyone.allowed = "good" /\ Anyone.eab_kid = "none"
    /\ Anyone.eab_hmac_key_file = "none" /\ Anyone.ca_file = "none"
<1>1. PICK a : a = emptyAccount
  OBVIOUS
<1>2. /\ a \in Accounts
      /\ a.eab_kid = "none" /\ a.eab_hmac_key_file = "none" /\ a.ca_file = "none"
  BY <1>1 DEF emptyAccount, Accounts, EntryNames, Plain, AcmeFiles
<1>3. PICK b : b = Anyone
  OBVIOUS
<1>4. b = [a EXCEPT !.name = "a", !.allowed = "good"]
  BY <1>1, <1>3 DEF Anyone
<1>5. /\ b \in Accounts
      /\ b.name = "a" /\ b.allowed = "good"
      /\ b.eab_kid = "none" /\ b.eab_hmac_key_file = "none" /\ b.ca_file = "none"
  BY <1>2, <1>4 DEF Accounts, EntryNames, Plain
<1>6. [b EXCEPT !.ca_file = "here"] \in Accounts
  BY <1>5 DEF Accounts, AcmeFiles
<1>7. [b EXCEPT !.eab_kid = "good", !.eab_hmac_key_file = "masked"] \in Accounts
  BY <1>5 DEF Accounts, AcmeFiles, Plain
<1>8. QED
  BY <1>3, <1>5, <1>6, <1>7

\* The rows of a form, and the value it was filled from.
FormOf(v, as, ps, rs, storage) ==
    /\ toAcmeForm(v) = [accounts |-> as, providers |-> ps, resolvers |-> rs, storage |-> storage]
    /\ v = [accounts |-> {as[i] : i \in DOMAIN as}, providers |-> {ps[i] : i \in DOMAIN ps},
            resolvers |-> {rs[i] : i \in DOMAIN rs}, storage |-> storage]

\* A value has at most one entry of each kind.
LEMMA ValueShape ==
    ASSUME NEW v \in Stored \union {EmptyValue}
    PROVE  \E as \in Seq(Accounts), ps \in Seq(Providers), rs \in Seq(Resolvers), storage \in Plain :
              FormOf(v, as, ps, rs, storage)
<1>1. \A e : {<<e>>[i] : i \in DOMAIN <<e>>} = {e}
  OBVIOUS
<1>2. {<<>>[i] : i \in DOMAIN <<>>} = {}
  OBVIOUS
<1>3. "none" \in Plain /\ "good" \in Plain
  BY DEF Plain
<1>4. CASE v = EmptyValue
  <2>1. toAcmeForm(v) = [accounts |-> <<>>, providers |-> <<>>, resolvers |-> <<>>, storage |-> "none"]
    BY <1>4, OneInTurn DEF toAcmeForm, EmptyValue
  <2>2. FormOf(v, <<>>, <<>>, <<>>, "none")
    BY <1>2, <1>4, <2>1 DEF EmptyValue, FormOf
  <2>3. QED
    BY <1>3, <2>2, OneInTurn
<1>5. ASSUME NEW a \in Accounts, v = [accounts |-> {a}, providers |-> {}, resolvers |-> {}, storage |-> "none"]
      PROVE  \E as \in Seq(Accounts), ps \in Seq(Providers), rs \in Seq(Resolvers), storage \in Plain :
              FormOf(v, as, ps, rs, storage)
  <2>1. toAcmeForm(v) = [accounts |-> <<a>>, providers |-> <<>>, resolvers |-> <<>>, storage |-> "none"]
    BY <1>5, OneInTurn DEF toAcmeForm
  <2>2. FormOf(v, <<a>>, <<>>, <<>>, "none")
    BY <1>1, <1>2, <1>5, <2>1 DEF FormOf
  <2>3. QED
    BY <1>3, <2>2, OneInTurn
<1>6. ASSUME NEW p \in Providers, NEW r \in Resolvers,
             v = [accounts |-> {Anyone}, providers |-> {p}, resolvers |-> {r}, storage |-> "good"]
      PROVE  \E as \in Seq(Accounts), ps \in Seq(Providers), rs \in Seq(Resolvers), storage \in Plain :
              FormOf(v, as, ps, rs, storage)
  <2>1. toAcmeForm(v) = [accounts |-> <<Anyone>>, providers |-> <<p>>, resolvers |-> <<r>>, storage |-> "good"]
    BY <1>6, OneInTurn DEF toAcmeForm
  <2>2. FormOf(v, <<Anyone>>, <<p>>, <<r>>, "good")
    BY <1>1, <1>6, <2>1 DEF FormOf
  <2>3. <<Anyone>> \in Seq(Accounts) /\ <<p>> \in Seq(Providers) /\ <<r>> \in Seq(Resolvers)
    BY OneInTurn, AnyoneTyped
  <2>4. QED
    BY <1>3, <2>2, <2>3
<1>7. [name |-> "a", account |-> "a", challenge |-> "dns-01", dns_provider |-> "b"] \in Resolvers
  BY DEF Resolvers, EntryNames
<1>8. QED
  BY <1>4, <1>5, <1>6, <1>7, StoredFacts, AnyoneTyped

\* The form when it is opened.
LEMMA AcmeStart == AcmeInit => AcmeInv
<1> SUFFICES ASSUME AcmeInit PROVE AcmeInv
  OBVIOUS
<1>1. PICK as \in Seq(Accounts), ps \in Seq(Providers), rs \in Seq(Resolvers), storage \in Plain :
         acmeForm = [accounts |-> as, providers |-> ps, resolvers |-> rs, storage |-> storage]
  BY ValueShape DEF AcmeInit, FormOf
<1>2. acmeForm \in AcmeForms
  BY <1>1 DEF AcmeForms
<1>3. QED
  BY <1>2 DEF AcmeInit, AcmeInv

\* An edited form is one, when what was edited is of its kind.
LEMMA EditedIsOk ==
    ASSUME AcmeInv, NEW f, FormEdit(f), f \in AcmeForms
    PROVE  AcmeInv'
BY DEF AcmeInv, FormEdit

\* The form with other rows.
LEMMA RowsEdited ==
    ASSUME AcmeInv
    PROVE  /\ \A rows \in Seq(Accounts) : [acmeForm EXCEPT !.accounts = rows] \in AcmeForms
           /\ \A rows \in Seq(Providers) : [acmeForm EXCEPT !.providers = rows] \in AcmeForms
           /\ \A rows \in Seq(Resolvers) : [acmeForm EXCEPT !.resolvers = rows] \in AcmeForms
           /\ \A x \in Plain : [acmeForm EXCEPT !.storage = x] \in AcmeForms
           /\ acmeForm.accounts \in Seq(Accounts) /\ acmeForm.providers \in Seq(Providers)
           /\ acmeForm.resolvers \in Seq(Resolvers)
BY DEF AcmeInv, AcmeForms

\* Rows are added and removed.
LEMMA AcmeRows ==
    ASSUME AcmeInv, AddEntry \/ RemoveEntry
    PROVE  AcmeInv'
<1>1. emptyAccount \in Accounts
  BY DEF emptyAccount, Accounts, EntryNames, Plain, AcmeFiles
<1>2. emptyProvider \in Providers
  <2>1. [f \in ProviderFields |-> "none"] \in [ProviderFields -> Texts]
    BY NoneIsText
  <2>2. QED
    BY <2>1 DEF emptyProvider, Providers, EntryNames, Types, Plain, AcmeFiles
<1>3. emptyResolver \in Resolvers
  BY DEF emptyResolver, Resolvers, EntryNames
<1>4. CASE AddEntry
  <2>1. Append(acmeForm.accounts, emptyAccount) \in Seq(Accounts)
    BY <1>1, RowsEdited, AppendProperties
  <2>2. Append(acmeForm.providers, emptyProvider) \in Seq(Providers)
    BY <1>2, RowsEdited, AppendProperties
  <2>3. Append(acmeForm.resolvers, emptyResolver) \in Seq(Resolvers)
    BY <1>3, RowsEdited, AppendProperties
  <2>4. QED
    BY <1>4, <2>1, <2>2, <2>3, RowsEdited, EditedIsOk DEF AddEntry
<1>5. CASE RemoveEntry
  <2>1. \A i \in DOMAIN acmeForm.accounts : Without(acmeForm.accounts, i) \in Seq(Accounts)
    BY RowsEdited, RestOfSeq DEF Without
  <2>2. \A i \in DOMAIN acmeForm.providers : Without(acmeForm.providers, i) \in Seq(Providers)
    BY RowsEdited, RestOfSeq DEF Without
  <2>3. \A i \in DOMAIN acmeForm.resolvers : Without(acmeForm.resolvers, i) \in Seq(Resolvers)
    BY RowsEdited, RestOfSeq DEF Without
  <2>4. QED
    BY <1>5, <2>1, <2>2, <2>3, RowsEdited, EditedIsOk DEF RemoveEntry
<1>6. QED
  BY <1>4, <1>5

\* The form with another row.
LEMMA RowEdited ==
    ASSUME AcmeInv
    PROVE  /\ \A i \in DOMAIN acmeForm.accounts : \A e \in Accounts : [acmeForm EXCEPT !.accounts[i] = e] \in AcmeForms
           /\ \A i \in DOMAIN acmeForm.providers : \A e \in Providers : [acmeForm EXCEPT !.providers[i] = e] \in AcmeForms
           /\ \A i \in DOMAIN acmeForm.resolvers : \A e \in Resolvers : [acmeForm EXCEPT !.resolvers[i] = e] \in AcmeForms
           /\ \A i \in DOMAIN acmeForm.accounts : acmeForm.accounts[i] \in Accounts
           /\ \A i \in DOMAIN acmeForm.providers : acmeForm.providers[i] \in Providers
           /\ \A i \in DOMAIN acmeForm.resolvers : acmeForm.resolvers[i] \in Resolvers
<1>1. /\ acmeForm.accounts \in Seq(Accounts) /\ acmeForm.providers \in Seq(Providers)
      /\ acmeForm.resolvers \in Seq(Resolvers)
  BY RowsEdited
<1>2. /\ \A i \in DOMAIN acmeForm.accounts : \A e \in Accounts : [acmeForm.accounts EXCEPT ![i] = e] \in Seq(Accounts)
      /\ \A i \in DOMAIN acmeForm.accounts : acmeForm.accounts[i] \in Accounts
  BY <1>1, ExceptSeq, LenProperties, ElementOfSeq
<1>3. /\ \A i \in DOMAIN acmeForm.providers : \A e \in Providers : [acmeForm.providers EXCEPT ![i] = e] \in Seq(Providers)
      /\ \A i \in DOMAIN acmeForm.providers : acmeForm.providers[i] \in Providers
  BY <1>1, ExceptSeq, LenProperties, ElementOfSeq
<1>4. /\ \A i \in DOMAIN acmeForm.resolvers : \A e \in Resolvers : [acmeForm.resolvers EXCEPT ![i] = e] \in Seq(Resolvers)
      /\ \A i \in DOMAIN acmeForm.resolvers : acmeForm.resolvers[i] \in Resolvers
  BY <1>1, ExceptSeq, LenProperties, ElementOfSeq
<1>5. /\ \A i, e : [acmeForm EXCEPT !.accounts[i] = e] = [acmeForm EXCEPT !.accounts = [acmeForm.accounts EXCEPT ![i] = e]]
      /\ \A i, e : [acmeForm EXCEPT !.providers[i] = e] = [acmeForm EXCEPT !.providers = [acmeForm.providers EXCEPT ![i] = e]]
      /\ \A i, e : [acmeForm EXCEPT !.resolvers[i] = e] = [acmeForm EXCEPT !.resolvers = [acmeForm.resolvers EXCEPT ![i] = e]]
  OBVIOUS
<1>6. QED
  BY <1>2, <1>3, <1>4, <1>5, RowsEdited

\* Fields of an account are edited.
LEMMA AccountEdited ==
    ASSUME AcmeInv, NEW i \in DOMAIN acmeForm.accounts, EditAccount(i)
    PROVE  AcmeInv'
<1>1. PICK a \in Accounts : a = acmeForm.accounts[i]
  BY RowEdited
<1>2. \A x \in EntryNames : [a EXCEPT !.name = x] \in Accounts
  BY DEF Accounts
<1>3. \A k \in {"allowed", "eab_kid"} : \A x \in Plain : [a EXCEPT ![k] = x] \in Accounts
  <2>1. \A x \in Plain : [a EXCEPT !.allowed = x] \in Accounts
    BY DEF Accounts
  <2>2. \A x \in Plain : [a EXCEPT !.eab_kid = x] \in Accounts
    BY DEF Accounts
  <2>3. QED
    BY <2>1, <2>2
<1>4. \A k \in {"eab_hmac_key_file", "ca_file"} : \A x \in AcmeFiles : [a EXCEPT ![k] = x] \in Accounts
  <2>1. \A x \in AcmeFiles : [a EXCEPT !.eab_hmac_key_file = x] \in Accounts
    BY DEF Accounts
  <2>2. \A x \in AcmeFiles : [a EXCEPT !.ca_file = x] \in Accounts
    BY DEF Accounts
  <2>3. QED
    BY <2>1, <2>2
<1>5. \A x : [acmeForm EXCEPT !.accounts[i].name = x] = [acmeForm EXCEPT !.accounts[i] = [a EXCEPT !.name = x]]
  BY <1>1
<1>6. \A x \in EntryNames : [acmeForm EXCEPT !.accounts[i].name = x] \in AcmeForms
  BY <1>2, <1>5, RowEdited
<1>7. \A k \in {"allowed", "eab_kid"}, x \in Plain : [acmeForm EXCEPT !.accounts[i][k] = x] \in AcmeForms
  <2> SUFFICES ASSUME NEW k \in {"allowed", "eab_kid"}, NEW x \in Plain
               PROVE  [acmeForm EXCEPT !.accounts[i][k] = x] \in AcmeForms
    OBVIOUS
  <2>1. PICK e \in Accounts : e = [a EXCEPT ![k] = x]
    BY <1>3
  <2>2. [acmeForm EXCEPT !.accounts[i][k] = x] = [acmeForm EXCEPT !.accounts[i] = e]
    BY <1>1, <2>1
  <2>3. QED
    BY <2>2, RowEdited
<1>8. \A k \in {"eab_hmac_key_file", "ca_file"}, x \in AcmeFiles : [acmeForm EXCEPT !.accounts[i][k] = x] \in AcmeForms
  <2> SUFFICES ASSUME NEW k \in {"eab_hmac_key_file", "ca_file"}, NEW x \in AcmeFiles
               PROVE  [acmeForm EXCEPT !.accounts[i][k] = x] \in AcmeForms
    OBVIOUS
  <2>1. PICK e \in Accounts : e = [a EXCEPT ![k] = x]
    BY <1>4
  <2>2. [acmeForm EXCEPT !.accounts[i][k] = x] = [acmeForm EXCEPT !.accounts[i] = e]
    BY <1>1, <2>1
  <2>3. QED
    BY <2>2, RowEdited
<1>9. CASE \E x \in EntryNames : FormEdit([acmeForm EXCEPT !.accounts[i].name = x])
  BY <1>6, <1>9, EditedIsOk
<1>10. CASE \E k \in {"allowed", "eab_kid"}, x \in Plain : FormEdit([acmeForm EXCEPT !.accounts[i][k] = x])
  BY <1>7, <1>10, EditedIsOk
<1>11. CASE \E k \in {"eab_hmac_key_file", "ca_file"}, x \in AcmeFiles : FormEdit([acmeForm EXCEPT !.accounts[i][k] = x])
  BY <1>8, <1>11, EditedIsOk
<1>12. QED
  BY <1>9, <1>10, <1>11 DEF EditAccount

\* Fields of a provider are edited.
LEMMA ProviderEdited ==
    ASSUME AcmeInv, NEW i \in DOMAIN acmeForm.providers, EditProvider(i)
    PROVE  AcmeInv'
<1>1. PICK p \in Providers : p = acmeForm.providers[i]
  BY RowEdited
<1>2. /\ \A x \in EntryNames : [p EXCEPT !.name = x] \in Providers
      /\ \A x \in Types : [p EXCEPT !.type = x] \in Providers
      /\ \A x \in Plain : [p EXCEPT !.allowed = x] \in Providers
      /\ \A x \in AcmeFiles : [p EXCEPT !.ca_file = x] \in Providers
  BY DEF Providers
<1>3. \A k : \A x \in InField(k) : [p EXCEPT !.own[k] = x] \in Providers
  BY DEF Providers, InField, Texts
<1>4. /\ \A x : [acmeForm EXCEPT !.providers[i].name = x] = [acmeForm EXCEPT !.providers[i] = [p EXCEPT !.name = x]]
      /\ \A x : [acmeForm EXCEPT !.providers[i].type = x] = [acmeForm EXCEPT !.providers[i] = [p EXCEPT !.type = x]]
      /\ \A x : [acmeForm EXCEPT !.providers[i].allowed = x] = [acmeForm EXCEPT !.providers[i] = [p EXCEPT !.allowed = x]]
      /\ \A x : [acmeForm EXCEPT !.providers[i].ca_file = x] = [acmeForm EXCEPT !.providers[i] = [p EXCEPT !.ca_file = x]]
  BY <1>1
<1>5. /\ \A x \in EntryNames : [acmeForm EXCEPT !.providers[i].name = x] \in AcmeForms
      /\ \A x \in Types : [acmeForm EXCEPT !.providers[i].type = x] \in AcmeForms
      /\ \A x \in Plain : [acmeForm EXCEPT !.providers[i].allowed = x] \in AcmeForms
      /\ \A x \in AcmeFiles : [acmeForm EXCEPT !.providers[i].ca_file = x] \in AcmeForms
  <2>0. \A e \in Providers : [acmeForm EXCEPT !.providers[i] = e] \in AcmeForms
    BY RowEdited
  <2>1. \A x \in EntryNames : [acmeForm EXCEPT !.providers[i].name = x] \in AcmeForms
    BY <1>2, <1>4, <2>0
  <2>2. \A x \in Types : [acmeForm EXCEPT !.providers[i].type = x] \in AcmeForms
    BY <1>2, <1>4, <2>0
  <2>3. \A x \in Plain : [acmeForm EXCEPT !.providers[i].allowed = x] \in AcmeForms
    BY <1>2, <1>4, <2>0
  <2>4. \A x \in AcmeFiles : [acmeForm EXCEPT !.providers[i].ca_file = x] \in AcmeForms
    BY <1>2, <1>4, <2>0
  <2>5. QED
    BY <2>1, <2>2, <2>3, <2>4
<1>6. \A k : \A x \in InField(k) : [acmeForm EXCEPT !.providers[i].own[k] = x] \in AcmeForms
  <2> SUFFICES ASSUME NEW k, NEW x \in InField(k)
               PROVE  [acmeForm EXCEPT !.providers[i].own[k] = x] \in AcmeForms
    OBVIOUS
  <2>1. PICK e \in Providers : e = [p EXCEPT !.own[k] = x]
    BY <1>3
  <2>2. [acmeForm EXCEPT !.providers[i].own[k] = x] = [acmeForm EXCEPT !.providers[i] = e]
    BY <1>1, <2>1
  <2>3. QED
    BY <2>2, RowEdited
<1>7. CASE \E x \in EntryNames : FormEdit([acmeForm EXCEPT !.providers[i].name = x])
  BY <1>5, <1>7, EditedIsOk
<1>8. CASE \E x \in Types : FormEdit([acmeForm EXCEPT !.providers[i].type = x])
  BY <1>5, <1>8, EditedIsOk
<1>9. CASE \E x \in Plain : FormEdit([acmeForm EXCEPT !.providers[i].allowed = x])
  BY <1>5, <1>9, EditedIsOk
<1>10. CASE \E x \in AcmeFiles : FormEdit([acmeForm EXCEPT !.providers[i].ca_file = x])
  BY <1>5, <1>10, EditedIsOk
<1>11. CASE \E k \in FieldsShown(acmeForm.providers[i].type) : \E x \in InField(k) :
               FormEdit([acmeForm EXCEPT !.providers[i].own[k] = x])
  BY <1>6, <1>11, EditedIsOk
<1>12. QED
  BY <1>7, <1>8, <1>9, <1>10, <1>11 DEF EditProvider

\* Fields of a resolver are edited: another challenge takes the provider away.
LEMMA ResolverEdited ==
    ASSUME AcmeInv, NEW i \in DOMAIN acmeForm.resolvers, EditResolver(i)
    PROVE  AcmeInv'
<1>1. PICK r \in Resolvers : r = acmeForm.resolvers[i]
  BY RowEdited
<1>2. NamesIn(acmeForm.accounts) \union {""} \subseteq EntryNames
  BY RowEdited DEF NamesIn, Accounts, EntryNames
<1>3. NamesIn(acmeForm.providers) \union {""} \subseteq EntryNames
  BY RowEdited DEF NamesIn, Providers, EntryNames
<1>4. \A x \in EntryNames : [r EXCEPT !.name = x] \in Resolvers /\ [r EXCEPT !.account = x] \in Resolvers
  BY DEF Resolvers
<1>5. \A c \in {"http-01", "dns-01"} : Challenged(r, c) \in Resolvers
  BY DEF Resolvers, Challenged, EntryNames
<1>6. r.challenge = "dns-01" => \A x \in EntryNames : [r EXCEPT !.dns_provider = x] \in Resolvers
  BY DEF Resolvers
<1>7. /\ \A x : [acmeForm EXCEPT !.resolvers[i].name = x] = [acmeForm EXCEPT !.resolvers[i] = [r EXCEPT !.name = x]]
      /\ \A x : [acmeForm EXCEPT !.resolvers[i].account = x] = [acmeForm EXCEPT !.resolvers[i] = [r EXCEPT !.account = x]]
      /\ \A x : [acmeForm EXCEPT !.resolvers[i].dns_provider = x] = [acmeForm EXCEPT !.resolvers[i] = [r EXCEPT !.dns_provider = x]]
      /\ \A c : [acmeForm EXCEPT !.resolvers[i] = Challenged(@, c)] = [acmeForm EXCEPT !.resolvers[i] = Challenged(r, c)]
  BY <1>1
<1>8. QED
  BY <1>1, <1>2, <1>3, <1>4, <1>5, <1>6, <1>7, RowEdited, EditedIsOk DEF EditResolver

\* The inductive invariant, for any number of edits.
THEOREM AcmeInductive == AcmeSpec => []AcmeInv
<1>1. ASSUME AcmeInv, [AcmeNext]_acmeVars
      PROVE  AcmeInv'
  <2>1. CASE AddEntry \/ RemoveEntry
    BY <1>1, <2>1, AcmeRows
  <2>2. CASE \E i \in DOMAIN acmeForm.accounts : EditAccount(i)
    BY <1>1, <2>2, AccountEdited
  <2>3. CASE \E i \in DOMAIN acmeForm.providers : EditProvider(i)
    BY <1>1, <2>3, ProviderEdited
  <2>4. CASE \E i \in DOMAIN acmeForm.resolvers : EditResolver(i)
    BY <1>1, <2>4, ResolverEdited
  <2>5. CASE \E x \in Plain : FormEdit([acmeForm EXCEPT !.storage = x])
    BY <1>1, <2>5, RowsEdited, EditedIsOk
  <2>6. CASE UNCHANGED acmeVars
    BY <1>1, <2>6 DEF AcmeInv, acmeVars
  <2>7. QED
    BY <1>1, <2>1, <2>2, <2>3, <2>4, <2>5, <2>6 DEF AcmeNext
<1>2. QED
  BY <1>1, AcmeStart, PTL DEF AcmeSpec

\* The rows of a form, one by one.
LEMMA RowsOf ==
    ASSUME NEW f \in AcmeForms
    PROVE  /\ \A i \in DOMAIN f.accounts : f.accounts[i] \in Accounts
           /\ \A i \in DOMAIN f.providers : f.providers[i] \in Providers
           /\ \A i \in DOMAIN f.resolvers : f.resolvers[i] \in Resolvers
           /\ f.storage \in Plain
<1>1. /\ f.accounts \in Seq(Accounts) /\ f.providers \in Seq(Providers) /\ f.resolvers \in Seq(Resolvers)
      /\ f.storage \in Plain
  BY DEF AcmeForms
<1>2. QED
  BY <1>1, ElementOfSeq, LenProperties

\* What the fields of the types have to do with one another.
LEMMA FieldsOfTypes ==
    /\ \A t \in Types : /\ PROVIDER_FIELDS[t] \subseteq ProviderFields
                        /\ PROVIDER_FIELDS[t] \subseteq FieldsShown(t)
                        /\ Needed[t] \subseteq PROVIDER_FIELDS[t]
    /\ "secret_file" \in PROVIDER_FIELDS["http"] /\ "http" \in Types
    /\ {"name", "type", "allowed", "ca_file"} \intersect ProviderFields = {}
<1>1. /\ PROVIDER_FIELDS["powerdns"] = {"api_url", "server_id", "api_key_file", "zones", "ttl"}
      /\ PROVIDER_FIELDS["http"] = {"add", "remove", "secret_file", "zones"}
      /\ PROVIDER_FIELDS["rfc2136"] =
            {"server", "tsig_key_name", "tsig_algorithm", "tsig_secret_file", "zones", "ttl"}
      /\ PROVIDER_FIELDS["acme_dns"] = {"api_url", "credentials_file"}
  BY DEF PROVIDER_FIELDS
<1>2. /\ Needed["powerdns"] = {"api_url", "api_key_file"} /\ Needed["http"] = {"add", "remove"}
      /\ Needed["rfc2136"] = {"server", "tsig_key_name", "tsig_secret_file"}
      /\ Needed["acme_dns"] = {"api_url", "credentials_file"}
  BY DEF Needed
<1>3. Types = {"powerdns", "http", "rfc2136", "acme_dns"}
  BY DEF Types
<1>4. \A t \in Types : \A k : providerTakes(t, k) <=> k \in PROVIDER_FIELDS[t]
  BY DEF providerTakes
<1>5. PROVIDER_FIELDS["powerdns"] \subseteq FieldsShown("powerdns")
  BY <1>1, <1>3, <1>4 DEF FieldsShown
<1>6. PROVIDER_FIELDS["http"] \subseteq FieldsShown("http")
  BY <1>1, <1>3, <1>4 DEF FieldsShown
<1>7. PROVIDER_FIELDS["rfc2136"] \subseteq FieldsShown("rfc2136")
  BY <1>1, <1>3, <1>4 DEF FieldsShown
<1>8. PROVIDER_FIELDS["acme_dns"] \subseteq FieldsShown("acme_dns")
  BY <1>1, <1>3, <1>4 DEF FieldsShown
<1>9. \A t \in Types : PROVIDER_FIELDS[t] \subseteq ProviderFields
  BY DEF ProviderFields
<1>10. \A k \in ProviderFields : k \notin {"name", "type", "allowed", "ca_file"}
  BY <1>1, <1>3 DEF ProviderFields
<1>11. \A t \in Types : Needed[t] \subseteq PROVIDER_FIELDS[t]
  BY <1>1, <1>2, <1>3
<1>12. \A t \in Types : PROVIDER_FIELDS[t] \subseteq FieldsShown(t)
  BY <1>3, <1>5, <1>6, <1>7, <1>8
<1>13. QED
  BY <1>1, <1>3, <1>9, <1>10, <1>11, <1>12

\* Where each refusal is from.
LEMMA PartsOfRefusals ==
    ASSUME NEW f
    PROVE  /\ \A i \in DOMAIN f.accounts : \A k \in AccountRefused(f, i) : <<"accounts", i, k>> \in Refusals(f)
           /\ \A i \in DOMAIN f.providers : \A k \in ProviderRefused(f, i) : <<"providers", i, k>> \in Refusals(f)
           /\ \A x \in Refusals(f) :
                 \/ \E i \in DOMAIN f.accounts : \E k \in AccountRefused(f, i) : x = <<"accounts", i, k>>
                 \/ \E i \in DOMAIN f.providers : \E k \in ProviderRefused(f, i) : x = <<"providers", i, k>>
                 \/ \E i \in DOMAIN f.resolvers : \E k \in ResolverRefused(f, i) : x = <<"resolvers", i, k>>
                 \/ x \in Scattered(f)
                 \/ x = <<"acme", 0, "storage">> /\ Unsendable(f.storage)
                 \/ x = <<"acme", 0, "accounts">> /\ f.accounts = <<>>
<1> DEFINE A == UNION {{<<"accounts", i, k>> : k \in AccountRefused(f, i)} : i \in DOMAIN f.accounts}
<1> DEFINE P == UNION {{<<"providers", i, k>> : k \in ProviderRefused(f, i)} : i \in DOMAIN f.providers}
<1> DEFINE R == UNION {{<<"resolvers", i, k>> : k \in ResolverRefused(f, i)} : i \in DOMAIN f.resolvers}
<1>4. Refusals(f) =
        A \union P \union R \union Scattered(f)
          \union (IF Unsendable(f.storage) THEN {<<"acme", 0, "storage">>} ELSE {})
          \union (IF f.accounts = <<>> THEN {<<"acme", 0, "accounts">>} ELSE {})
  BY DEF Refusals
<1>5. \A x : x \in A <=> \E i \in DOMAIN f.accounts : \E k \in AccountRefused(f, i) : x = <<"accounts", i, k>>
  OBVIOUS
<1>6. \A x : x \in P <=> \E i \in DOMAIN f.providers : \E k \in ProviderRefused(f, i) : x = <<"providers", i, k>>
  OBVIOUS
<1>7. \A x : x \in R <=> \E i \in DOMAIN f.resolvers : \E k \in ResolverRefused(f, i) : x = <<"resolvers", i, k>>
  OBVIOUS
<1> HIDE DEF A, P, R
<1>8. QED
  BY <1>4, <1>5, <1>6, <1>7

\* What a provider is refused for, its type takes, or every provider has it.
LEMMA ProviderBlamed ==
    ASSUME NEW f \in AcmeForms, NEW i \in DOMAIN f.providers, NEW k \in ProviderRefused(f, i)
    PROVE  k \in FieldsShown(f.providers[i].type) \/ k \notin ProviderFields
<1>1. PICK p \in Providers : p = f.providers[i]
  BY RowsOf
<1>2. p.type \in Types
  BY DEF Providers
<1>3. \/ k \in ProviderFields /\ providerTakes(p.type, k)
      \/ k \in {"allowed", "ca_file"} \/ k = "name" \/ k \in Needed[p.type]
      \/ p.type = "http" /\ k = "secret_file"
  BY <1>1, <1>2 DEF ProviderRefused
<1>4. QED
  BY <1>1, <1>2, <1>3, FieldsOfTypes DEF providerTakes

\* A resolver is refused for its provider only when it has the challenge that asks for one.
LEMMA ResolverBlamed ==
    ASSUME NEW f \in AcmeForms, NEW i \in DOMAIN f.resolvers, "dns_provider" \in ResolverRefused(f, i)
    PROVE  f.resolvers[i].challenge = "dns-01"
<1>1. PICK r \in Resolvers : r = f.resolvers[i]
  BY RowsOf
<1>2. r.dns_provider # "" => r.challenge = "dns-01"
  BY DEF Resolvers
<1>3. IF r.challenge = "dns-01" THEN r.dns_provider \notin NamesIn(f.providers) ELSE r.dns_provider # ""
  BY <1>1 DEF ResolverRefused
<1>4. QED
  BY <1>1, <1>2, <1>3

\* What the form is refused for is on the screen.
LEMMA RefusalIsShown ==
    ASSUME AcmeInv, NEW x \in Refusals(acmeForm)
    PROVE  IsShown(x)
<1>1. acmeForm \in AcmeForms
  BY DEF AcmeInv
<1>2. ASSUME NEW i \in DOMAIN acmeForm.accounts, NEW k, x = <<"accounts", i, k>>
      PROVE  IsShown(x)
  BY <1>2 DEF IsShown
<1>3. ASSUME NEW i \in DOMAIN acmeForm.providers, NEW k, x = <<"providers", i, k>>,
             k \in FieldsShown(acmeForm.providers[i].type) \/ k \notin ProviderFields
      PROVE  IsShown(x)
  BY <1>3 DEF IsShown
<1>4. ASSUME NEW i \in DOMAIN acmeForm.resolvers, NEW k \in ResolverRefused(acmeForm, i), x = <<"resolvers", i, k>>
      PROVE  IsShown(x)
  BY <1>1, <1>4, ResolverBlamed DEF IsShown
<1>5. ASSUME NEW k, x = <<"acme", 0, k>>
      PROVE  IsShown(x)
  BY <1>5 DEF IsShown
<1>6. ASSUME x \in Scattered(acmeForm)
      PROVE  IsShown(x)
  <2>1. x \in FilesNamed(acmeForm)
    BY <1>6 DEF Scattered
  <2>2. \/ \E i \in DOMAIN acmeForm.accounts : \E k : x = <<"accounts", i, k>>
        \/ \E i \in DOMAIN acmeForm.providers : x = <<"providers", i, "ca_file">>
        \/ \E i \in DOMAIN acmeForm.providers : \E k :
              x = <<"providers", i, k>> /\ providerTakes(acmeForm.providers[i].type, k)
    BY <2>1 DEF FilesNamed
  <2>3. \A i \in DOMAIN acmeForm.providers : \A k :
           providerTakes(acmeForm.providers[i].type, k) => k \in FieldsShown(acmeForm.providers[i].type)
    BY FieldsOfTypes DEF providerTakes
  <2>4. "ca_file" \notin ProviderFields
    BY FieldsOfTypes
  <2>5. QED
    BY <2>2, <2>3, <2>4, <1>2, <1>3
<1>7. \/ \E i \in DOMAIN acmeForm.accounts : \E k : x = <<"accounts", i, k>>
      \/ \E i \in DOMAIN acmeForm.providers : \E k \in ProviderRefused(acmeForm, i) : x = <<"providers", i, k>>
      \/ \E i \in DOMAIN acmeForm.resolvers : \E k \in ResolverRefused(acmeForm, i) : x = <<"resolvers", i, k>>
      \/ x \in Scattered(acmeForm)
      \/ \E k : x = <<"acme", 0, k>>
  BY PartsOfRefusals
<1>8. QED
  BY <1>1, <1>2, <1>3, <1>4, <1>5, <1>6, <1>7, ProviderBlamed

\* What is sent of a form that is not refused, holds nothing masked.
LEMMA NothingMasked ==
    ASSUME NEW f \in AcmeForms, Refusals(f) = {}
    PROVE  ~MaskedIn(BuiltAcme(f))
<1>1. \A i \in DOMAIN f.accounts : AccountRefused(f, i) = {}
  BY PartsOfRefusals
<1>2. \A i \in DOMAIN f.providers : ProviderRefused(f, i) = {}
  BY PartsOfRefusals
<1>3. ASSUME NEW i \in DOMAIN f.accounts, NEW k \in DOMAIN f.accounts[i]
      PROVE  f.accounts[i][k] # "masked"
  <2>1. PICK a \in Accounts : a = f.accounts[i]
    BY RowsOf
  <2>2. DOMAIN a = {"name", "allowed", "eab_kid", "eab_hmac_key_file", "ca_file"} /\ a.name \in EntryNames
    BY DEF Accounts
  <2>3. \A l \in {"allowed", "eab_kid", "eab_hmac_key_file", "ca_file"} : ~Unsendable(a[l])
    BY <1>1, <2>1 DEF AccountRefused
  <2>4. QED
    BY <2>1, <2>2, <2>3 DEF Unsendable, EntryNames
<1>4. ASSUME NEW i \in DOMAIN f.providers
      PROVE  /\ f.providers[i].ca_file # "masked"
             /\ \A k \in ProviderFields : providerTakes(f.providers[i].type, k) => f.providers[i].own[k] # "masked"
  <2>1. /\ ~Unsendable(f.providers[i]["ca_file"])
        /\ \A k \in ProviderFields : providerTakes(f.providers[i].type, k) => ~Unsendable(f.providers[i].own[k])
    BY <1>2 DEF ProviderRefused
  <2>2. QED
    BY <2>1 DEF Unsendable
<1>5. \A a \in BuiltAcme(f).accounts : \A k \in DOMAIN a : a[k] # "masked"
  BY <1>3 DEF BuiltAcme
<1>6. ASSUME NEW q \in BuiltAcme(f).providers
      PROVE  q.ca_file # "masked" /\ \A k \in ProviderFields : q.own[k] # "masked"
  <2>1. PICK i \in DOMAIN f.providers :
           q = [f.providers[i] EXCEPT
                  !.own = [k \in ProviderFields |-> IF providerTakes(f.providers[i].type, k) THEN @[k] ELSE "none"]]
    BY <1>6 DEF BuiltAcme
  <2>2. PICK p \in Providers : p = f.providers[i]
    BY RowsOf
  <2>3. PICK sent : sent = [k \in ProviderFields |-> IF providerTakes(p.type, k) THEN p.own[k] ELSE "none"]
    OBVIOUS
  <2>4. q = [p EXCEPT !.own = sent]
    BY <2>1, <2>2, <2>3
  <2>5. q.own = sent /\ q.ca_file = p.ca_file
    BY <2>4 DEF Providers
  <2>6. QED
    BY <1>4, <2>2, <2>3, <2>5
<1>7. QED
  BY <1>5, <1>6 DEF MaskedIn

\* A provider of rproxy's, and that what it does not take is not there.
LEMMA ProviderIs ==
    ASSUME NEW type \in Types, NEW own, DOMAIN own \subseteq PROVIDER_FIELDS[type]
    PROVE  /\ Provider(type, own) =
                 [name |-> "b", type |-> type, allowed |-> "good", ca_file |-> "none",
                  own |-> [f \in ProviderFields |-> IF f \in DOMAIN own THEN own[f] ELSE "none"]]
           /\ \A f \in ProviderFields : ~providerTakes(type, f) => Provider(type, own).own[f] = "none"
<1>1. PICK fs : fs = [f \in ProviderFields |-> IF f \in DOMAIN own THEN own[f] ELSE "none"]
  OBVIOUS
<1>2. Provider(type, own) = [name |-> "b", type |-> type, allowed |-> "good", ca_file |-> "none", own |-> fs]
  <2>1. PICK none : emptyProvider = [name |-> "", type |-> "powerdns", allowed |-> "none", ca_file |-> "none", own |-> none]
    BY DEF emptyProvider
  <2>2. Provider(type, own) = [emptyProvider EXCEPT !.name = "b", !.type = type, !.allowed = "good", !.own = fs]
    BY <1>1, Zenon DEF Provider
  <2>3. QED
    BY <2>1, <2>2
<1>3. \A f \in ProviderFields : ~providerTakes(type, f) => fs[f] = "none"
  BY <1>1 DEF providerTakes
<1>4. QED
  BY <1>1, <1>2, <1>3

\* A row of providers of which only is held what the type takes.
TakesOnly(p) == \A f \in ProviderFields : ~providerTakes(p.type, f) => p.own[f] = "none"

\* What is built of such a form, is the form's.
LEMMA BuiltAsItIs ==
    ASSUME NEW f \in AcmeForms, \A i \in DOMAIN f.providers : TakesOnly(f.providers[i])
    PROVE  BuiltAcme(f) =
              [accounts |-> {f.accounts[i] : i \in DOMAIN f.accounts},
               providers |-> {f.providers[i] : i \in DOMAIN f.providers},
               resolvers |-> {f.resolvers[i] : i \in DOMAIN f.resolvers},
               storage |-> f.storage]
<1>1. ASSUME NEW i \in DOMAIN f.providers
      PROVE  [f.providers[i] EXCEPT
                !.own = [k \in ProviderFields |-> IF providerTakes(f.providers[i].type, k) THEN @[k] ELSE "none"]]
             = f.providers[i]
  <2>1. PICK p \in Providers : p = f.providers[i]
    BY RowsOf
  <2>2. [k \in ProviderFields |-> IF providerTakes(p.type, k) THEN p.own[k] ELSE "none"] = p.own
    BY <2>1 DEF TakesOnly, Providers
  <2>3. [p EXCEPT !.own = [k \in ProviderFields |-> IF providerTakes(p.type, k) THEN @[k] ELSE "none"]] = p
    BY <2>2 DEF Providers
  <2>4. QED
    BY <2>1, <2>3
<1>2. {[f.providers[i] EXCEPT
          !.own = [k \in ProviderFields |-> IF providerTakes(f.providers[i].type, k) THEN @[k] ELSE "none"]] :
          i \in DOMAIN f.providers}
      = {f.providers[i] : i \in DOMAIN f.providers}
  BY <1>1
<1>3. QED
  BY <1>2 DEF BuiltAcme

\* Nothing comes before the first row.
LEMMA NoneBefore == \A j \in 1..(1 - 1) : FALSE
OBVIOUS

\* So its name is wrong only when it has none.
LEMMA FirstIsNamed ==
    ASSUME NEW rows, rows[1].name # ""
    PROVE  ~Misnamed(rows, 1)
BY NoneBefore, Zenon DEF Misnamed

\* An account that is not refused.
GoodAccount(a) ==
    /\ a \in Accounts /\ a.name = "a" /\ a.allowed = "good" /\ a.eab_kid = "none" /\ a.eab_hmac_key_file = "none"
    /\ a.ca_file \in {"none", "here"}

\* A form with such an account has nothing to say of it.
LEMMA GoodAccountRow ==
    ASSUME NEW a, GoodAccount(a), NEW f, f.accounts = <<a>>
    PROVE  /\ \A i \in DOMAIN f.accounts : AccountRefused(f, i) = {}
           /\ NamesIn(f.accounts) = {"a"} /\ f.accounts # <<>> /\ DOMAIN f.accounts = {1} /\ f.accounts[1] = a
<1>1. DOMAIN f.accounts = {1} /\ f.accounts[1] = a /\ f.accounts # <<>>
  OBVIOUS
<1>2. ~Misnamed(f.accounts, 1)
  BY <1>1, FirstIsNamed DEF GoodAccount
<1>3. \A k \in {"allowed", "eab_kid", "eab_hmac_key_file", "ca_file"} : ~Unsendable(a[k])
  BY DEF Unsendable, GoodAccount
<1>4. AccountRefused(f, 1) = {}
  BY <1>1, <1>2, <1>3 DEF AccountRefused, GoodAccount
<1>5. NamesIn(f.accounts) = {"a"}
  BY <1>1 DEF NamesIn, GoodAccount
<1>6. QED
  BY <1>1, <1>4, <1>5

\* The value with an account and its directory of authorities is built as it is.
LEMMA AccountOnly ==
    ASSUME NEW f, NEW a, GoodAccount(a),
           f = [accounts |-> <<a>>, providers |-> <<>>, resolvers |-> <<>>, storage |-> "none"]
    PROVE  Refusals(f) = {}
<1>1. f.accounts = <<a>> /\ DOMAIN f.providers = {} /\ DOMAIN f.resolvers = {} /\ f.storage = "none"
  OBVIOUS
<1>2. /\ \A i \in DOMAIN f.accounts : AccountRefused(f, i) = {}
      /\ f.accounts # <<>> /\ DOMAIN f.accounts = {1} /\ f.accounts[1] = a
  BY <1>1, GoodAccountRow
<1>3. \A x \in FilesNamed(f) : TextOf(f, x) # "elsewhere"
  <2>1. \A x \in FilesNamed(f) : x = <<"accounts", 1, "eab_hmac_key_file">> \/ x = <<"accounts", 1, "ca_file">>
    BY <1>1, <1>2 DEF FilesNamed
  <2>2. TextOf(f, <<"accounts", 1, "eab_hmac_key_file">>) = a.eab_hmac_key_file
    BY <1>2 DEF TextOf
  <2>3. TextOf(f, <<"accounts", 1, "ca_file">>) = a.ca_file
    BY <1>2 DEF TextOf
  <2>4. QED
    BY <2>1, <2>2, <2>3 DEF GoodAccount
<1>4. Scattered(f) = {}
  BY <1>3 DEF Scattered
<1>5. ~Unsendable(f.storage)
  BY <1>1 DEF Unsendable
<1>6. QED
  BY <1>1, <1>2, <1>4, <1>5, PartsOfRefusals

\* The value with a provider of calls that carry no secret is built as it is.
LEMMA CallsOnly ==
    ASSUME NEW f, NEW a, GoodAccount(a), a.ca_file = "none", NEW p,
           p = Provider("http", [add |-> "good", remove |-> "good", zones |-> "good"]),
           f = [accounts |-> <<a>>, providers |-> <<p>>,
                resolvers |-> <<[name |-> "a", account |-> "a", challenge |-> "dns-01", dns_provider |-> "b"]>>,
                storage |-> "good"]
    PROVE  Refusals(f) = {}
<1>1. /\ f.accounts = <<a>> /\ DOMAIN f.providers = {1} /\ f.providers[1] = p /\ DOMAIN f.resolvers = {1}
      /\ f.resolvers[1] = [name |-> "a", account |-> "a", challenge |-> "dns-01", dns_provider |-> "b"]
      /\ f.storage = "good"
  OBVIOUS
<1>2. /\ \A i \in DOMAIN f.accounts : AccountRefused(f, i) = {}
      /\ NamesIn(f.accounts) = {"a"} /\ f.accounts # <<>> /\ DOMAIN f.accounts = {1} /\ f.accounts[1] = a
  BY <1>1, GoodAccountRow
<1>3. PICK own : own = [add |-> "good", remove |-> "good", zones |-> "good"]
  OBVIOUS
<1>4. DOMAIN own = {"add", "remove", "zones"} /\ own["add"] = "good" /\ own["remove"] = "good" /\ own["zones"] = "good"
  BY <1>3
<1>5. PROVIDER_FIELDS["http"] = {"add", "remove", "secret_file", "zones"} /\ Needed["http"] = {"add", "remove"}
  BY DEF PROVIDER_FIELDS, Needed
<1>6. /\ p.name = "b" /\ p.type = "http" /\ p.allowed = "good" /\ p.ca_file = "none"
      /\ p.own = [k \in ProviderFields |-> IF k \in DOMAIN own THEN own[k] ELSE "none"]
  BY <1>3, <1>4, <1>5, ProviderIs, FieldsOfTypes
<1>7. /\ \A k \in ProviderFields : p.own[k] \in {"good", "none"}
      /\ p.own["add"] = "good" /\ p.own["remove"] = "good"
  BY <1>4, <1>5, <1>6, FieldsOfTypes
<1>8. ProviderRefused(f, 1) = {}
  <2>1. ~Misnamed(f.providers, 1)
    BY <1>1, <1>6, FirstIsNamed
  <2>2. \A k \in ProviderFields : ~Unsendable(p.own[k])
    BY <1>7 DEF Unsendable
  <2>3. ~Unsendable(p["allowed"]) /\ ~Unsendable(p["ca_file"])
    BY <1>6 DEF Unsendable
  <2>4. QED
    BY <1>1, <1>5, <1>6, <1>7, <2>1, <2>2, <2>3, FieldsOfTypes DEF ProviderRefused
<1>9. NamesIn(f.providers) = {"b"}
  <2>1. {f.providers[i].name : i \in DOMAIN f.providers} = {"b"}
    BY <1>1, <1>6
  <2>2. QED
    BY <2>1 DEF NamesIn
<1>10. ResolverRefused(f, 1) = {}
  <2>1. ~Misnamed(f.resolvers, 1)
    BY <1>1, FirstIsNamed
  <2>2. QED
    BY <1>1, <1>2, <1>9, <2>1 DEF ResolverRefused
<1>11. \A x \in FilesNamed(f) : TextOf(f, x) # "here"
  <2>1. \A x \in FilesNamed(f) : \/ x = <<"accounts", 1, "eab_hmac_key_file">> \/ x = <<"accounts", 1, "ca_file">>
                               \/ x = <<"providers", 1, "ca_file">>
                               \/ \E k \in FileFields : x = <<"providers", 1, k>>
    BY <1>1, <1>2 DEF FilesNamed
  <2>2. /\ TextOf(f, <<"accounts", 1, "eab_hmac_key_file">>) = a.eab_hmac_key_file
        /\ TextOf(f, <<"accounts", 1, "ca_file">>) = a.ca_file
    BY <1>2 DEF TextOf
  <2>3. TextOf(f, <<"providers", 1, "ca_file">>) = p.ca_file
    BY <1>1 DEF TextOf
  <2>4. \A k \in FileFields : TextOf(f, <<"providers", 1, k>>) = p.own[k]
    BY <1>1 DEF TextOf, FileFields
  <2>5. FileFields \subseteq ProviderFields
    <3>1. /\ "api_key_file" \in PROVIDER_FIELDS["powerdns"] /\ "secret_file" \in PROVIDER_FIELDS["http"]
          /\ "tsig_secret_file" \in PROVIDER_FIELDS["rfc2136"] /\ "credentials_file" \in PROVIDER_FIELDS["acme_dns"]
      BY DEF PROVIDER_FIELDS
    <3>2. QED
      BY <3>1 DEF FileFields, ProviderFields, Types
  <2>6. QED
    BY <2>1, <2>2, <2>3, <2>4, <2>5, <1>6, <1>7 DEF GoodAccount
<1>12. Scattered(f) = {}
  BY <1>11 DEF Scattered
<1>13. ~Unsendable(f.storage)
  BY <1>1 DEF Unsendable
<1>14. QED
  BY <1>1, <1>2, <1>8, <1>10, <1>12, <1>13, PartsOfRefusals

\* What rproxy stores is built as it is; and it is not refused unless something of it is masked.
LEMMA StoredIsKept ==
    ASSUME NEW v \in Stored
    PROVE  /\ toAcmeForm(v) \in AcmeForms /\ BuiltAcme(toAcmeForm(v)) = v
           /\ ~MaskedIn(v) => Refusals(toAcmeForm(v)) = {}
<1>1. PICK as \in Seq(Accounts), ps \in Seq(Providers), rs \in Seq(Resolvers), storage \in Plain :
         FormOf(v, as, ps, rs, storage)
  BY ValueShape
<1>2. PICK f : f = toAcmeForm(v)
  OBVIOUS
<1>21. /\ f = [accounts |-> as, providers |-> ps, resolvers |-> rs, storage |-> storage]
       /\ v = [accounts |-> {as[i] : i \in DOMAIN as}, providers |-> {ps[i] : i \in DOMAIN ps},
               resolvers |-> {rs[i] : i \in DOMAIN rs}, storage |-> storage]
  BY <1>1, <1>2, Zenon DEF FormOf
<1>22. f \in AcmeForms
  BY <1>21 DEF AcmeForms
<1>3. \A p \in v.providers : TakesOnly(p)
  <2>1. \A p : p = Provider("http", [add |-> "good", remove |-> "good", zones |-> "good"]) => TakesOnly(p)
    <3>1. DOMAIN [add |-> "good", remove |-> "good", zones |-> "good"] \subseteq PROVIDER_FIELDS["http"]
      BY DEF PROVIDER_FIELDS
    <3>2. QED
      BY <3>1, ProviderIs, FieldsOfTypes DEF TakesOnly
  <2>2. \A p : p = Provider("http", [add |-> "masked", remove |-> "good", secret_file |-> "masked"]) => TakesOnly(p)
    <3>1. DOMAIN [add |-> "masked", remove |-> "good", secret_file |-> "masked"] \subseteq PROVIDER_FIELDS["http"]
      BY DEF PROVIDER_FIELDS
    <3>2. QED
      BY <3>1, ProviderIs, FieldsOfTypes DEF TakesOnly
  <2>3. \A p : p = Provider("powerdns", [api_url |-> "good", api_key_file |-> "masked", ttl |-> "good"]) => TakesOnly(p)
    <3>1. DOMAIN [api_url |-> "good", api_key_file |-> "masked", ttl |-> "good"] \subseteq PROVIDER_FIELDS["powerdns"]
      BY DEF PROVIDER_FIELDS
    <3>2. "powerdns" \in Types
      BY DEF Types
    <3>3. QED
      BY <3>1, <3>2, ProviderIs DEF TakesOnly
  <2>4. v.providers = {} \/ \E p : TakesOnly(p) /\ v.providers = {p}
    <3>2. \/ v.providers = {}
          \/ \E p \in Providers : /\ v.providers = {p}
                                 /\ \/ p = Provider("http", [add |-> "good", remove |-> "good", zones |-> "good"])
                                    \/ p = Provider("http", [add |-> "masked", remove |-> "good", secret_file |-> "masked"])
                                    \/ p = Provider("powerdns", [api_url |-> "good", api_key_file |-> "masked", ttl |-> "good"])
      BY StoredFacts
    <3>3. QED
      BY <2>1, <2>2, <2>3, <3>2
  <2>5. QED
    BY <2>4
<1>4. BuiltAcme(toAcmeForm(v)) = v
  <2>1. /\ f.accounts = as /\ f.providers = ps /\ f.resolvers = rs /\ f.storage = storage
        /\ v = [accounts |-> {as[i] : i \in DOMAIN as}, providers |-> {ps[i] : i \in DOMAIN ps},
                resolvers |-> {rs[i] : i \in DOMAIN rs}, storage |-> storage]
    BY <1>21
  <2>2. \A i \in DOMAIN f.providers : TakesOnly(f.providers[i])
    BY <1>3, <2>1
  <2>3. /\ {f.accounts[i] : i \in DOMAIN f.accounts} = v.accounts
        /\ {f.providers[i] : i \in DOMAIN f.providers} = v.providers
        /\ {f.resolvers[i] : i \in DOMAIN f.resolvers} = v.resolvers
        /\ f.storage = v.storage
    BY <2>1
  <2>4. v = [accounts |-> v.accounts, providers |-> v.providers, resolvers |-> v.resolvers, storage |-> v.storage]
    BY <2>1
  <2>5. BuiltAcme(f) = [accounts |-> v.accounts, providers |-> v.providers, resolvers |-> v.resolvers, storage |-> v.storage]
    <3>1. BuiltAcme(f) =
            [accounts |-> {f.accounts[i] : i \in DOMAIN f.accounts},
             providers |-> {f.providers[i] : i \in DOMAIN f.providers},
             resolvers |-> {f.resolvers[i] : i \in DOMAIN f.resolvers},
             storage |-> f.storage]
      BY <1>22, <2>2, BuiltAsItIs
    <3>2. QED
      BY <2>3, <3>1
  <2>6. QED
    BY <1>2, <2>4, <2>5
<1>5. ASSUME ~MaskedIn(v)
      PROVE  Refusals(toAcmeForm(v)) = {}
  <2>1. CASE v = [accounts |-> {[Anyone EXCEPT !.ca_file = "here"]}, providers |-> {}, resolvers |-> {}, storage |-> "none"]
    <3>1. PICK a : a = [Anyone EXCEPT !.ca_file = "here"]
      OBVIOUS
    <3>2. GoodAccount(a)
      BY <3>1, AnyoneTyped DEF GoodAccount, Accounts
    <3>3. toAcmeForm(v) = [accounts |-> <<a>>, providers |-> <<>>, resolvers |-> <<>>, storage |-> "none"]
      BY <2>1, <3>1, OneInTurn DEF toAcmeForm
    <3>4. QED
      BY <3>2, <3>3, AccountOnly
  <2>2. CASE v = [accounts |-> {[Anyone EXCEPT !.eab_kid = "good", !.eab_hmac_key_file = "masked"]},
                  providers |-> {}, resolvers |-> {}, storage |-> "none"]
    <3>1. PICK a \in Accounts : a = [Anyone EXCEPT !.eab_kid = "good", !.eab_hmac_key_file = "masked"]
      BY AnyoneTyped
    <3>2. a["eab_hmac_key_file"] = "masked" /\ "eab_hmac_key_file" \in DOMAIN a
      BY <3>1, AnyoneTyped DEF Accounts
    <3>3. a \in v.accounts
      BY <2>2, <3>1
    <3>4. QED
      BY <1>5, <3>2, <3>3 DEF MaskedIn
  <2>3. ASSUME NEW p \in Providers,
               v = [accounts |-> {Anyone}, providers |-> {p},
                    resolvers |-> {[name |-> "a", account |-> "a", challenge |-> "dns-01", dns_provider |-> "b"]},
                    storage |-> "good"],
               p = Provider("http", [add |-> "good", remove |-> "good", zones |-> "good"])
        PROVE  Refusals(toAcmeForm(v)) = {}
    <3>1. GoodAccount(Anyone) /\ Anyone.ca_file = "none"
      BY AnyoneTyped DEF GoodAccount
    <3>2. toAcmeForm(v) =
            [accounts |-> <<Anyone>>, providers |-> <<p>>,
             resolvers |-> <<[name |-> "a", account |-> "a", challenge |-> "dns-01", dns_provider |-> "b"]>>,
             storage |-> "good"]
      BY <2>3, OneInTurn DEF toAcmeForm
    <3>3. QED
      BY <2>3, <3>1, <3>2, CallsOnly
  <2>4. ASSUME NEW p, NEW k \in ProviderFields, p.own[k] = "masked", p \in v.providers
        PROVE  FALSE
    BY <1>5, <2>4 DEF MaskedIn
  <2>5. \A p : p = Provider("http", [add |-> "masked", remove |-> "good", secret_file |-> "masked"]) =>
               "add" \in ProviderFields /\ p.own["add"] = "masked"
    <3>1. PICK own : own = [add |-> "masked", remove |-> "good", secret_file |-> "masked"]
      OBVIOUS
    <3>2. DOMAIN own \subseteq PROVIDER_FIELDS["http"] /\ "add" \in DOMAIN own /\ own["add"] = "masked"
      BY <3>1 DEF PROVIDER_FIELDS
    <3>3. QED
      BY <3>1, <3>2, ProviderIs, FieldsOfTypes
  <2>6. \A p : p = Provider("powerdns", [api_url |-> "good", api_key_file |-> "masked", ttl |-> "good"]) =>
               "api_key_file" \in ProviderFields /\ p.own["api_key_file"] = "masked"
    <3>1. PICK own : own = [api_url |-> "good", api_key_file |-> "masked", ttl |-> "good"]
      OBVIOUS
    <3>2. /\ DOMAIN own \subseteq PROVIDER_FIELDS["powerdns"] /\ "api_key_file" \in DOMAIN own
          /\ own["api_key_file"] = "masked"
      BY <3>1 DEF PROVIDER_FIELDS
    <3>3. "powerdns" \in Types
      BY DEF Types
    <3>4. QED
      BY <3>1, <3>2, <3>3, ProviderIs, FieldsOfTypes
  <2>7. QED
    BY <2>1, <2>2, <2>3, <2>4, <2>5, <2>6, StoredFacts
<1>6. QED
  BY <1>2, <1>22, <1>4, <1>5

\* Whatever the form is refused for is a field that is shown; nothing masked is sent; and a form nobody
\* touched is refused only for what is masked (buildAcme of globalacme.ts, GlobalAcmeEditor.tsx).
THEOREM AcmeBlameIsShown == AcmeSpec => []BlameIsShown
<1>1. ASSUME AcmeInv
      PROVE  BlameIsShown
  <2>1. \A x \in Refusals(acmeForm) : IsShown(x)
    BY <1>1, RefusalIsShown
  <2>2. Refusals(acmeForm) = {} => ~MaskedIn(BuiltAcme(acmeForm))
    BY <1>1, NothingMasked DEF AcmeInv
  <2>3. ASSUME formEdits = 0, acmeValue # EmptyValue
        PROVE  IF MaskedIn(acmeValue) THEN Refusals(acmeForm) # {}
               ELSE Refusals(acmeForm) = {} /\ BuiltAcme(acmeForm) = acmeValue
    <3>1. acmeForm = toAcmeForm(acmeValue) /\ acmeValue \in Stored
      BY <1>1, <2>3 DEF AcmeInv
    <3>2. BuiltAcme(acmeForm) = acmeValue /\ (~MaskedIn(acmeValue) => Refusals(acmeForm) = {})
      BY <3>1, StoredIsKept
    <3>3. MaskedIn(acmeValue) => Refusals(acmeForm) # {}
      BY <2>2, <3>2
    <3>4. QED
      BY <3>2, <3>3
  <2>4. QED
    BY <2>1, <2>2, <2>3, Zenon DEF BlameIsShown
<1>2. QED
  BY <1>1, AcmeInductive, PTL
=============================================================================

----------------------------- MODULE FormsProofs -----------------------------
(***************************************************************************)
(* Proofs about the forms, the pages and the list of Kubernetes nodes they *)
(* are sent to.                                                            *)
(*                                                                         *)
(* Discovery: a pod refuses a token because it is not the one of now, and  *)
(* each pod and token costs one request; a list kept under the time of the *)
(* Secret is the Secret's.                                                 *)
(*                                                                         *)
(* RuleEdit: fields that nobody typed into are those of the row that was   *)
(* loaded, and what rproxy runs is what is stored, since a PATCH made of   *)
(* two rules leads from the one to the other.                              *)
(*                                                                         *)
(* GlobalPage: a form keeps what it was filled with until it is typed      *)
(* into, and a plan, or one on its way, is for the nodes that are picked   *)
(* or known to be late.                                                    *)
(*                                                                         *)
(* Screen: at most one load is under way, and what it has read is no older *)
(* than what is shown, because a rule that is gone does not come back.     *)
(*                                                                         *)
(* Dashboard: what is said of a rule is what the nodes answer, one by one; *)
(* the worst state and ACME status are those of a node, and of nodes that  *)
(* are equally badly off the first one's stand for all.                    *)
(*                                                                         *)
(* HttpDraft: the names a draft uses are names of what there is; what is   *)
(* sent was checked and does what the draft does; a renaming changes       *)
(* nothing of what the rule does.                                          *)
(***************************************************************************)
EXTENDS Discovery, RuleEdit, GlobalPage, Screen, Dashboard, HttpDraft,
        FiniteSetTheorems, SequenceTheorems, WellFoundedInduction, TLAPS

(***************************************************************************)
(* Discovery.                                                              *)
(***************************************************************************)

PodRequests == [pod : Pods \union {NoPod}, token : PodTokens \union {NoToken}, asked : BOOLEAN]

DiscoveryTypeOK ==
    /\ secret \in [there : BOOLEAN, mtime : Nat \ {0}, good : BOOLEAN, list : Lists]
    /\ secret.list.token # NoToken
    /\ cache \in [mtime : Nat, list : Lists]
    /\ reading \in [pc : {"rest", "list", "token", "use"}, at : Nat, pods : SUBSET Pods]
    /\ stale \subseteq Pods
    /\ sent \in [Requests -> PodRequests]
    /\ unauth \in [Pods -> Nat]

\* The requests to a pod that go on.
AskedOf(p) == {r \in Requests : sent[r].asked /\ sent[r].pod = p}

\* A pod that has answered 401 is known, and no more requests to it begin.
LockOutInv ==
    /\ \A r \in Requests : sent[r] # NotSent => sent[r].pod \in Pods
    /\ \A p \in Pods : /\ p \notin stale => unauth[p] = 0
                       /\ unauth[p] + Cardinality(AskedOf(p)) <= Cardinality(Requests)

\* The list that is kept is the one of the Secret, if their times agree, and what
\* is being read is part of it as long as they do.
CurrentInv ==
    /\ cache.mtime <= secret.mtime /\ reading.at <= secret.mtime
    /\ cache.mtime = 0 => cache.list = Empty
    /\ cache.mtime = secret.mtime => cache.list = Usable(secret)
    /\ reading.at = secret.mtime => secret.there
    /\ reading.pc \in {"list", "token", "use"} => Usable(secret) \in offered
    /\ reading.pc = "list" /\ reading.at = 0 => Empty \in offered
    /\ reading.pc = "token" => /\ reading.at # 0
                               /\ \E o \in offered : reading.pods = o.pods
                               /\ reading.at = secret.mtime => reading.pods = secret.list.pods /\ Usable(secret) # Empty

DInv == DiscoveryTypeOK /\ LockOutInv /\ CurrentInv /\ ListedIsCurrent

\* Some requests, of those there can be.
LEMMA SomeRequests ==
    ASSUME NEW A \in SUBSET Requests
    PROVE  /\ IsFiniteSet(A) /\ Cardinality(A) \in Nat
           /\ Cardinality(A) <= Cardinality(Requests) /\ Cardinality(Requests) \in Nat
BY DiscoveryAssumption, FS_Subset, FS_CardinalityType

\* What can be used of the Secret.
LEMMA UsableFacts ==
    ASSUME DiscoveryTypeOK
    PROVE  /\ Usable(secret) \in Lists /\ Empty \in Lists /\ Empty.pods = {}
           /\ Usable(secret) # Empty => secret.there /\ Usable(secret) = secret.list
           /\ ~secret.there => Usable(secret) = Empty
           /\ mtimeOf(secret) = IF secret.there THEN secret.mtime ELSE 0
BY DEF DiscoveryTypeOK, Usable, Empty, Lists, mtimeOf

\* What keeps the count of one pod: its requests that go on stay or become fewer.
LEMMA FewerAsked ==
    ASSUME NEW p \in Pods, DInv, NEW A \in SUBSET AskedOf(p)
    PROVE  unauth[p] + Cardinality(A) <= Cardinality(Requests)
<1>1. AskedOf(p) \in SUBSET Requests /\ A \in SUBSET Requests
  BY DEF AskedOf
<1>2. Cardinality(A) <= Cardinality(AskedOf(p))
  BY <1>1, SomeRequests, FS_Subset
<1>3. QED
  BY <1>1, <1>2, SomeRequests DEF DInv, LockOutInv, DiscoveryTypeOK

\* A reading of the Secret begins.
LEMMA CallInv == DInv /\ Call => DInv'
<1> SUFFICES ASSUME DInv, Call PROVE DInv'
  OBVIOUS
<1>1. PICK c \in {"use", "list"} :
        /\ reading' = [reading EXCEPT !.at = mtimeOf(secret), !.pc = c]
        /\ c = "use" => mtimeOf(secret) = cache.mtime
        /\ offered' = {Usable(secret)}
        /\ UNCHANGED <<secret, cache, stale, sent, unauth>>
  BY DEF Call
<1>2. DiscoveryTypeOK /\ CurrentInv
  BY DEF DInv
<1>3. mtimeOf(secret) \in Nat /\ mtimeOf(secret) <= secret.mtime /\ (mtimeOf(secret) = secret.mtime => secret.there)
  BY <1>2, UsableFacts DEF DiscoveryTypeOK
<1>4. reading'.at = mtimeOf(secret) /\ reading'.pc = c
  BY <1>1, <1>2 DEF DiscoveryTypeOK
<1>5. DiscoveryTypeOK'
  BY <1>1, <1>2, <1>3 DEF DiscoveryTypeOK
<1>6. LockOutInv'
  BY <1>1 DEF DInv, LockOutInv, AskedOf
<1>7. CurrentInv'
  <2>1. mtimeOf(secret) = 0 => Usable(secret) = Empty
    BY <1>2, UsableFacts DEF DiscoveryTypeOK
  <2>2. Usable(secret)' = Usable(secret)
    BY <1>1 DEF Usable
  <2>3. QED
    BY <1>1, <1>2, <1>3, <1>4, <2>1, <2>2 DEF CurrentInv
<1>8. c = "use" => cache.list = Usable(secret)
  BY <1>1, <1>2, UsableFacts DEF CurrentInv
<1>9. ListedIsCurrent'
  BY <1>1, <1>4, <1>8 DEF ListedIsCurrent
<1>10. QED
  BY <1>5, <1>6, <1>7, <1>9 DEF DInv

\* What was read is kept, with the time the reading began.
LEMMA ReloadedInv ==
    ASSUME DInv, NEW list \in Lists, Reloaded(list), reading.pc \in {"list", "token"},
           UNCHANGED <<secret, accepts, sent, rewrites, offered>>,
           reading.at = 0 => list = Empty,
           reading.at = secret.mtime => list = Usable(secret),
           \E o \in offered : list.pods = o.pods,
           list.pods # {} => \E o \in offered : list.token = o.token
    PROVE  DInv'
<1>1. /\ cache' = [mtime |-> reading.at, list |-> list] /\ reading' = [reading EXCEPT !.pc = "use"]
      /\ stale' = {} /\ unauth' = [p \in Pods |-> 0]
      /\ DiscoveryTypeOK /\ CurrentInv
  BY DEF Reloaded, DInv
<1>2. reading'.pc = "use" /\ reading'.at = reading.at /\ reading.at \in Nat
  BY <1>1 DEF DiscoveryTypeOK
<1>3. DiscoveryTypeOK'
  BY <1>1 DEF DiscoveryTypeOK
<1>4. LockOutInv'
  <2>1. \A p \in Pods : AskedOf(p)' = AskedOf(p)
    BY DEF AskedOf
  <2>2. \A p \in Pods : unauth'[p] = 0
    BY <1>1
  <2>3. QED
    BY <2>1, <2>2, SomeRequests DEF DInv, LockOutInv, AskedOf
<1>5. CurrentInv'
  BY <1>1, <1>2 DEF CurrentInv, Usable
<1>6. ListedIsCurrent'
  BY <1>1, <1>2 DEF ListedIsCurrent
<1>7. QED
  BY <1>3, <1>4, <1>5, <1>6 DEF DInv

\* The list is read.
LEMMA ReadListInv == DInv /\ ReadList => DInv'
<1> SUFFICES ASSUME DInv, ReadList PROVE DInv'
  OBVIOUS
<1>1. /\ reading.pc = "list" /\ UNCHANGED <<secret, accepts, sent, rewrites, offered>>
      /\ DiscoveryTypeOK /\ CurrentInv /\ Usable(secret) \in offered
  BY DEF ReadList, DInv, CurrentInv
<1>2. CASE reading.at = 0 \/ Usable(secret) = Empty
  <2>1. Reloaded(Empty)
    BY <1>2 DEF ReadList
  <2>2. reading.at = secret.mtime => Empty = Usable(secret)
    BY <1>1, <1>2 DEF DiscoveryTypeOK
  <2>3. \E o \in offered : Empty.pods = o.pods
    BY <1>1, <1>2 DEF CurrentInv
  <2>4. QED
    BY <1>1, <2>1, <2>2, <2>3, UsableFacts, ReloadedInv
<1>3. CASE reading.at # 0 /\ Usable(secret) # Empty
  <2>1. /\ reading' = [reading EXCEPT !.pc = "token", !.pods = secret.list.pods]
        /\ UNCHANGED <<cache, stale, unauth, secret, sent, offered>>
    BY <1>3 DEF ReadList
  <2>2. Usable(secret) = secret.list /\ secret.list.pods \subseteq Pods
    BY <1>1, <1>3, UsableFacts DEF Lists
  <2>3. reading'.pc = "token" /\ reading'.at = reading.at /\ reading'.pods = secret.list.pods
    BY <1>1, <2>1 DEF DiscoveryTypeOK
  <2>4. DiscoveryTypeOK'
    BY <1>1, <2>1, <2>2 DEF DiscoveryTypeOK
  <2>5. LockOutInv'
    BY <2>1 DEF DInv, LockOutInv, AskedOf
  <2>6. CurrentInv'
    BY <1>1, <1>3, <2>1, <2>2, <2>3 DEF CurrentInv, Usable
  <2>7. ListedIsCurrent'
    BY <2>3 DEF ListedIsCurrent
  <2>8. QED
    BY <2>4, <2>5, <2>6, <2>7 DEF DInv
<1>4. QED
  BY <1>2, <1>3

\* Its token is read, which may be that of a later list.
LEMMA ReadTokenInv == DInv /\ ReadToken => DInv'
<1> SUFFICES ASSUME DInv, ReadToken PROVE DInv'
  OBVIOUS
<1>1. /\ reading.pc = "token" /\ UNCHANGED <<secret, accepts, sent, rewrites, offered>>
      /\ DiscoveryTypeOK /\ CurrentInv /\ Usable(secret) \in offered
  BY DEF ReadToken, DInv, CurrentInv
<1>2. PICK list : list = IF Usable(secret) = Empty THEN Empty
                         ELSE [pods |-> reading.pods, token |-> secret.list.token]
  OBVIOUS
<1>3. Reloaded(list)
  BY <1>2 DEF ReadToken
<1>4. CASE Usable(secret) = Empty
  <2>1. /\ list = Empty /\ list \in Lists /\ list.pods = {}
        /\ reading.at = secret.mtime => list = Usable(secret)
        /\ \E o \in offered : list.pods = o.pods
    BY <1>1, <1>2, <1>4, UsableFacts
  <2>2. QED
    BY <1>1, <1>3, <2>1, ReloadedInv
<1>5. CASE Usable(secret) # Empty
  <2>1. /\ list = [pods |-> reading.pods, token |-> secret.list.token] /\ Usable(secret) = secret.list
        /\ reading.at # 0 /\ \E o \in offered : reading.pods = o.pods
        /\ reading.at = secret.mtime => reading.pods = secret.list.pods
    <3>1. list = [pods |-> reading.pods, token |-> secret.list.token]
      BY <1>2, <1>5
    <3>2. Usable(secret) = secret.list
      BY <1>1, <1>5, UsableFacts
    <3>3. /\ reading.at # 0 /\ \E o \in offered : reading.pods = o.pods
          /\ reading.at = secret.mtime => reading.pods = secret.list.pods
      BY <1>1 DEF CurrentInv
    <3>4. QED
      BY <3>1, <3>2, <3>3
  <2>2. list \in Lists /\ list.pods = reading.pods /\ list.token = secret.list.token
    BY <1>1, <2>1 DEF Lists, DiscoveryTypeOK
  <2>3. reading.at = secret.mtime => list = Usable(secret)
    BY <1>1, <2>1 DEF Lists, DiscoveryTypeOK
  <2>4. \E o \in offered : list.token = o.token
    BY <1>1, <2>1, <2>2
  <2>5. QED
    BY <1>1, <1>3, <2>1, <2>2, <2>3, <2>4, ReloadedInv
<1>6. QED
  BY <1>4, <1>5

\* A pod is taken from the list, or none.
LEMMA TakeInv ==
    ASSUME DInv, NEW CONSTANT r \in Requests, NEW CONSTANT p \in Pods, Take(r, p)
    PROVE  DInv'
<1>1. /\ reading.pc = "use" /\ reading' = [reading EXCEPT !.pc = "rest"] /\ p \in cache.list.pods
      /\ sent' = [sent EXCEPT ![r] = [pod |-> p, token |-> cache.list.token, asked |-> FALSE]]
      /\ UNCHANGED <<secret, cache, stale, offered, unauth>>
      /\ DiscoveryTypeOK /\ CurrentInv /\ LockOutInv
  BY DEF Take, DInv
<1>2. reading'.pc = "rest" /\ reading'.at = reading.at
  BY <1>1 DEF DiscoveryTypeOK
<1>3. DiscoveryTypeOK'
  BY <1>1 DEF DiscoveryTypeOK, PodRequests, Lists
<1>4. \A q \in Requests : sent'[q].asked => sent[q].asked /\ sent'[q].pod = sent[q].pod
  BY <1>1 DEF DiscoveryTypeOK
<1>5. LockOutInv'
  <2>1. ASSUME NEW CONSTANT x \in Pods
        PROVE  unauth[x] + Cardinality(AskedOf(x)') <= Cardinality(Requests)
    <3>1. AskedOf(x)' \in SUBSET AskedOf(x)
      BY <1>4 DEF AskedOf
    <3>2. QED
      BY <3>1, FewerAsked
  <2>2. \A q \in Requests : sent'[q] # NotSent => sent'[q].pod \in Pods
    BY <1>1 DEF LockOutInv, DiscoveryTypeOK, PodRequests
  <2>3. QED
    BY <1>1, <2>1, <2>2 DEF LockOutInv
<1>6. CurrentInv' /\ ListedIsCurrent'
  BY <1>1, <1>2 DEF CurrentInv, ListedIsCurrent, Usable
<1>7. QED
  BY <1>3, <1>5, <1>6 DEF DInv

\* A reading that only lists the nodes sends nothing.
LEMMA NotAskedInv == DInv /\ NotAsked => DInv'
<1> SUFFICES ASSUME DInv, NotAsked PROVE DInv'
  OBVIOUS
<1>1. /\ reading.pc = "use" /\ reading' = [reading EXCEPT !.pc = "rest"]
      /\ UNCHANGED <<secret, cache, stale, sent, offered, unauth>>
      /\ DiscoveryTypeOK /\ CurrentInv /\ LockOutInv
  BY DEF NotAsked, DInv
<1>2. reading'.pc = "rest" /\ reading'.at = reading.at
  BY <1>1 DEF DiscoveryTypeOK
<1>3. DiscoveryTypeOK' /\ LockOutInv'
  BY <1>1 DEF DiscoveryTypeOK, LockOutInv, AskedOf
<1>4. CurrentInv' /\ ListedIsCurrent'
  BY <1>1, <1>2 DEF CurrentInv, ListedIsCurrent, Usable
<1>5. QED
  BY <1>3, <1>4 DEF DInv

\* A pod that was refused is not asked.
LEMMA SendInv ==
    ASSUME DInv, NEW CONSTANT r \in Requests, Send(r)
    PROVE  DInv'
<1>1. /\ sent[r] # NotSent /\ ~sent[r].asked
      /\ sent' = [sent EXCEPT ![r] = IF sent[r].pod \in stale THEN NotSent ELSE [sent[r] EXCEPT !.asked = TRUE]]
      /\ UNCHANGED <<secret, cache, reading, stale, offered, unauth>>
      /\ DiscoveryTypeOK /\ CurrentInv /\ LockOutInv /\ ListedIsCurrent
  BY DEF Send, DInv
<1>2. DiscoveryTypeOK'
  <2>1. sent \in [Requests -> PodRequests] /\ sent[r] \in PodRequests
    BY <1>1 DEF DiscoveryTypeOK
  <2>2. NotSent \in PodRequests /\ [sent[r] EXCEPT !.asked = TRUE] \in PodRequests
    BY <2>1 DEF NotSent, PodRequests
  <2>3. sent' \in [Requests -> PodRequests]
    BY <1>1, <2>1, <2>2
  <2>4. QED
    BY <1>1, <2>3 DEF DiscoveryTypeOK
<1>3. \A q \in Requests : sent'[q] # NotSent => sent'[q].pod \in Pods
  BY <1>1 DEF LockOutInv, DiscoveryTypeOK, PodRequests
<1>4. ASSUME NEW CONSTANT x \in Pods
      PROVE  unauth[x] + Cardinality(AskedOf(x)') <= Cardinality(Requests)
  <2>1. CASE x \in stale
    <3>1. AskedOf(x)' \in SUBSET AskedOf(x)
      BY <1>1, <2>1 DEF AskedOf, DiscoveryTypeOK, PodRequests, NotSent
    <3>2. QED
      BY <3>1, FewerAsked
  <2>2. CASE x \notin stale
    <3>1. AskedOf(x)' \in SUBSET Requests /\ unauth[x] = 0
      BY <1>1, <2>2 DEF AskedOf, LockOutInv
    <3>2. QED
      BY <3>1, SomeRequests
  <2>3. QED
    BY <2>1, <2>2
<1>5. LockOutInv'
  BY <1>1, <1>3, <1>4 DEF LockOutInv
<1>6. CurrentInv' /\ ListedIsCurrent'
  BY <1>1 DEF CurrentInv, ListedIsCurrent, Usable
<1>7. QED
  BY <1>2, <1>5, <1>6 DEF DInv

\* An answer: one request less, and one refusal more at the most.
LEMMA AnswerInv ==
    ASSUME DInv, NEW CONSTANT r \in Requests, Answer(r)
    PROVE  DInv'
<1>1. PICK p : p = sent[r].pod
  OBVIOUS
<1>2. /\ sent[r].asked /\ sent' = [sent EXCEPT ![r] = NotSent]
      /\ \/ UNCHANGED <<stale, unauth>>
         \/ stale' = stale \union {p} /\ unauth' = [unauth EXCEPT ![p] = unauth[p] + 1]
      /\ UNCHANGED <<secret, cache, reading, offered>>
      /\ DiscoveryTypeOK /\ CurrentInv /\ LockOutInv /\ ListedIsCurrent
  BY <1>1 DEF Answer, DInv
<1>3. p \in Pods /\ r \in AskedOf(p)
  BY <1>1, <1>2 DEF LockOutInv, NotSent, AskedOf
<1>4. DiscoveryTypeOK'
  BY <1>2, <1>3 DEF DiscoveryTypeOK, PodRequests, NotSent
<1>5. \A q \in Requests : sent'[q] # NotSent => sent'[q].pod \in Pods
  BY <1>2 DEF LockOutInv, DiscoveryTypeOK, PodRequests
<1>6. \A x \in Pods : AskedOf(x)' \in SUBSET AskedOf(x) /\ AskedOf(p)' = AskedOf(p) \ {r}
  BY <1>1, <1>2 DEF AskedOf, DiscoveryTypeOK, PodRequests, NotSent
<1>7. ASSUME NEW CONSTANT x \in Pods
      PROVE  unauth'[x] + Cardinality(AskedOf(x)') <= Cardinality(Requests)
  <2>1. CASE unauth'[x] = unauth[x]
    BY <1>6, <2>1, FewerAsked
  <2>2. CASE x = p /\ unauth'[x] = unauth[x] + 1
    <3>1. AskedOf(p) \in SUBSET Requests
      BY DEF AskedOf
    <3>2. Cardinality(AskedOf(p) \ {r}) = Cardinality(AskedOf(p)) - 1 /\ Cardinality(AskedOf(p)) \in Nat
      BY <1>3, <3>1, SomeRequests, FS_RemoveElement
    <3>3. unauth[p] + Cardinality(AskedOf(p)) <= Cardinality(Requests) /\ unauth[p] \in Nat
      BY <1>2, <1>3 DEF LockOutInv, DiscoveryTypeOK, PodRequests
    <3>4. QED
      BY <1>6, <2>2, <3>1, <3>2, <3>3, SomeRequests
  <2>3. QED
    BY <1>2, <1>3, <2>1, <2>2 DEF DiscoveryTypeOK
<1>8. \A x \in Pods : x \notin stale' => unauth'[x] = 0
  BY <1>2, <1>3 DEF LockOutInv, DiscoveryTypeOK, PodRequests
<1>9. LockOutInv'
  BY <1>5, <1>7, <1>8 DEF LockOutInv
<1>10. CurrentInv' /\ ListedIsCurrent'
  BY <1>2 DEF CurrentInv, ListedIsCurrent, Usable
<1>11. QED
  BY <1>4, <1>9, <1>10 DEF DInv

\* The Secret is written, at a later time.
LEMMA RewriteInv ==
    ASSUME DInv, NEW CONSTANT new \in Secrets, Rewrite(new)
    PROVE  DInv'
<1>1. /\ secret' = [new EXCEPT !.mtime = secret.mtime + 1]
      /\ offered' = offered \union {Usable(new)}
      /\ UNCHANGED <<cache, reading, stale, sent, unauth>>
      /\ DiscoveryTypeOK /\ CurrentInv /\ LockOutInv /\ ListedIsCurrent
  BY DEF Rewrite, DInv
<1>2. /\ new \in [there : BOOLEAN, mtime : {0}, good : BOOLEAN, list : Lists \ {Empty}]
      /\ new.list.token # NoToken
  BY DEF Secrets
<1>3. /\ secret'.mtime = secret.mtime + 1 /\ secret'.there = new.there /\ secret'.good = new.good
      /\ secret'.list = new.list /\ secret.mtime \in Nat \ {0}
  BY <1>1, <1>2 DEF DiscoveryTypeOK
<1>4. DiscoveryTypeOK'
  BY <1>1, <1>2, <1>3 DEF DiscoveryTypeOK
<1>5. Usable(secret)' = Usable(new)
  BY <1>3 DEF Usable
<1>6. /\ cache.mtime < secret'.mtime /\ reading.at < secret'.mtime
  BY <1>1, <1>3 DEF CurrentInv, DiscoveryTypeOK
<1>7. LockOutInv'
  BY <1>1 DEF LockOutInv, AskedOf
<1>8. CurrentInv'
  <2>1. cache.mtime # secret'.mtime /\ reading.at # secret'.mtime
    BY <1>1, <1>3, <1>6 DEF DiscoveryTypeOK
  <2>2. cache.mtime <= secret'.mtime /\ reading.at <= secret'.mtime
    BY <1>1, <1>3, <1>6 DEF DiscoveryTypeOK
  <2>3. QED
    BY <1>1, <1>5, <2>1, <2>2 DEF CurrentInv
<1>9. ListedIsCurrent'
  BY <1>1 DEF ListedIsCurrent
<1>10. QED
  BY <1>4, <1>7, <1>8, <1>9 DEF DInv

\* The invariant holds at the start and is kept by every step.
LEMMA DiscoveryStart == DiscoveryInit => DInv
<1> SUFFICES ASSUME DiscoveryInit PROVE DInv
  OBVIOUS
<1>1. PICK s \in Secrets : secret = [s EXCEPT !.mtime = 1]
  BY DEF DiscoveryInit
<1>2. /\ s \in [there : BOOLEAN, mtime : {0}, good : BOOLEAN, list : Lists \ {Empty}]
      /\ s.list.token # NoToken
  BY DEF Secrets
<1>3. secret.mtime = 1 /\ secret.list = s.list
  BY <1>1, <1>2
<1>4. Empty \in Lists
  BY DEF Empty, Lists
<1>5. DiscoveryTypeOK
  BY <1>1, <1>2, <1>3, <1>4 DEF DiscoveryInit, NothingKnown, DiscoveryTypeOK, PodRequests, NotSent
<1>6. \A p \in Pods : AskedOf(p) = {}
  BY DEF DiscoveryInit, NothingKnown, AskedOf, NotSent
<1>7. Cardinality({}) = 0 /\ Cardinality(Requests) \in Nat
  BY DiscoveryAssumption, FS_EmptySet, FS_CardinalityType
<1>8. LockOutInv
  BY <1>6, <1>7 DEF DiscoveryInit, NothingKnown, LockOutInv
<1>9. CurrentInv /\ ListedIsCurrent
  BY <1>3 DEF DiscoveryInit, NothingKnown, CurrentInv, ListedIsCurrent
<1>10. QED
  BY <1>5, <1>8, <1>9 DEF DInv

\* Every step of a reading, the Secret and the pods keeps DInv.
LEMMA DiscoveryStep == DInv /\ [DiscoveryNext]_discoveryVars => DInv'
<1> SUFFICES ASSUME DInv, [DiscoveryNext]_discoveryVars PROVE DInv'
  OBVIOUS
<1>1. CASE Call \/ ReadList \/ ReadToken \/ NotAsked
  BY <1>1, CallInv, ReadListInv, ReadTokenInv, NotAskedInv
<1>2. CASE \E r \in Requests, p \in Pods : Take(r, p)
  BY <1>2, TakeInv
<1>3. CASE \E r \in Requests : Send(r) \/ Answer(r)
  BY <1>3, SendInv, AnswerInv
<1>4. CASE \E new \in Secrets : Rewrite(new)
  BY <1>4, RewriteInv
<1>5. CASE (\E p \in Pods, t \in PodTokens : Replace(p, t)) \/ UNCHANGED discoveryVars
  <2>1. UNCHANGED <<secret, cache, reading, stale, sent, offered, unauth>>
    BY <1>5 DEF Replace, discoveryVars
  <2>2. QED
    BY <2>1 DEF DInv, DiscoveryTypeOK, LockOutInv, AskedOf, CurrentInv, ListedIsCurrent, Usable
<1>6. QED
  BY <1>1, <1>2, <1>3, <1>4, <1>5 DEF DiscoveryNext

\* The invariant of the cache and of the requests that go on.
THEOREM DiscoveryInductive == DiscoverySpec => []DInv
BY DiscoveryStart, DiscoveryStep, PTL DEF DiscoverySpec

\* A pod does not hear wrong tokens without end (rproxy.ts:264).
THEOREM WrongTokensEnd == DiscoverySpec => []NotLockedOut
<1>1. DInv => NotLockedOut
  <2>1. SUFFICES ASSUME DInv, NEW p \in Pods PROVE unauth[p] <= Cardinality(Requests)
    BY DEF NotLockedOut
  <2>2. {} \in SUBSET AskedOf(p) /\ Cardinality({}) = 0
    BY FS_EmptySet
  <2>3. unauth[p] + 0 <= Cardinality(Requests) /\ unauth[p] \in Nat
    BY <2>1, <2>2, FewerAsked DEF DInv, DiscoveryTypeOK
  <2>4. QED
    BY <2>3
<1>2. QED
  BY <1>1, DiscoveryInductive, PTL

\* What is used was in the Secret since it was last looked for (nodes.ts:356).
THEOREM UsedIsCurrent == DiscoverySpec => []ListedIsCurrent
<1>1. DInv => ListedIsCurrent
  BY DEF DInv
<1>2. QED
  BY <1>1, DiscoveryInductive, PTL

(***************************************************************************)
(* The form of a rule.                                                     *)
(***************************************************************************)

Shapes == {"tcp", "udp", "http"}
Values == {None, "old", "new", "others"}
Routes == [pass : BOOLEAN, src : Values, up : Values]
TlsValues == [mode : Modes, options : Values, domains : Values, up : {None, "tls", "settings"}, route : Routes]
EditRules == [shape : Shapes, on : BOOLEAN, dist : Values, tls : TlsValues, sec : [Sections -> Values]]
Names == {"dist", "mode", "options", "domains", "pass", "src", "up"} \union Sections
OpenForms == [open : {TRUE}, base : EditRules, caps : SUBSET Features, touched : SUBSET Names,
              fields : [dist : Values, tls : TlsValues, sec : [Sections -> Values \union {"default"}]]]

\* What was read from a row was put there by a form, or was there at first.
RowOk(r) ==
    /\ r \in EditRules
    /\ GoodTls(r.shape, r.tls)
    /\ \A k \in Sections : r.sec[k] # None => k \in Takes(r.shape)

\* The fields that were not typed into are those of the row that was loaded.
FormOk(f) ==
    /\ f \in OpenForms
    /\ RowOk(f.base)
    /\ "dist" \in f.touched \/ f.fields.dist = f.base.dist
    /\ "mode" \in f.touched \/ f.fields.tls.mode = f.base.tls.mode
    /\ "options" \in f.touched \/ f.fields.tls.options = f.base.tls.options
    /\ "domains" \in f.touched \/ f.fields.tls.domains = f.base.tls.domains
    /\ f.fields.tls.up = f.base.tls.up
    /\ "pass" \in f.touched \/ f.fields.tls.route.pass = f.base.tls.route.pass
    /\ "src" \in f.touched \/ f.fields.tls.route.src = f.base.tls.route.src
    /\ "up" \in f.touched \/ f.fields.tls.route.up = f.base.tls.route.up
    /\ \A k \in Sections : k \in f.touched \/ f.fields.sec[k] = f.base.sec[k]

\* The inductive invariant.
EInv ==
    /\ RowOk(stored)
    /\ form = Closed \/ (FormOk(form) /\ form.base.shape = stored.shape)
    /\ RunsWhatIsStored

\* Rules are the same that have the same parts.
LEMMA SameRule ==
    ASSUME NEW a \in EditRules, NEW b \in EditRules, a.shape = b.shape, a.on = b.on,
           a.dist = b.dist, a.tls = b.tls, a.sec = b.sec
    PROVE  a = b
BY DEF EditRules

\* What is sent of a rule is all but whether it is paused.
LEMMA WireIs ==
    ASSUME NEW r \in EditRules
    PROVE  /\ Wire(r) \in EditRules /\ Wire(r).on = TRUE /\ Wire(r).shape = r.shape
           /\ Wire(r).dist = r.dist /\ Wire(r).tls = r.tls /\ Wire(r).sec = r.sec
BY DEF Wire, EditRules

\* A PATCH made of two rules leads from the one to the other.
LEMMA PatchLeads ==
    ASSUME NEW a \in EditRules, NEW b \in EditRules, a.shape = b.shape
    PROVE  RulePatched(Wire(b), toRproxyPatch(a, b)) = Wire(a)
<1>1. PICK p : p = toRproxyPatch(a, b)
  OBVIOUS
<1>2. p.dist = a.dist /\ p.tls = a.tls /\ p.sec = PatchFields(a.sec, b.sec)
  BY <1>1 DEF toRproxyPatch
<1>3. \A k \in Sections : a.sec[k] # Clear /\ None # Clear
  BY DEF EditRules, Values, Clear, None
<1>4. PICK s : s = [k \in Sections |-> IF k \notin DOMAIN p.sec THEN b.sec[k]
                                       ELSE IF p.sec[k] = Clear THEN None ELSE p.sec[k]]
  OBVIOUS
<1>5. s = a.sec
  <2>1. ASSUME NEW k \in Sections PROVE s[k] = a.sec[k]
    <3>1. k \in DOMAIN p.sec <=> a.sec[k] # None \/ b.sec[k] # None
      BY <1>2 DEF PatchFields
    <3>2. k \in DOMAIN p.sec => p.sec[k] = IF a.sec[k] # None THEN a.sec[k] ELSE Clear
      BY <1>2 DEF PatchFields
    <3>3. QED
      BY <1>3, <1>4, <3>1, <3>2
  <2>2. QED
    BY <1>4, <2>1 DEF EditRules
<1>6. PICK w : w = Wire(b)
  OBVIOUS
<1>7. w \in EditRules /\ w.on = TRUE /\ w.shape = b.shape /\ w.sec = b.sec
  BY <1>6, WireIs
<1>8. PICK q : q = [w EXCEPT !.dist = a.dist, !.tls = a.tls, !.sec = s]
  OBVIOUS
<1>9. RulePatched(Wire(b), p) = q
  BY <1>2, <1>4, <1>6, <1>7, <1>8 DEF RulePatched
<1>10. /\ q \in EditRules /\ q.on = TRUE /\ q.shape = b.shape
      /\ q.dist = a.dist /\ q.tls = a.tls /\ q.sec = a.sec
  BY <1>5, <1>7, <1>8 DEF EditRules
<1>11. q = Wire(a)
  <2>1. PICK v : v = Wire(a)
    OBVIOUS
  <2>2. /\ v \in EditRules /\ v.on = TRUE /\ v.shape = a.shape
        /\ v.dist = a.dist /\ v.tls = a.tls /\ v.sec = a.sec
    BY <2>1, WireIs
  <2>3. q = v
    BY <1>10, <2>2, SameRule
  <2>4. QED
    BY <2>1, <2>3
<1>12. QED
  BY <1>1, <1>9, <1>11

\* A change of the row, carried out or taken back.
LEMMA ChangeLeads ==
    ASSUME RowOk(stored), RunsWhatIsStored, NEW updated, RowOk(updated), NEW commits \in BOOLEAN,
           updated.shape = stored.shape, updated.on = stored.on, Change(updated, commits)
    PROVE  RowOk(stored') /\ RunsWhatIsStored' /\ stored'.shape = stored.shape /\ stored' = IF commits THEN updated ELSE stored
<1>1. stored' = IF commits THEN updated ELSE stored
  BY DEF Change
<1>2. stored \in EditRules /\ updated \in EditRules
  BY DEF RowOk
<1>3. CASE ~stored.on
  BY <1>1, <1>3 DEF Change, RunsWhatIsStored
<1>4. CASE stored.on /\ runs = Absent
  <2>1. runs' = IF commits THEN Wire(updated) ELSE Absent
    BY <1>4 DEF Change, Sent, PatchedBack
  <2>2. QED
    BY <1>1, <1>4, <2>1 DEF RunsWhatIsStored
<1>5. CASE stored.on /\ runs # Absent
  <2>1. runs = Wire(stored)
    BY <1>5 DEF RunsWhatIsStored
  <2>2. Sent(runs, updated, stored) = Wire(updated)
    BY <1>2, <1>5, <2>1, PatchLeads DEF Sent
  <2>3. PatchedBack(runs, Wire(updated), updated, stored) = Wire(stored)
    BY <1>2, <1>5, <2>1, PatchLeads DEF PatchedBack
  <2>4. runs' = IF commits THEN Wire(updated) ELSE Wire(stored)
    BY <1>5, <2>2, <2>3 DEF Change
  <2>5. QED
    BY <1>1, <1>5, <2>4 DEF RunsWhatIsStored
<1>6. RowOk(stored') /\ stored'.shape = stored.shape
  BY <1>1
<1>7. QED
  BY <1>1, <1>3, <1>4, <1>5, <1>6

\* The first row.
LEMMA EditStart == EditInit => EInv
<1> SUFFICES ASSUME EditInit PROVE EInv
  OBVIOUS
<1>1. PICK shape \in Shapes, mode \in Modes, pass \in BOOLEAN, old \in {None, "old"} :
        stored = [shape |-> shape, on |-> TRUE, dist |-> "old", tls |-> Tls(shape, mode, pass, old),
                  sec |-> [k \in Sections |-> IF k \in Takes(shape) THEN old ELSE None]]
  BY DEF EditInit, Rules, Shapes
<1>2. GoodTls(stored.shape, stored.tls) /\ runs = Wire(stored) /\ form = Closed
  BY DEF EditInit
<1>3. Tls(shape, mode, pass, old) \in TlsValues
  <2>1. None \in Values /\ old \in Values
    BY DEF Values
  <2>2. QED
    BY <2>1 DEF Tls, TlsValues, Routes
<1>4. "old" \in Values /\ old \in Values /\ None \in Values
  BY DEF Values
<1>5. stored \in EditRules
  BY <1>1, <1>3, <1>4 DEF EditRules
<1>6. \A k \in Sections : stored.sec[k] # None => k \in Takes(stored.shape)
  BY <1>1
<1>7. stored.on
  BY <1>1
<1>8. QED
  BY <1>2, <1>5, <1>6, <1>7 DEF EInv, RowOk, RunsWhatIsStored

\* The form opens with what is in the row.
LEMMA OpenInv == EInv /\ Open => EInv'
<1> SUFFICES ASSUME EInv, Open PROVE EInv'
  OBVIOUS
<1>1. PICK f : f = [open |-> TRUE, base |-> stored, caps |-> {}, touched |-> {}, fields |-> Fields(stored)]
  OBVIOUS
<1>2. form' = f /\ UNCHANGED <<stored, runs>> /\ stored \in EditRules /\ RowOk(stored)
  BY <1>1 DEF Open, EInv, RowOk
<1>3. Fields(stored) \in [dist : Values, tls : TlsValues, sec : [Sections -> Values \union {"default"}]]
  BY <1>2 DEF Fields, EditRules
<1>4. f \in OpenForms
  BY <1>1, <1>2, <1>3 DEF OpenForms
<1>5. f.base = stored /\ f.fields.dist = stored.dist /\ f.fields.tls = stored.tls /\ f.fields.sec = stored.sec
  BY <1>1 DEF Fields
<1>6. FormOk(f)
  BY <1>2, <1>4, <1>5 DEF FormOk
<1>7. QED
  BY <1>2, <1>5, <1>6 DEF EInv, RunsWhatIsStored

\* The features change, and with them the mode where it was chosen.
LEMMA CapsInv ==
    ASSUME EInv, NEW CONSTANT caps \in Answers, CapsArrive(caps)
    PROVE  EInv'
<1>1. form.open /\ UNCHANGED <<stored, runs>> /\ EInv
  BY DEF CapsArrive
<1>2. FormOk(form) /\ form.base.shape = stored.shape
  BY <1>1 DEF EInv, Closed
<1>3. PICK mode : mode = IF form.fields.tls.mode \in availableTlsModes(caps) THEN form.fields.tls.mode ELSE "passthrough"
  OBVIOUS
<1>4. form' = [form EXCEPT !.caps = caps, !.fields.tls.mode = mode]
  BY <1>3 DEF CapsArrive
<1>5. mode \in Modes /\ caps \subseteq Features
  BY <1>2, <1>3 DEF FormOk, OpenForms, TlsValues, Modes, Answers
<1>6. "mode" \in form.touched \/ mode = form.base.tls.mode
  BY <1>2, <1>3 DEF FormOk, availableTlsModes
<1>7. form' \in OpenForms
  BY <1>2, <1>4, <1>5 DEF FormOk, OpenForms, TlsValues
<1>8. /\ form'.base = form.base /\ form'.touched = form.touched
      /\ form'.fields.dist = form.fields.dist /\ form'.fields.sec = form.fields.sec
      /\ form'.fields.tls.mode = mode /\ form'.fields.tls.up = form.fields.tls.up
      /\ form'.fields.tls.options = form.fields.tls.options /\ form'.fields.tls.domains = form.fields.tls.domains
      /\ form'.fields.tls.route = form.fields.tls.route
  BY <1>2, <1>4 DEF FormOk, OpenForms, TlsValues
<1>9. FormOk(form)'
  BY <1>2, <1>6, <1>7, <1>8 DEF FormOk
<1>10. QED
  BY <1>1, <1>2, <1>8, <1>9 DEF EInv, RunsWhatIsStored

\* One field is typed into.
LEMMA TouchInv ==
    ASSUME EInv, form.open, NEW CONSTANT name \in Names, NEW CONSTANT f, Touch(name, f),
           f \in [dist : Values, tls : TlsValues, sec : [Sections -> Values \union {"default"}]],
           name = "dist" \/ f.dist = form.fields.dist,
           name = "mode" \/ f.tls.mode = form.fields.tls.mode,
           name = "options" \/ f.tls.options = form.fields.tls.options,
           name = "domains" \/ f.tls.domains = form.fields.tls.domains,
           f.tls.up = form.fields.tls.up,
           name = "pass" \/ f.tls.route.pass = form.fields.tls.route.pass,
           name = "src" \/ f.tls.route.src = form.fields.tls.route.src,
           name = "up" \/ f.tls.route.up = form.fields.tls.route.up,
           \A k \in Sections : k = name \/ f.sec[k] = form.fields.sec[k]
    PROVE  EInv'
<1>1. /\ FormOk(form) /\ form.base.shape = stored.shape /\ UNCHANGED <<stored, runs>>
      /\ form' = [form EXCEPT !.touched = @ \union {name}, !.fields = f]
  BY DEF EInv, Closed, Touch
<1>2. form' \in OpenForms
  BY <1>1 DEF FormOk, OpenForms
<1>3. form'.base = form.base /\ form'.touched = form.touched \union {name} /\ form'.fields = f
  BY <1>1 DEF FormOk, OpenForms
<1>4. FormOk(form)'
  BY <1>1, <1>2, <1>3 DEF FormOk
<1>5. QED
  BY <1>1, <1>3, <1>4 DEF EInv, RunsWhatIsStored

\* The fields of an open form.
LEMMA FieldFacts ==
    ASSUME EInv, form.open
    PROVE  /\ form.fields \in [dist : Values, tls : TlsValues, sec : [Sections -> Values \union {"default"}]]
           /\ "new" \in Values /\ None \in Values /\ FormOk(form)
<1>1. FormOk(form)
  BY DEF EInv, Closed
<1>2. form.fields \in [dist : Values, tls : TlsValues, sec : [Sections -> Values \union {"default"}]]
  BY <1>1 DEF FormOk, OpenForms
<1>3. "new" \in Values /\ None \in Values
  BY DEF Values
<1>4. QED
  BY <1>1, <1>2, <1>3

\* The distribution of connections.
LEMMA TypeDistInv == EInv /\ TypeDist => EInv'
<1> SUFFICES ASSUME EInv, TypeDist PROVE EInv'
  OBVIOUS
<1>1. form.open
  BY DEF TypeDist, Touch
<1>2. PICK f : f = [form.fields EXCEPT !.dist = "new"]
  OBVIOUS
<1>3. /\ f \in [dist : Values, tls : TlsValues, sec : [Sections -> Values \union {"default"}]]
      /\ f.tls = form.fields.tls /\ f.sec = form.fields.sec
  BY <1>1, <1>2, FieldFacts
<1>4. Touch("dist", f) /\ "dist" \in Names
  BY <1>2 DEF TypeDist, Names
<1>5. QED
  BY <1>1, <1>3, <1>4, TouchInv

\* A section's fields.
LEMMA TypeSectionInv ==
    ASSUME EInv, form.open, NEW CONSTANT k \in Sections, NEW CONSTANT text \in Texts(k),
           Touch(k, [form.fields EXCEPT !.sec[k] = text])
    PROVE  EInv'
<1>1. PICK f : f = [form.fields EXCEPT !.sec[k] = text]
  OBVIOUS
<1>2. text \in Values \union {"default"}
  BY DEF Texts, Values
<1>3. /\ f \in [dist : Values, tls : TlsValues, sec : [Sections -> Values \union {"default"}]]
      /\ f.tls = form.fields.tls /\ f.dist = form.fields.dist
      /\ \A j \in Sections : j = k \/ f.sec[j] = form.fields.sec[j]
  BY <1>1, <1>2, FieldFacts
<1>4. Touch(k, f) /\ k \in Names
  BY <1>1 DEF Names
<1>5. QED
  BY <1>3, <1>4, TouchInv

\* A part of TLS that is not the route.
LEMMA TypeTlsInv ==
    ASSUME EInv, form.open, NEW CONSTANT name \in {"mode", "options", "domains"}, NEW CONSTANT t,
           t \in TlsValues, t.up = form.fields.tls.up, t.route = form.fields.tls.route,
           name = "mode" \/ t.mode = form.fields.tls.mode,
           name = "options" \/ t.options = form.fields.tls.options,
           name = "domains" \/ t.domains = form.fields.tls.domains,
           Touch(name, [form.fields EXCEPT !.tls = t])
    PROVE  EInv'
<1>1. PICK f : f = [form.fields EXCEPT !.tls = t]
  OBVIOUS
<1>2. /\ f \in [dist : Values, tls : TlsValues, sec : [Sections -> Values \union {"default"}]]
      /\ f.tls = t /\ f.dist = form.fields.dist /\ f.sec = form.fields.sec
  BY <1>1, FieldFacts
<1>3. Touch(name, f) /\ name \in Names
  BY <1>1 DEF Names
<1>4. QED
  BY <1>2, <1>3, TouchInv

\* A part of the route.
LEMMA TypePartInv ==
    ASSUME EInv, form.open, NEW CONSTANT name \in {"pass", "src", "up"}, NEW CONSTANT r,
           r \in Routes,
           name = "pass" \/ r.pass = form.fields.tls.route.pass,
           name = "src" \/ r.src = form.fields.tls.route.src,
           name = "up" \/ r.up = form.fields.tls.route.up,
           Touch(name, [form.fields EXCEPT !.tls.route = r])
    PROVE  EInv'
<1>1. PICK f : f = [form.fields EXCEPT !.tls.route = r]
  OBVIOUS
<1>2. form.fields \in [dist : Values, tls : TlsValues, sec : [Sections -> Values \union {"default"}]]
  BY FieldFacts
<1>3. /\ f \in [dist : Values, tls : TlsValues, sec : [Sections -> Values \union {"default"}]]
      /\ f.tls.route = r /\ f.dist = form.fields.dist /\ f.sec = form.fields.sec
      /\ f.tls.mode = form.fields.tls.mode /\ f.tls.options = form.fields.tls.options
      /\ f.tls.domains = form.fields.tls.domains /\ f.tls.up = form.fields.tls.up
  BY <1>1, <1>2 DEF TlsValues
<1>4. Touch(name, f) /\ name \in Names
  BY <1>1 DEF Names
<1>5. QED
  BY <1>3, <1>4, TouchInv

\* Whatever is typed.
LEMMA TypeInv == EInv /\ Type => EInv'
<1> SUFFICES ASSUME EInv, Type PROVE EInv'
  OBVIOUS
<1>1. CASE TypeDist
  BY <1>1, TypeDistInv
<1>2. ASSUME NEW k \in Sections, NEW text \in {None, "new", "default"}, TypeAdvanced(k, text) \/ TypeLimits(k, text)
      PROVE EInv'
  <2>1. form.open /\ text \in Texts(k) /\ Touch(k, [form.fields EXCEPT !.sec[k] = text])
    BY <1>2 DEF TypeAdvanced, TypeLimits
  <2>2. QED
    BY <2>1, TypeSectionInv
<1>3. ASSUME form.open, NEW name \in {"mode", "options", "domains"}, NEW t,
             \/ name = "mode" /\ \E mode \in Modes : t = [form.fields.tls EXCEPT !.mode = mode]
             \/ name = "options" /\ \E text \in {None, "new"} : t = [form.fields.tls EXCEPT !.options = text]
             \/ name = "domains" /\ t = [form.fields.tls EXCEPT !.domains = "new"],
             Touch(name, [form.fields EXCEPT !.tls = t])
      PROVE  EInv'
  <2>1. form.fields.tls \in TlsValues /\ "new" \in Values /\ None \in Values
    BY <1>3, FieldFacts
  <2>2. t \in TlsValues /\ t.up = form.fields.tls.up /\ t.route = form.fields.tls.route
    BY <1>3, <2>1 DEF TlsValues
  <2>3. /\ name = "mode" \/ t.mode = form.fields.tls.mode
        /\ name = "options" \/ t.options = form.fields.tls.options
        /\ name = "domains" \/ t.domains = form.fields.tls.domains
    BY <1>3, <2>1 DEF TlsValues
  <2>4. PICK u : u = t
    OBVIOUS
  <2>5. QED
    BY <1>3, <2>2, <2>3, <2>4, TypeTlsInv
<1>4. ASSUME NEW mode \in Modes, TypeMode(mode)
      PROVE  EInv'
  <2>1. form.open /\ Touch("mode", [form.fields EXCEPT !.tls = [form.fields.tls EXCEPT !.mode = mode]])
    BY <1>4 DEF TypeMode
  <2>2. QED
    BY <2>1, <1>3
<1>5. ASSUME NEW text \in {None, "new"}, TypeOptions(text)
      PROVE  EInv'
  <2>1. form.open /\ Touch("options", [form.fields EXCEPT !.tls = [form.fields.tls EXCEPT !.options = text]])
    BY <1>5 DEF TypeOptions
  <2>2. QED
    BY <2>1, <1>3
<1>6. CASE TypeDomains
  <2>1. form.open /\ Touch("domains", [form.fields EXCEPT !.tls = [form.fields.tls EXCEPT !.domains = "new"]])
    BY <1>6 DEF TypeDomains
  <2>2. QED
    BY <2>1, <1>3
<1>7. ASSUME NEW text \in {None, "new"}, TypeRoute(text)
      PROVE  EInv'
  <2>1. PICK r : \/ r = [form.fields.tls.route EXCEPT !.pass = (text = "new")] /\ Touch("pass", [form.fields EXCEPT !.tls.route = r])
                 \/ r = [form.fields.tls.route EXCEPT !.src = text] /\ Touch("src", [form.fields EXCEPT !.tls.route = r])
                 \/ r = [form.fields.tls.route EXCEPT !.up = text] /\ Touch("up", [form.fields EXCEPT !.tls.route = r])
    BY <1>7 DEF TypeRoute
  <2>2. form.open
    BY <1>7 DEF TypeRoute
  <2>3. form.fields.tls.route \in Routes /\ text \in Values /\ (text = "new") \in BOOLEAN
    BY <2>2, FieldFacts DEF TlsValues
  <2>4. CASE r = [form.fields.tls.route EXCEPT !.pass = (text = "new")] /\ Touch("pass", [form.fields EXCEPT !.tls.route = r])
    <3>1. r \in Routes /\ r.src = form.fields.tls.route.src /\ r.up = form.fields.tls.route.up
      BY <2>3, <2>4 DEF Routes
    <3>2. Touch("pass", [form.fields EXCEPT !.tls.route = r]) /\ "pass" \in {"pass", "src", "up"}
      BY <2>4
    <3>3. QED
      BY <2>2, <3>1, <3>2, TypePartInv
  <2>5. CASE r = [form.fields.tls.route EXCEPT !.src = text] /\ Touch("src", [form.fields EXCEPT !.tls.route = r])
    BY <2>2, <2>3, <2>5, TypePartInv DEF Routes
  <2>6. CASE r = [form.fields.tls.route EXCEPT !.up = text] /\ Touch("up", [form.fields EXCEPT !.tls.route = r])
    BY <2>2, <2>3, <2>6, TypePartInv DEF Routes
  <2>7. QED
    BY <2>1, <2>4, <2>5, <2>6
<1>8. QED
  BY <1>1, <1>2, <1>4, <1>5, <1>6, <1>7 DEF Type

\* The form is saved: what is written is a rule, of the same kind.
LEMMA SavedOk ==
    ASSUME EInv, form.open, Complete
    PROVE  /\ RowOk(Merged(stored, Body)) /\ Merged(stored, Body).shape = stored.shape
           /\ Merged(stored, Body).on = stored.on
           /\ Merged(stored, Body).dist = form.fields.dist
           /\ Merged(stored, Body).tls = BuildTls(form.fields.tls)
           /\ \A k \in Sections : Merged(stored, Body).sec[k] \in {Build(k), stored.sec[k]}
<1>1. FormOk(form) /\ form.base.shape = stored.shape /\ RowOk(stored) /\ stored \in EditRules /\ form.base \in EditRules
  BY DEF EInv, Closed, FormOk, RowOk
<1>2. form.fields \in [dist : Values, tls : TlsValues, sec : [Sections -> Values \union {"default"}]]
  BY FieldFacts
<1>3. PICK t : t = BuildTls(form.fields.tls)
  OBVIOUS
<1>4. t \in TlsValues
  <2>1. PICK x : x = form.fields.tls /\ x \in TlsValues
    BY <1>2
  <2>2. PICK y : y = form.base.tls /\ y \in TlsValues
    BY <1>1 DEF EditRules
  <2>3. None \in Values /\ NoRoute \in Routes
    BY DEF Values, NoRoute, Routes
  <2>4. BuildRouteSpec(x.mode, x.route) \in Routes
    BY <2>1, <2>3 DEF BuildRouteSpec, TlsValues, Routes
  <2>5. PICK o, d, u, r : /\ t = [mode |-> x.mode, options |-> o, domains |-> d, up |-> u, route |-> r]
                          /\ o \in Values /\ d \in Values /\ u \in {None, "tls", "settings"} /\ r \in Routes
    <3>1. PICK o : o = IF x.mode # "terminate" THEN None
                       ELSE IF tlsOptionsEditable THEN x.options ELSE y.options
      OBVIOUS
    <3>2. PICK d : d = IF x.mode # "terminate" THEN None ELSE IF acmeEditable THEN x.domains ELSE y.domains
      OBVIOUS
    <3>3. PICK u : u = IF x.mode # "terminate" \/ (x.up = "settings" /\ ~Http) THEN None ELSE x.up
      OBVIOUS
    <3>4. PICK r : r = IF x.mode = "passthrough" THEN NoRoute ELSE BuildRouteSpec(x.mode, x.route)
      OBVIOUS
    <3>5. t = [mode |-> x.mode, options |-> o, domains |-> d, up |-> u, route |-> r]
      BY <1>3, <2>1, <2>2, <3>1, <3>2, <3>3, <3>4 DEF BuildTls
    <3>6. o \in Values /\ d \in Values
      BY <2>1, <2>2, <2>3, <3>1, <3>2 DEF TlsValues
    <3>7. u \in {None, "tls", "settings"} /\ r \in Routes
      BY <2>1, <2>3, <2>4, <3>3, <3>4 DEF TlsValues
    <3>8. QED
      BY <3>5, <3>6, <3>7
  <2>6. QED
    BY <2>1, <2>5 DEF TlsValues
<1>5. ASSUME NEW k \in Sections
      PROVE  Build(k) \in Values /\ (Build(k) # None => k \in Takes(stored.shape))
  <2>1. form.base.sec[k] \in Values /\ (form.base.sec[k] # None => k \in Takes(stored.shape))
    BY <1>1 DEF FormOk, RowOk, EditRules
  <2>2. Normal(form.fields.sec[k]) \in Values
    BY <1>2 DEF Normal, Values, None
  <2>3. k \notin V04Keys => k \in Takes(stored.shape)
    BY DEF V04Keys, Takes, Relay
  <2>4. None \in Values
    BY DEF Values
  <2>5. QED
    BY <1>1, <2>1, <2>2, <2>3, <2>4 DEF Build
<1>6. PICK b : b = Body
  OBVIOUS
<1>7. PICK c : c = [k \in Sections |-> IF k \in DOMAIN b.sec THEN b.sec[k] ELSE stored.sec[k]]
  OBVIOUS
<1>8. b.dist = form.fields.dist /\ b.tls = t
  BY <1>3, <1>6 DEF Body
<1>9. ASSUME NEW k \in Sections PROVE c[k] \in {Build(k), stored.sec[k]}
  <2>1. k \in DOMAIN b.sec => b.sec[k] = Build(k)
    BY <1>6 DEF Body
  <2>2. QED
    BY <1>7, <2>1
<1>10. PICK m : m = [stored EXCEPT !.dist = b.dist, !.tls = b.tls, !.sec = c]
  OBVIOUS
<1>11. m = Merged(stored, Body)
  BY <1>6, <1>7, <1>10 DEF Merged
<1>12. c \in [Sections -> Values] /\ \A k \in Sections : c[k] # None => k \in Takes(stored.shape)
  BY <1>1, <1>5, <1>7, <1>9 DEF RowOk, EditRules
<1>13. /\ m \in EditRules /\ m.shape = stored.shape /\ m.on = stored.on
       /\ m.dist = form.fields.dist /\ m.tls = t /\ m.sec = c
  BY <1>1, <1>2, <1>4, <1>8, <1>10, <1>12 DEF EditRules
<1>14. GoodTls(m.shape, m.tls)
  BY <1>1, <1>3, <1>13 DEF Complete
<1>15. QED
  BY <1>3, <1>9, <1>11, <1>12, <1>13, <1>14 DEF RowOk

\* After the form is saved, or not, the node runs what the row says.
LEMMA SaveInv ==
    ASSUME EInv, NEW CONSTANT commits \in BOOLEAN, SaveForm(commits)
    PROVE  EInv'
<1>1. form.open /\ Complete /\ Change(Merged(stored, Body), commits)
  BY DEF SaveForm
<1>2. PICK m : m = Merged(stored, Body)
  OBVIOUS
<1>3. RowOk(m) /\ m.shape = stored.shape /\ m.on = stored.on
  BY <1>1, <1>2, SavedOk
<1>4. RowOk(stored') /\ RunsWhatIsStored' /\ stored'.shape = stored.shape
  BY <1>1, <1>2, <1>3, ChangeLeads DEF EInv
<1>5. form' = Closed \/ form' = form
  BY DEF SaveForm
<1>6. QED
  BY <1>4, <1>5 DEF EInv

\* What others do keeps the form and the kind of the rule.
LEMMA OthersInv == EInv /\ (OtherSaves \/ Pause \/ Resume \/ Vanish) => EInv'
<1> SUFFICES ASSUME EInv, OtherSaves \/ Pause \/ Resume \/ Vanish PROVE EInv'
  OBVIOUS
<1>1. /\ RowOk(stored) /\ RunsWhatIsStored /\ stored \in EditRules /\ UNCHANGED form
      /\ form = Closed \/ (FormOk(form) /\ form.base.shape = stored.shape)
  BY DEF EInv, RowOk, OtherSaves, Pause, Resume, Vanish
<1>2. CASE OtherSaves
  <2>1. PICK k \in Takes(stored.shape), v \in {None, "others"} : Change([stored EXCEPT !.sec[k] = v], TRUE)
    BY <1>2 DEF OtherSaves
  <2>2. PICK u : u = [stored EXCEPT !.sec[k] = v]
    OBVIOUS
  <2>3. k \in Sections /\ v \in Values
    BY DEF Takes, Values
  <2>4. /\ u \in EditRules /\ u.shape = stored.shape /\ u.on = stored.on /\ u.tls = stored.tls
        /\ \A j \in Sections : u.sec[j] = IF j = k THEN v ELSE stored.sec[j]
    BY <1>1, <2>2, <2>3 DEF EditRules
  <2>5. RowOk(u)
    BY <1>1, <2>4 DEF RowOk
  <2>6. RowOk(stored') /\ RunsWhatIsStored' /\ stored'.shape = stored.shape
    BY <1>1, <2>1, <2>2, <2>4, <2>5, ChangeLeads
  <2>7. QED
    BY <1>1, <2>6 DEF EInv
<1>3. ASSUME NEW on \in BOOLEAN, stored' = [stored EXCEPT !.on = on], runs' = IF on THEN Wire(stored) ELSE Absent
      PROVE  EInv'
  <2>1. PICK u : u = [stored EXCEPT !.on = on]
    OBVIOUS
  <2>2. /\ u \in EditRules /\ u.shape = stored.shape /\ u.on = on /\ u.tls = stored.tls /\ u.sec = stored.sec
        /\ Wire(u) = Wire(stored)
    <3>1. /\ u \in EditRules /\ u.shape = stored.shape /\ u.on = on /\ u.tls = stored.tls /\ u.sec = stored.sec
          /\ u.dist = stored.dist
      BY <1>1, <2>1 DEF EditRules
    <3>2. PICK w, x : w = Wire(u) /\ x = Wire(stored)
      OBVIOUS
    <3>3. /\ w \in EditRules /\ w.on = TRUE /\ w.shape = u.shape /\ w.dist = u.dist /\ w.tls = u.tls /\ w.sec = u.sec
      BY <3>1, <3>2, WireIs
    <3>4. /\ x \in EditRules /\ x.on = TRUE /\ x.shape = stored.shape /\ x.dist = stored.dist
          /\ x.tls = stored.tls /\ x.sec = stored.sec
      BY <1>1, <3>2, WireIs
    <3>5. w = x
      BY <3>1, <3>3, <3>4, SameRule
    <3>6. QED
      BY <3>1, <3>2, <3>5
  <2>3. RowOk(u)
    BY <1>1, <2>2 DEF RowOk
  <2>4. RunsWhatIsStored'
    BY <1>3, <2>1, <2>2 DEF RunsWhatIsStored
  <2>5. QED
    BY <1>1, <1>3, <2>1, <2>2, <2>3, <2>4 DEF EInv
<1>4. CASE Pause
  BY <1>3, <1>4 DEF Pause
<1>5. CASE Resume
  BY <1>3, <1>5 DEF Resume
<1>6. CASE Vanish
  BY <1>1, <1>6 DEF Vanish, EInv, RunsWhatIsStored
<1>7. QED
  BY <1>2, <1>4, <1>5, <1>6

\* Every step of the form, its saving and others keeps EInv.
LEMMA EditStepInv == EInv /\ [EditNext]_editVars => EInv'
<1> SUFFICES ASSUME EInv, [EditNext]_editVars PROVE EInv'
  OBVIOUS
<1>1. CASE Open \/ Type
  BY <1>1, OpenInv, TypeInv
<1>2. CASE Leave
  BY <1>2 DEF Leave, EInv, RunsWhatIsStored
<1>3. CASE \E caps \in Answers : CapsArrive(caps)
  BY <1>3, CapsInv
<1>4. CASE \E commits \in BOOLEAN : SaveForm(commits)
  BY <1>4, SaveInv
<1>5. CASE OtherSaves \/ Pause \/ Resume \/ Vanish
  BY <1>5, OthersInv
<1>6. CASE UNCHANGED editVars
  BY <1>6 DEF editVars, EInv, RunsWhatIsStored
<1>7. QED
  BY <1>1, <1>2, <1>3, <1>4, <1>5, <1>6 DEF EditNext

\* The invariant: rows are rules that parseRule lets in, and the fields of a form
\* that were not typed into are those of the row it was opened with.
THEOREM EditInductive == EditSpec => []EInv
BY EditStart, EditStepInv, PTL DEF EditSpec

\* The node runs what the row says, or nothing (toRproxyPatch, toRproxyRule).
THEOREM PatchesLeadThere == EditSpec => []RunsWhatIsStored
<1>1. EInv => RunsWhatIsStored
  BY DEF EInv
<1>2. QED
  BY <1>1, EditInductive, PTL

\* Of TLS, what was not typed into is built as it was loaded.
LEMMA TlsAsLoaded ==
    ASSUME EInv, form.open, NEW t, t = BuildTls(form.fields.tls)
    PROVE  LET b == form.base.tls
               T == form.touched IN
           /\ "mode" \in T \/ t.mode = b.mode
           /\ {"mode", "options"} \intersect T # {} \/ t.options = b.options
           /\ {"mode", "domains"} \intersect T # {} \/ t.domains = b.domains
           /\ {"mode", "up_rule"} \intersect T # {}
              \/ t.up = IF b.up = "settings" /\ form.base.shape # "http" THEN None ELSE b.up
           /\ {"mode", "pass"} \intersect T # {} \/ t.route.pass = b.route.pass
           /\ {"mode", "pass", "src"} \intersect T # {} \/ t.route.src = b.route.src
           /\ {"mode", "pass", "up"} \intersect T # {} \/ t.route.up = b.route.up
<1>1. FormOk(form)
  BY FieldFacts
<1>2. PICK x, b, T : x = form.fields.tls /\ b = form.base.tls /\ T = form.touched
  OBVIOUS
<1>3. GoodTls(form.base.shape, b) /\ b \in TlsValues /\ x \in TlsValues
  BY <1>1, <1>2 DEF FormOk, RowOk, OpenForms, EditRules
<1>4. /\ "mode" \in T \/ x.mode = b.mode
      /\ "options" \in T \/ x.options = b.options
      /\ "domains" \in T \/ x.domains = b.domains
      /\ x.up = b.up
      /\ "pass" \in T \/ x.route.pass = b.route.pass
      /\ "src" \in T \/ x.route.src = b.route.src
      /\ "up" \in T \/ x.route.up = b.route.up
  BY <1>1, <1>2 DEF FormOk
<1>5. /\ t.mode = x.mode
      /\ t.options = IF x.mode # "terminate" THEN None
                     ELSE IF tlsOptionsEditable THEN x.options ELSE b.options
      /\ t.domains = IF x.mode # "terminate" THEN None ELSE IF acmeEditable THEN x.domains ELSE b.domains
      /\ t.up = IF x.mode # "terminate" \/ (x.up = "settings" /\ ~Http) THEN None ELSE x.up
      /\ t.route = IF x.mode = "passthrough" THEN NoRoute ELSE BuildRouteSpec(x.mode, x.route)
  BY <1>2 DEF BuildTls
<1>6. "options" \in T \/ "mode" \in T \/ t.options = b.options
  BY <1>3, <1>4, <1>5 DEF GoodTls
<1>7. "domains" \in T \/ "mode" \in T \/ t.domains = b.domains
  BY <1>3, <1>4, <1>5 DEF GoodTls
<1>8. "mode" \in T \/ t.up = IF b.up = "settings" /\ form.base.shape # "http" THEN None ELSE b.up
  BY <1>3, <1>4, <1>5 DEF GoodTls, Http, None
<1>9. CASE "mode" \notin T
  <2>1. CASE x.mode = "passthrough"
    <3>1. b.route = NoRoute /\ t.route = NoRoute
      BY <1>3, <1>4, <1>5, <1>9, <2>1 DEF GoodTls
    <3>2. QED
      BY <1>2, <1>4, <1>5, <1>6, <1>7, <1>8, <1>9, <3>1
  <2>2. CASE x.mode # "passthrough"
    <3>1. /\ t.route.pass = (x.route.pass /\ x.mode = "terminate")
          /\ t.route.src = IF "route_source_ip" \in form.caps /\ ~RelaysAtL4(x.mode, x.route) THEN None ELSE x.route.src
          /\ t.route.up = IF "tls_route_upstream" \in form.caps /\ ~TakesUpstream(form.base.shape, x.mode, x.route)
                          THEN None ELSE x.route.up
      BY <1>5, <2>2 DEF BuildRouteSpec
    <3>2. b.route.pass \in BOOLEAN /\ x.route.pass \in BOOLEAN
      BY <1>3 DEF TlsValues, Routes
    <3>3. "pass" \in T \/ t.route.pass = b.route.pass
      BY <1>3, <1>4, <1>9, <3>1, <3>2 DEF GoodTls
    <3>4. "pass" \in T \/ "src" \in T \/ t.route.src = b.route.src
      BY <1>3, <1>4, <1>9, <3>1 DEF GoodTls, RelaysAtL4
    <3>5. "pass" \in T \/ "up" \in T \/ t.route.up = b.route.up
      BY <1>3, <1>4, <1>9, <3>1 DEF GoodTls, TakesUpstream
    <3>6. QED
      BY <1>2, <1>4, <1>5, <1>6, <1>7, <1>8, <1>9, <3>3, <3>4, <3>5
  <2>3. QED
    BY <2>1, <2>2
<1>10. CASE "mode" \in T
  BY <1>2, <1>10
<1>11. QED
  BY <1>9, <1>10

\* What a form that is saved changes.
LEMMA SavesTouched ==
    ASSUME EInv, EditNext, form.open, form' # form, stored' # stored
    PROVE  /\ stored'.on = stored.on
           /\ \A n \in DOMAIN Parts(stored) :
                 \/ Follows(n) \intersect form.touched # {}
                 \/ Parts(stored')[n] \in {Parts(stored)[n], Parts(form.base)[n]}
           /\ \A k \in Sections : \/ k \in form.touched
                                  \/ stored'.sec[k] \in {stored.sec[k], form.base.sec[k]}
<1>1. Complete /\ stored' = Merged(stored, Body)
  <2>1. SaveForm(TRUE) \/ SaveForm(FALSE)
    BY DEF EditNext, Open, Type, TypeDist, TypeDomains, TypeAdvanced, TypeLimits, TypeMode, TypeOptions, TypeRoute,
           Touch, Leave, CapsArrive, OtherSaves, Pause, Resume, Vanish
  <2>2. QED
    BY <2>1 DEF SaveForm, Change
<1>2. PICK m, t, T, f : m = Merged(stored, Body) /\ t = BuildTls(form.fields.tls) /\ T = form.touched /\ f = form.base
  OBVIOUS
<1>3. /\ m.shape = stored.shape /\ m.on = stored.on /\ m.dist = form.fields.dist /\ m.tls = t
      /\ \A k \in Sections : m.sec[k] \in {Build(k), stored.sec[k]}
  BY <1>1, <1>2, SavedOk
<1>4. FormOk(form) /\ f.shape = stored.shape
  BY <1>2 DEF EInv, Closed
<1>5. ASSUME NEW n \in DOMAIN Parts(stored), Follows(n) \intersect T = {}
      PROVE  Parts(m)[n] = Parts(f)[n]
  <2>1. n \in {"dist", "mode", "options", "domains", "up_rule", "pass", "src", "up"}
    BY DEF Parts
  <2>2. CASE n = "dist"
    BY <1>2, <1>3, <1>4, <1>5, <2>2 DEF Parts, Follows, FormOk
  <2>3. CASE n = "mode"
    BY <1>2, <1>3, <1>5, <2>3, TlsAsLoaded DEF Parts, Follows
  <2>4. CASE n = "options"
    BY <1>2, <1>3, <1>5, <2>4, TlsAsLoaded DEF Parts, Follows
  <2>5. CASE n = "domains"
    BY <1>2, <1>3, <1>5, <2>5, TlsAsLoaded DEF Parts, Follows
  <2>6. CASE n = "up_rule"
    <3>1. t.up = IF f.tls.up = "settings" /\ f.shape # "http" THEN None ELSE f.tls.up
      BY <1>2, <1>5, <2>6, TlsAsLoaded DEF Follows
    <3>2. QED
      BY <1>3, <1>4, <2>6, <3>1 DEF Parts, None
  <2>7. CASE n = "pass"
    BY <1>2, <1>3, <1>5, <2>7, TlsAsLoaded DEF Parts, Follows
  <2>8. CASE n = "src"
    BY <1>2, <1>3, <1>5, <2>8, TlsAsLoaded DEF Parts, Follows
  <2>9. CASE n = "up"
    BY <1>2, <1>3, <1>5, <2>9, TlsAsLoaded DEF Parts, Follows
  <2>10. QED
    BY <2>1, <2>2, <2>3, <2>4, <2>5, <2>6, <2>7, <2>8, <2>9
<1>6. ASSUME NEW k \in Sections, k \notin T
      PROVE  m.sec[k] \in {stored.sec[k], f.sec[k]}
  <2>1. form.fields.sec[k] = f.sec[k]
    BY <1>2, <1>4, <1>6 DEF FormOk
  <2>2. f.sec[k] \in Values /\ (f.sec[k] # None => k \in Takes(f.shape))
    BY <1>2, <1>4 DEF FormOk, RowOk, EditRules
  <2>3. Normal(f.sec[k]) = f.sec[k]
    BY <2>2 DEF Normal, Values, None
  <2>4. Build(k) = f.sec[k]
    BY <1>2, <2>1, <2>2, <2>3 DEF Build
  <2>5. QED
    BY <1>3, <2>4
<1>7. QED
  BY <1>1, <1>2, <1>3, <1>5, <1>6

\* Saving changes what was typed into, and besides only puts back what the form
\* had loaded, whatever the nodes can do and others did meanwhile (mergeEdit).
THEOREM SavesOnlyTouched == EditSpec => OnlyWhatWasTouched
<1>1. EInv /\ [EditNext]_editVars =>
        [(form.open /\ form' # form /\ stored' # stored) =>
          /\ stored'.on = stored.on
          /\ \A n \in DOMAIN Parts(stored) :
                \/ Follows(n) \intersect form.touched # {}
                \/ Parts(stored')[n] \in {Parts(stored)[n], Parts(form.base)[n]}
          /\ \A k \in Sections : \/ k \in form.touched
                                 \/ stored'.sec[k] \in {stored.sec[k], form.base.sec[k]}]_editVars
  BY SavesTouched DEF editVars
<1>2. QED
  BY <1>1, EditInductive, PTL DEF EditSpec, OnlyWhatWasTouched

(***************************************************************************)
(* The page of the global settings.                                        *)
(***************************************************************************)

PageModes == {"keep", "set", "clear"}
PageValues == [KeysOf(item) -> IF item = "timeouts" THEN 0..2 ELSE 0..3]
Plans == [there : BOOLEAN, values : PageValues, mode : PageModes, ok : BOOLEAN,
          of : SUBSET GlobalNodes, late : BOOLEAN]
Edits == [mode : PageModes, keys : SUBSET KeysOf(item), text : [KeysOf(item) -> 0..2], open : BOOLEAN,
          typed : SUBSET KeysOf(item), read : [GlobalNodes -> PageValues]]

PageTypeOK ==
    /\ item \in {"timeouts", "proxies"}
    /\ apiValue \in [GlobalNodes -> PageValues] /\ data \in [GlobalNodes -> PageValues]
    /\ target \in TargetChoices
    /\ edit \in Edits
    /\ plan \in Plans
    /\ request \in [pc : {"idle", "sent", "answered"}, dry : BOOLEAN, plan : Plans]

\* A field nobody typed into has what all the nodes had when the form was opened, an empty
\* list as no lines; or nothing where they did not agree.
FieldKept(e, k) ==
    \/ differs(e.read) /\ e.text[k] = 0
    \/ item = "proxies" /\ e.text[k] = 0 /\ \A n \in target : e.read[n][k] = EmptyList
    \/ (k \notin e.keys => e.text[k] = 0) /\ \A n \in target : e.read[n][k] = e.text[k]

EditOk(e) ==
    /\ item = "proxies" => e.keys = KeysOf(item)
    /\ \A k \in KeysOf(item) \ e.typed : FieldKept(e, k)

\* The plan, and the one on its way, are for the nodes that are picked, or late.
PlanOf(p) == p.of = target \/ p.late

\* The inductive invariant.
PageInv ==
    /\ PageTypeOK
    /\ ~edit.open => edit.mode = "keep"
    /\ edit.open => EditOk(edit)
    /\ plan.there => PlanOf(plan)
    /\ request.pc # "idle" => PlanOf(request.plan)

\* The nodes that are picked are some.
LEMMA SomeTarget ==
    ASSUME NEW t \in TargetChoices
    PROVE  t \subseteq GlobalNodes /\ t # {}
BY PageAssumption DEF TargetChoices

\* Nothing is written.
LEMMA UnwrittenOk == Unwritten(item) \in PageValues /\ Unwritten(item) \in [KeysOf(item) -> 0..2]
BY DEF Unwritten, PageValues

\* The form that nothing was done with, and no plan.
LEMMA FreshOk ==
    ASSUME data \in [GlobalNodes -> PageValues]
    PROVE  /\ Untouched \in Edits /\ ~Untouched.open /\ Untouched.mode = "keep"
           /\ NoPlan \in Plans /\ ~NoPlan.there
BY UnwrittenOk DEF Untouched, Edits, NoPlan, Plans, PageModes

\* The form as it opens.
LEMMA OpensOk ==
    ASSUME PageTypeOK
    PROVE  /\ toGlobalForm \in Edits /\ toGlobalForm.open /\ EditOk(toGlobalForm)
<1>0. PICK c \in target : c = CHOOSE n \in target : TRUE
  BY SomeTarget DEF PageTypeOK
<1>1. PICK v : v = IF differs(data) THEN Unwritten(item) ELSE data[c]
  OBVIOUS
<1>2. PICK e : e = [Untouched EXCEPT !.keys = IF item = "timeouts" THEN httpTimeoutKeys(v) ELSE KeysOf(item),
                                     !.text = [k \in KeysOf(item) |-> IF v[k] = EmptyList THEN 0 ELSE v[k]],
                                     !.open = TRUE]
  OBVIOUS
<1>3. e = toGlobalForm
  BY <1>0, <1>1, <1>2 DEF toGlobalForm
<1>4. target \subseteq GlobalNodes
  BY SomeTarget DEF PageTypeOK
<1>5. v \in PageValues /\ item \in {"timeouts", "proxies"}
  BY <1>1, <1>4, UnwrittenOk DEF PageTypeOK
<1>6. PICK keys, text : /\ keys = IF item = "timeouts" THEN httpTimeoutKeys(v) ELSE KeysOf(item)
                        /\ text = [k \in KeysOf(item) |-> IF v[k] = EmptyList THEN 0 ELSE v[k]]
  OBVIOUS
<1>7. keys \subseteq KeysOf(item)
  BY <1>5, <1>6 DEF httpTimeoutKeys, KeysOf
<1>8. text \in [KeysOf(item) -> 0..2]
  BY <1>5, <1>6 DEF PageValues, EmptyList
<1>9. /\ e.keys = keys /\ e.text = text /\ e.open = TRUE /\ e.typed = {} /\ e.read = data /\ e.mode = "keep"
      /\ e \in Edits
  BY <1>2, <1>6, <1>7, <1>8, FreshOk DEF PageTypeOK, Untouched, Edits
<1>10. ASSUME NEW k \in KeysOf(item) PROVE FieldKept(e, k)
  <2>1. CASE differs(data)
    <3>1. v[k] = 0 /\ text[k] = 0
      BY <1>1, <1>6, <2>1 DEF Unwritten, EmptyList
    <3>2. QED
      BY <1>9, <2>1, <3>1 DEF FieldKept
  <2>2. CASE ~differs(data)
    <3>1. \A n \in target : data[n] = v
      BY <1>1, <1>4, <2>2 DEF differs
    <3>2. text[k] = IF v[k] = EmptyList THEN 0 ELSE v[k]
      BY <1>6
    <3>3. CASE item = "proxies"
      BY <1>6, <1>9, <3>1, <3>2, <3>3 DEF FieldKept
    <3>4. CASE item = "timeouts"
      <4>1. v[k] # EmptyList
        BY <1>5, <3>4 DEF PageValues, EmptyList
      <4>2. k \notin keys => v[k] = 0
        BY <1>6, <3>4 DEF httpTimeoutKeys
      <4>3. QED
        BY <1>9, <3>1, <3>2, <4>1, <4>2 DEF FieldKept
    <3>5. QED
      BY <1>5, <3>3, <3>4
  <2>3. QED
    BY <2>1, <2>2
<1>11. QED
  BY <1>3, <1>6, <1>9, <1>10 DEF EditOk

\* The page as it is first shown.
LEMMA PageStart == PageInit => PageInv
<1> SUFFICES ASSUME PageInit PROVE PageInv
  OBVIOUS
<1>1. ApiValues(item) \subseteq PageValues /\ item \in {"timeouts", "proxies"}
  BY DEF PageInit, ApiValues, PageValues, EmptyList
<1>2. apiValue \in [GlobalNodes -> PageValues] /\ data = apiValue
  BY <1>1 DEF PageInit
<1>3. Idle \in [pc : {"idle", "sent", "answered"}, dry : BOOLEAN, plan : Plans] /\ Idle.pc = "idle"
  BY <1>2, FreshOk DEF Idle
<1>4. QED
  BY <1>1, <1>2, <1>3, FreshOk DEF PageInit, PageInv, PageTypeOK

\* What is built of a form is a value of the item.
LEMMA BuiltOk ==
    ASSUME PageTypeOK
    PROVE  buildGlobalValue(edit) \in PageValues
BY DEF PageTypeOK, Edits, buildGlobalValue, PageValues, KeysOf, EmptyList

\* Something is chosen or typed in the form.
LEMMA ChooseInv ==
    ASSUME PageInv, NEW CONSTANT mode \in PageModes, ChooseMode(mode)
    PROVE  PageInv'
<1>1. PageTypeOK /\ UNCHANGED <<item, streams, apiValue, data, target, request>> /\ plan' = NoPlan
  BY DEF PageInv, ChooseMode, setEdit, Settled
<1>2. PICK e : e = editOf
  OBVIOUS
<1>3. e \in Edits /\ EditOk(e) /\ e.open
  BY <1>1, <1>2, OpensOk DEF editOf, PageInv, PageTypeOK
<1>4. PICK f : f = [e EXCEPT !.mode = mode]
  OBVIOUS
<1>5. edit' = f
  BY <1>2, <1>4 DEF ChooseMode, setEdit
<1>6. /\ f \in Edits /\ f.open /\ f.keys = e.keys /\ f.text = e.text /\ f.typed = e.typed /\ f.read = e.read
  BY <1>3, <1>4 DEF Edits
<1>7. EditOk(f)
  BY <1>3, <1>6 DEF EditOk, FieldKept
<1>8. NoPlan \in Plans /\ ~NoPlan.there
  BY <1>1, FreshOk DEF PageTypeOK
<1>9. EditOk(edit)'
  BY <1>1, <1>5, <1>7 DEF EditOk, FieldKept, differs
<1>10. PageTypeOK'
  BY <1>1, <1>5, <1>6, <1>8 DEF PageTypeOK, Edits, Plans, PageValues
<1>11. QED
  BY <1>1, <1>5, <1>6, <1>8, <1>9, <1>10 DEF PageInv, PlanOf

\* Something is typed into a field.
LEMMA TypeFieldInv ==
    ASSUME PageInv, NEW CONSTANT k \in KeysOf(item), NEW CONSTANT v \in {0, 2}, TypeField(k, v)
    PROVE  PageInv'
<1>1. /\ PageTypeOK /\ UNCHANGED <<item, streams, apiValue, data, target, request>> /\ plan' = NoPlan
      /\ edit.mode = "set" /\ edit \in Edits
      /\ edit' = [edit EXCEPT !.text[k] = v, !.typed = @ \union {k}]
  BY DEF PageInv, PageTypeOK, TypeField, setEdit, Settled
<1>2. edit.open /\ EditOk(edit)
  BY <1>1 DEF PageInv
<1>3. PICK text, typed : text = [edit.text EXCEPT ![k] = v] /\ typed = edit.typed \union {k}
  OBVIOUS
<1>4. /\ text \in [KeysOf(item) -> 0..2] /\ typed \subseteq KeysOf(item)
      /\ \A j \in KeysOf(item) : j = k \/ text[j] = edit.text[j]
  BY <1>1, <1>3 DEF Edits
<1>5. PICK f : f = [edit EXCEPT !.text = text, !.typed = typed]
  OBVIOUS
<1>6. edit' = f
  BY <1>1, <1>3, <1>5 DEF Edits
<1>7. f \in Edits
  BY <1>1, <1>4, <1>5 DEF Edits
<1>8. f.keys = edit.keys /\ f.text = text /\ f.typed = typed /\ f.read = edit.read
  BY <1>1, <1>5 DEF Edits
<1>9. f.open
  <2>1. f.open = edit.open
    BY <1>1, <1>5 DEF Edits
  <2>2. QED
    BY <1>2, <2>1
<1>10. EditOk(f)
  <2>1. ASSUME NEW j \in KeysOf(item) \ f.typed PROVE FieldKept(f, j)
    <3>1. FieldKept(edit, j) /\ f.text[j] = edit.text[j]
      BY <1>2, <1>3, <1>4, <1>8 DEF EditOk
    <3>2. QED
      BY <1>8, <3>1 DEF FieldKept
  <2>2. QED
    BY <1>2, <1>8, <2>1 DEF EditOk
<1>11. NoPlan \in Plans /\ ~NoPlan.there
  BY <1>1, FreshOk DEF PageTypeOK
<1>12. EditOk(edit)'
  <2>1. EditOk(f)'
    BY <1>1, <1>10 DEF EditOk, FieldKept, differs
  <2>2. QED
    BY <1>6, <2>1 DEF EditOk, FieldKept, differs
<1>13. PageTypeOK'
  BY <1>1, <1>6, <1>7, <1>11 DEF PageTypeOK, Edits, Plans, PageValues
<1>14. QED
  BY <1>1, <1>6, <1>9, <1>11, <1>12, <1>13 DEF PageInv, PlanOf

\* Other nodes are picked: the form is closed, the plan gone, a request late.
LEMMA PickTargetInv ==
    ASSUME PageInv, NEW CONSTANT t \in TargetChoices, PickTarget(t)
    PROVE  PageInv'
<1>1. /\ PageTypeOK /\ UNCHANGED <<item, streams, apiValue, data>> /\ plan' = NoPlan
      /\ edit' = Untouched /\ target' = t /\ request' = [request EXCEPT !.plan.late = TRUE]
      /\ request \in [pc : {"idle", "sent", "answered"}, dry : BOOLEAN, plan : Plans]
  BY DEF PageInv, PageTypeOK, PickTarget, Settled
<1>2. /\ Untouched \in Edits /\ ~Untouched.open /\ Untouched.mode = "keep"
      /\ NoPlan \in Plans /\ ~NoPlan.there
  BY <1>1, FreshOk DEF PageTypeOK
<1>3. PICK q : q = [request EXCEPT !.plan.late = TRUE]
  OBVIOUS
<1>4. q \in [pc : {"idle", "sent", "answered"}, dry : BOOLEAN, plan : Plans] /\ q.plan.late
  BY <1>1, <1>3 DEF Plans
<1>5. PageTypeOK'
  BY <1>1, <1>2, <1>3, <1>4 DEF PageTypeOK, Edits, Plans, PageValues
<1>6. QED
  BY <1>1, <1>2, <1>3, <1>4, <1>5 DEF PageInv, PlanOf

\* A request is sent for the nodes that are picked.
LEMMA SendPageInv ==
    ASSUME PageInv, NEW CONSTANT dry \in BOOLEAN, SendPage(dry)
    PROVE  PageInv'
<1>1. /\ PageTypeOK /\ UNCHANGED <<item, streams, apiValue, data, target, edit, plan>>
      /\ target \in TargetChoices /\ edit \in Edits
  BY DEF PageInv, PageTypeOK, SendPage, Settled
<1>2. PICK p : p = [there |-> TRUE, values |-> buildGlobalValue(edit), mode |-> edit.mode, ok |-> FALSE,
                    of |-> target, late |-> FALSE]
  OBVIOUS
<1>3. request' = [pc |-> "sent", dry |-> dry, plan |-> p]
  BY <1>2 DEF SendPage
<1>4. p \in Plans /\ p.of = target
  BY <1>1, <1>2, BuiltOk, SomeTarget DEF Plans, Edits
<1>5. PageTypeOK'
  BY <1>1, <1>3, <1>4 DEF PageTypeOK, Edits, Plans, PageValues
<1>6. EditOk(edit)' = EditOk(edit)
  BY <1>1 DEF EditOk, FieldKept, differs
<1>7. QED
  BY <1>1, <1>3, <1>4, <1>5, <1>6 DEF PageInv, PlanOf

\* What the nodes have after a request, or after another's.
LEMMA ServedInv ==
    ASSUME PageInv, Served \/ \E n \in GlobalNodes : Elsewhere(n)
    PROVE  PageInv'
<1>1. /\ PageTypeOK /\ UNCHANGED <<item, streams, data, target, edit, plan>>
      /\ request \in [pc : {"idle", "sent", "answered"}, dry : BOOLEAN, plan : Plans]
      /\ apiValue \in [GlobalNodes -> PageValues]
  BY DEF PageInv, PageTypeOK, Served, Elsewhere, Settled
<1>2. Taken \in [GlobalNodes -> PageValues]
  BY <1>1 DEF Taken, Plans
<1>3. apiValue' \in [GlobalNodes -> PageValues]
  BY <1>1, <1>2, UnwrittenOk DEF Served, Elsewhere
<1>4. /\ request' \in [pc : {"idle", "sent", "answered"}, dry : BOOLEAN, plan : Plans]
      /\ request'.pc # "idle" => request.pc # "idle"
      /\ request'.plan.of = request.plan.of /\ request'.plan.late = request.plan.late
  <2>1. CASE UNCHANGED request
    BY <1>1, <2>1
  <2>2. CASE request.pc = "sent" /\ request' = [request EXCEPT !.pc = "answered"]
    BY <1>1, <2>2
  <2>3. CASE request.pc = "sent" /\ request' = [request EXCEPT !.pc = "answered", !.plan.ok = TRUE]
    <3>1. PICK p : p = [request.plan EXCEPT !.ok = TRUE]
      OBVIOUS
    <3>2. p \in Plans /\ p.of = request.plan.of
      BY <1>1, <3>1 DEF Plans
    <3>3. p.late = request.plan.late
      BY <1>1, <3>1 DEF Plans
    <3>4. request' = [request EXCEPT !.pc = "answered", !.plan = p]
      BY <1>1, <2>3, <3>1
    <3>5. request' \in [pc : {"idle", "sent", "answered"}, dry : BOOLEAN, plan : Plans] /\ request'.plan = p
      BY <1>1, <3>2, <3>4
    <3>6. QED
      BY <2>3, <3>2, <3>3, <3>5
  <2>4. QED
    BY <2>1, <2>2, <2>3 DEF Served, Elsewhere
<1>5. PageTypeOK'
  BY <1>1, <1>3, <1>4 DEF PageTypeOK, Edits, Plans, PageValues
<1>6. EditOk(edit)' = EditOk(edit)
  BY <1>1 DEF EditOk, FieldKept, differs
<1>7. QED
  BY <1>1, <1>4, <1>5, <1>6 DEF PageInv, PlanOf

\* An answer is taken, or lost.
LEMMA AnswerTakenInv ==
    ASSUME PageInv, NoAnswer \/ Planned \/ Reload
    PROVE  PageInv'
<1>1. /\ PageTypeOK /\ UNCHANGED <<item, streams, apiValue, target>>
      /\ request \in [pc : {"idle", "sent", "answered"}, dry : BOOLEAN, plan : Plans]
      /\ request.pc = "answered" /\ request' = Idle /\ PlanOf(request.plan)
  BY DEF PageInv, PageTypeOK, NoAnswer, Planned, Reload, Settled
<1>2. /\ Untouched \in Edits /\ ~Untouched.open /\ Untouched.mode = "keep"
      /\ NoPlan \in Plans /\ ~NoPlan.there
  BY <1>1, FreshOk DEF PageTypeOK
<1>3. Idle \in [pc : {"idle", "sent", "answered"}, dry : BOOLEAN, plan : Plans] /\ Idle.pc = "idle"
  BY <1>2 DEF Idle
<1>4. plan' \in Plans /\ (plan'.there => PlanOf(plan'))
  BY <1>1, <1>2 DEF NoAnswer, Planned, Reload, PageInv, PageTypeOK
<1>5. data' \in [GlobalNodes -> PageValues]
  BY <1>1 DEF NoAnswer, Planned, Reload, PageTypeOK
<1>6. PICK u : u = [Untouched EXCEPT !.read = apiValue]
  OBVIOUS
<1>7. u \in Edits /\ ~u.open /\ u.mode = "keep"
  BY <1>1, <1>2, <1>6 DEF Edits, PageTypeOK
<1>8. edit' = edit \/ edit' = u
  BY <1>6 DEF NoAnswer, Planned, Reload
<1>9. PageTypeOK'
  BY <1>1, <1>3, <1>4, <1>5, <1>7, <1>8 DEF PageTypeOK, Edits, Plans, PageValues
<1>10. \A e : EditOk(e)' <=> EditOk(e)
  BY <1>1 DEF EditOk, FieldKept, differs
<1>11. edit'.open => edit' = edit /\ EditOk(edit)
  BY <1>7, <1>8 DEF PageInv
<1>12. edit'.open => EditOk(edit)'
  BY <1>1, <1>11 DEF EditOk, FieldKept, differs
<1>13. ~edit'.open => edit'.mode = "keep"
  BY <1>7, <1>8 DEF PageInv
<1>14. QED
  BY <1>1, <1>3, <1>4, <1>9, <1>12, <1>13 DEF PageInv, PlanOf

\* Every step of the page, the nodes and others keeps PageInv.
LEMMA PageStep == PageInv /\ [PageNext]_globalPageVars => PageInv'
<1> SUFFICES ASSUME PageInv, [PageNext]_globalPageVars PROVE PageInv'
  OBVIOUS
<1>1. CASE \E mode \in PageModes : ChooseMode(mode)
  BY <1>1, ChooseInv
<1>2. CASE \E k \in KeysOf(item), v \in {0, 2} : TypeField(k, v)
  BY <1>2, TypeFieldInv
<1>3. CASE \E t \in TargetChoices : PickTarget(t)
  BY <1>3, PickTargetInv
<1>4. CASE \E dry \in BOOLEAN : SendPage(dry)
  BY <1>4, SendPageInv
<1>5. CASE Served \/ \E n \in GlobalNodes : Elsewhere(n)
  BY <1>5, ServedInv
<1>6. CASE NoAnswer \/ Planned \/ Reload
  BY <1>6, AnswerTakenInv
<1>7. CASE UNCHANGED globalPageVars
  BY <1>7 DEF globalPageVars, PageInv, PageTypeOK, PageValues, Plans, Edits, EditOk, FieldKept, PlanOf, differs
<1>8. QED
  BY <1>1, <1>2, <1>3, <1>4, <1>5, <1>6, <1>7 DEF PageNext, PageModes

\* The invariant: a form that is open keeps what it was filled with, and a plan is
\* for the nodes that are picked.
THEOREM PageInductive == PageSpec => []PageInv
BY PageStart, PageStep, PTL DEF PageSpec

\* What is built of the form keeps the fields nobody typed into.
LEMMA BuiltKeeps ==
    ASSUME PageInv, hasChanges
    PROVE  KeepsUntyped(edit, buildGlobalValue(edit))
<1>1. CASE edit.mode = "set"
  <2>1. edit.open /\ EditOk(edit) /\ item \in {"timeouts", "proxies"} /\ edit \in Edits
    BY <1>1 DEF PageInv, PageTypeOK
  <2>2. PICK w : w = buildGlobalValue(edit)
    OBVIOUS
  <2>3. ASSUME NEW k \in KeysOf(item) \ edit.typed
        PROVE  \/ \A n \in target : w[k] = edit.read[n][k]
               \/ w[k] = 0 /\ differs(edit.read)
               \/ w[k] = EmptyList
    <3>1. w[k] = IF k \notin edit.keys THEN 0
                 ELSE IF item = "proxies" /\ edit.text[k] = 0 THEN EmptyList ELSE edit.text[k]
      BY <1>1, <2>2 DEF buildGlobalValue
    <3>2. FieldKept(edit, k) /\ (item = "proxies" => k \in edit.keys)
      BY <2>1 DEF EditOk
    <3>3. QED
      BY <3>1, <3>2 DEF FieldKept
  <2>4. QED
    BY <2>2, <2>3 DEF KeepsUntyped
<1>2. CASE edit.mode # "set"
  BY <1>2 DEF KeepsUntyped
<1>3. QED
  BY <1>1, <1>2

\* What is applied was tried on the same nodes with the same values, and keeps the
\* fields nobody typed into.
THEOREM AppliesWhatWasTried == PageSpec => AppliedWasPlanned
<1>1. PageInv /\ [PageNext]_globalPageVars =>
        [SendPage(FALSE) => /\ plan.of = target \/ plan.late
                            /\ KeepsUntyped(edit, request'.plan.values)]_globalPageVars
  <2> SUFFICES ASSUME PageInv, SendPage(FALSE)
               PROVE  /\ plan.of = target \/ plan.late
                      /\ KeepsUntyped(edit, request'.plan.values)
    OBVIOUS
  <2>1. plan.there /\ hasChanges /\ request'.plan.values = buildGlobalValue(edit)
    BY DEF SendPage, planOk
  <2>2. QED
    BY <2>1, BuiltKeeps DEF PageInv, PlanOf
<1>2. QED
  BY <1>1, PageInductive, PTL DEF PageSpec, AppliedWasPlanned

(***************************************************************************)
(* Pages that refresh themselves.                                          *)
(***************************************************************************)

ScreenTypeOK ==
    /\ url \in Urls /\ there \in [Urls -> Nat]
    /\ shown \subseteq [url : Urls, version : Nat \ {0}]
    /\ loads \subseteq [pc : {"sent", "read", "config"}, url : Urls, got : Nat]

\* One load at a time, and one rule is shown, if any.
OneLoad ==
    /\ \A l \in loads, m \in loads : l = m
    /\ \A s \in shown, t \in shown : s = t

\* A version of a rule that is there now, or of one that is gone.
Was(k, version) == there[k] = 0 \/ version <= there[k]

\* What is shown was there, and what has been read since is no older.
Ordered ==
    /\ \A s \in shown : Was(s.url, s.version)
    /\ \A l \in loads : l.pc = "read" /\ l.got # 0 =>
          /\ Was(l.url, l.got)
          /\ \A s \in shown : s.url = l.url => s.version <= l.got

\* Before the page goes to the copy nothing of the copy is shown or asked for, and there is none
\* but the one the user just made: a rule that is gone does not come back with a lower version.
NoCopyYet ==
    url = "here" =>
        /\ \A s \in shown : s.url = "here"
        /\ \A l \in loads : l.url = "here"
        /\ acting # "copied" => there["copy"] = 0

\* The inductive invariant.
ScreenInv == ScreenTypeOK /\ OneLoad /\ Ordered /\ NoCopyYet

\* The page when it is opened.
LEMMA ScreenStart == ScreenInit => ScreenInv
<1> SUFFICES ASSUME ScreenInit PROVE ScreenInv
  OBVIOUS
<1>1. /\ url = "here" /\ shown = {} /\ loads = {Asked("here")} /\ there["copy"] = 0
      /\ there \in [Urls -> Nat]
  BY DEF ScreenInit, Urls
<1>2. /\ Asked("here") \in [pc : {"sent", "read", "config"}, url : Urls, got : Nat]
      /\ Asked("here").pc = "sent" /\ Asked("here").url = "here"
  BY DEF Asked, Urls
<1>3. QED
  BY <1>1, <1>2 DEF ScreenInv, ScreenTypeOK, OneLoad, Ordered, NoCopyYet, Urls

\* Asking for the rule in the URL: only while nothing else is asked for.
LEMMA LoadInv ==
    ASSUME ScreenInv, NEW CONSTANT k \in Urls, load(k), UNCHANGED <<there, shown>>,
           url' \in Urls, url' = "here" => url = "here" /\ k = "here" /\ (acting' = "copied" \/ acting # "copied")
    PROVE  ScreenInv'
<1>1. PICK l : l = Asked(k)
  OBVIOUS
<1>2. l \in [pc : {"sent", "read", "config"}, url : Urls, got : Nat] /\ l.pc = "sent" /\ l.url = k
  BY <1>1 DEF Asked
<1>3. loads' = {l} \/ loads' = loads
  BY <1>1 DEF load
<1>4. ScreenTypeOK' /\ OneLoad'
  BY <1>2, <1>3 DEF ScreenInv, ScreenTypeOK, OneLoad
<1>5. Ordered'
  BY <1>2, <1>3 DEF ScreenInv, Ordered, Was
<1>6. NoCopyYet'
  BY <1>2, <1>3 DEF ScreenInv, NoCopyYet
<1>7. QED
  BY <1>4, <1>5, <1>6 DEF ScreenInv

\* What leaves the loads and the rules alone.
LEMMA StillInv ==
    ASSUME ScreenInv, UNCHANGED <<url, there, shown, loads>>, acting' = "copied" \/ acting # "copied"
    PROVE  ScreenInv'
BY DEF ScreenInv, ScreenTypeOK, OneLoad, Ordered, Was, NoCopyYet

\* Loads that fail, or are over.
LEMMA OverInv ==
    ASSUME ScreenInv, NEW CONSTANT l \in loads, loads' = loads \ {l}, UNCHANGED <<url, there, shown, acting>>
    PROVE  ScreenInv'
BY DEF ScreenInv, ScreenTypeOK, OneLoad, Ordered, Was, NoCopyYet

\* What the server reads is no older than anything it has read before.
LEMMA ReadInv ==
    ASSUME ScreenInv, NEW CONSTANT l \in loads, Read(l)
    PROVE  ScreenInv'
<1>1. PICK m : m = [l EXCEPT !.pc = "read", !.got = there[l.url]]
  OBVIOUS
<1>2. /\ UNCHANGED <<url, there, shown, acting>> /\ loads = {l} /\ loads' = {m}
      /\ l \in [pc : {"sent", "read", "config"}, url : Urls, got : Nat]
  BY <1>1 DEF Read, Same, ScreenInv, ScreenTypeOK, OneLoad
<1>3. /\ m \in [pc : {"sent", "read", "config"}, url : Urls, got : Nat]
      /\ m.got = there[m.url] /\ m.url = l.url
  BY <1>1, <1>2 DEF ScreenInv, ScreenTypeOK
<1>4. ScreenTypeOK' /\ OneLoad'
  BY <1>2, <1>3 DEF ScreenInv, ScreenTypeOK, OneLoad
<1>5. Ordered'
  BY <1>2, <1>3 DEF ScreenInv, ScreenTypeOK, Ordered, Was
<1>6. NoCopyYet'
  BY <1>2, <1>3 DEF ScreenInv, NoCopyYet
<1>7. QED
  BY <1>4, <1>5, <1>6 DEF ScreenInv

\* The answer is what is shown.
LEMMA HearInv ==
    ASSUME ScreenInv, NEW CONSTANT l \in loads, Hear(l)
    PROVE  ScreenInv'
<1>1. PICK m : m = [l EXCEPT !.pc = "config"]
  OBVIOUS
<1>2. /\ UNCHANGED <<url, there, acting>> /\ loads = {l} /\ loads' \subseteq {m} /\ l.pc = "read"
      /\ l \in [pc : {"sent", "read", "config"}, url : Urls, got : Nat]
  BY <1>1 DEF Hear, ScreenInv, ScreenTypeOK, OneLoad
<1>3. /\ m \in [pc : {"sent", "read", "config"}, url : Urls, got : Nat]
      /\ m.pc = "config" /\ m.url = l.url
  BY <1>1, <1>2
<1>4. PICK t : t = [url |-> l.url, version |-> l.got]
  OBVIOUS
<1>5. \A x \in shown' : x = t /\ l.got # 0
  BY <1>4 DEF Hear
<1>6. t.url = l.url /\ t.version = l.got
  BY <1>4
<1>7. l.got # 0 => t \in [url : Urls, version : Nat \ {0}]
  BY <1>2, <1>4
<1>8. ScreenTypeOK' /\ OneLoad'
  BY <1>2, <1>3, <1>5, <1>7 DEF ScreenInv, ScreenTypeOK, OneLoad
<1>9. Ordered'
  BY <1>2, <1>3, <1>5, <1>6 DEF ScreenInv, Ordered, Was
<1>10. NoCopyYet'
  BY <1>2, <1>3, <1>5, <1>6 DEF ScreenInv, NoCopyYet
<1>11. QED
  BY <1>8, <1>9, <1>10 DEF ScreenInv

\* A rule that is there is changed, to a newer version than any, or is taken away.
LEMMA ChangeInv ==
    ASSUME ScreenInv, UNCHANGED <<url, shown, loads>>, acting' = "copied" \/ acting # "copied",
           NEW CONSTANT k \in Urls, there[k] # 0, there' = Changed(k) \/ there' = [there EXCEPT ![k] = 0]
    PROVE  ScreenInv'
<1>1. there \in [Urls -> Nat] /\ Newest \in Nat /\ there[k] <= Newest
  BY DEF ScreenInv, ScreenTypeOK, Newest, Urls
<1>2. /\ there' \in [Urls -> Nat]
      /\ \A j \in Urls : there'[j] = 0 \/ (there[j] # 0 /\ there[j] <= there'[j])
      /\ \A j \in Urls : there[j] = 0 => there'[j] = 0
  BY <1>1 DEF Changed
<1>3. ScreenTypeOK' /\ OneLoad'
  BY <1>2 DEF ScreenInv, ScreenTypeOK, OneLoad
<1>4. ASSUME NEW j \in Urls, NEW v \in Nat, Was(j, v) PROVE Was(j, v)'
  BY <1>1, <1>2, <1>4 DEF Was
<1>5. Ordered'
  <2>1. \A s \in shown : s.url \in Urls /\ s.version \in Nat
    BY DEF ScreenInv, ScreenTypeOK
  <2>2. \A l \in loads : l.url \in Urls /\ l.got \in Nat
    BY DEF ScreenInv, ScreenTypeOK
  <2>3. QED
    BY <1>4, <2>1, <2>2 DEF ScreenInv, Ordered, Was
<1>6. NoCopyYet'
  BY <1>2 DEF ScreenInv, NoCopyYet, Urls
<1>7. QED
  BY <1>3, <1>5, <1>6 DEF ScreenInv

\* The rule is copied: nothing of the copy has been seen.
LEMMA CopyInv ==
    ASSUME ScreenInv, NEW CONSTANT move \in BOOLEAN, Copy(move)
    PROVE  ScreenInv'
<1>1. /\ UNCHANGED <<url, shown, loads>> /\ url = "here" /\ acting' = "copied"
      /\ there \in [Urls -> Nat] /\ Newest \in Nat
  BY DEF Copy, ScreenInv, ScreenTypeOK, Newest, Urls
<1>2. /\ there' \in [Urls -> Nat]
      /\ there'["here"] = there["here"] \/ there'["here"] = 0
  BY <1>1 DEF Copy, Changed, Urls
<1>3. ScreenTypeOK' /\ OneLoad'
  BY <1>1, <1>2 DEF ScreenInv, ScreenTypeOK, OneLoad
<1>4. (\A s \in shown : s.url = "here") /\ (\A l \in loads : l.url = "here")
  BY <1>1 DEF ScreenInv, NoCopyYet
<1>5. Ordered'
  BY <1>1, <1>2, <1>4 DEF ScreenInv, Ordered, Was
<1>6. NoCopyYet'
  BY <1>1, <1>4 DEF NoCopyYet
<1>7. QED
  BY <1>3, <1>5, <1>6 DEF ScreenInv

\* Every step keeps the invariant.
LEMMA ScreenStep == ScreenInv /\ [ScreenNext]_screenVars => ScreenInv'
<1> SUFFICES ASSUME ScreenInv, [ScreenNext]_screenVars PROVE ScreenInv'
  OBVIOUS
<1>0. url \in Urls /\ "copy" \in Urls /\ (url = "here" => url \in Urls)
  BY DEF ScreenInv, ScreenTypeOK, Urls
<1>1. CASE Tick
  BY <1>0, <1>1, LoadInv DEF Tick, Same
<1>2. CASE Refresh
  BY <1>0, <1>2, LoadInv DEF Refresh
<1>3. ASSUME NEW CONSTANT l \in loads, Read(l) \/ LoadFails(l) \/ Hear(l) \/ Configured(l) PROVE ScreenInv'
  BY <1>3, ReadInv, HearInv, OverInv DEF LoadFails, Configured, Same
<1>4. CASE Act
  BY <1>4, StillInv DEF Act
<1>5. CASE Carried
  <2>1. CASE UNCHANGED there
    BY <1>5, <2>1, StillInv DEF Carried
  <2>2. CASE \E s \in {x \in shown : there[x.url] # 0} : there' = Changed(s.url)
    <3>1. PICK k \in Urls : there[k] # 0 /\ there' = Changed(k)
      BY <2>2 DEF ScreenInv, ScreenTypeOK
    <3>2. QED
      BY <1>5, <3>1, ChangeInv DEF Carried
  <2>3. QED
    BY <1>5, <2>1, <2>2 DEF Carried
<1>6. CASE ReloadAfter
  BY <1>0, <1>6, LoadInv DEF ReloadAfter
<1>7. ASSUME NEW CONSTANT move \in BOOLEAN, Copy(move) PROVE ScreenInv'
  BY <1>7, CopyInv
<1>8. CASE GoToCopy
  BY <1>0, <1>8, LoadInv DEF GoToCopy
<1>9. CASE ChangedElsewhere
  <2>1. PICK k \in Urls : there[k] # 0 /\ (there' = Changed(k) \/ there' = [there EXCEPT ![k] = 0])
    BY <1>0, <1>9 DEF ChangedElsewhere
  <2>2. QED
    BY <1>9, <2>1, ChangeInv DEF ChangedElsewhere
<1>10. ASSUME NEW which \in DOMAIN switches, Switch(which) PROVE ScreenInv'
  <2>1. CASE UNCHANGED loads
    BY <1>10, <2>1, StillInv DEF Switch
  <2>2. CASE load(url)
    BY <1>0, <1>10, <2>2, LoadInv DEF Switch
  <2>3. QED
    BY <1>10, <2>1, <2>2 DEF Switch
<1>11. CASE UNCHANGED screenVars
  BY <1>11, StillInv DEF screenVars
<1>12. QED
  BY <1>1, <1>2, <1>3, <1>4, <1>5, <1>6, <1>7, <1>8, <1>9, <1>10, <1>11 DEF ScreenNext

\* At most one load is under way, what is shown was there, and what has been read since is no older:
\* whatever is changed, copied, moved or taken away meanwhile.
THEOREM ScreenInductive == ScreenSpec => []ScreenInv
<1>1. QED
  BY ScreenStart, ScreenStep, PTL DEF ScreenSpec

\* The page never goes back to an older version of a rule.
THEOREM AnswersInOrder == ScreenSpec => ShownNeverOlder
<1>1. ScreenInv /\ [ScreenNext]_screenVars
         => [\A s \in shown, t \in shown' : s.url = t.url => s.version <= t.version]_screenVars
  <2> SUFFICES ASSUME ScreenInv, [ScreenNext]_screenVars,
                      NEW s \in shown, NEW t \in shown', s.url = t.url
               PROVE  s.version <= t.version
    OBVIOUS
  <2>1. CASE \E l \in loads : Hear(l)
    <3>1. PICK l \in loads : Hear(l)
      BY <2>1
    <3>2. t = [url |-> l.url, version |-> l.got] /\ l.got # 0 /\ l.pc = "read"
      BY <3>1 DEF Hear
    <3>3. t.url = l.url /\ t.version = l.got
      BY <3>2
    <3>4. QED
      BY <3>2, <3>3 DEF ScreenInv, Ordered
  <2>2. CASE UNCHANGED shown
    <3>1. s = t /\ s.version \in Nat
      BY <2>2 DEF ScreenInv, ScreenTypeOK, OneLoad
    <3>2. QED
      BY <3>1
  <2>3. QED
    BY <2>1, <2>2 DEF ScreenNext, screenVars, Tick, Refresh, Read, LoadFails, Configured, Act, Carried,
                      ReloadAfter, Copy, GoToCopy, ChangedElsewhere, Switch, Same
<1>2. QED
  BY <1>1, ScreenInductive, PTL DEF ScreenSpec, ShownNeverOlder

(***************************************************************************)
(* Dashboard.                                                              *)
(***************************************************************************)

\* An answer: a rule that is not there has nothing the matter with it, and a node that does not
\* answer has none.
AnswerOk(s) ==
    /\ s \in Statuses
    /\ ~s.answers => s.state = "absent"
    /\ s.state = "absent" => s.cert = "none" /\ s.acme = "none" /\ ~s.full

\* The inductive invariant.
DashInv ==
    /\ \A n \in 1..DashNodes : AnswerOk(answers[n])
    /\ uiRow.place \in {"group", "first"}
    /\ Visible \subseteq 1..DashNodes
    /\ Admin => Visible = 1..DashNodes
    /\ shownTab \in Visible \union {0}

\* What may be answered at first.
LEMMA AnswersStart ==
    ASSUME NEW x \in Matters \union Few
    PROVE  AnswerOk(x)
<1>1. Status \in Statuses
  BY DEF Status, Statuses
<1>2. Status.answers /\ ~Status.full
  BY DEF Status
<1>3. Status.state = "running" /\ Status.cert = "none" /\ Status.acme = "none"
  BY DEF Status
<1>4. CASE x \in Matters
  BY <1>4 DEF Matters, AnswerOk
<1>7. CASE x = Status
  BY <1>1, <1>2, <1>3, <1>7 DEF AnswerOk
<1>8. CASE x = NotThere
  <2>1. x \in Statuses /\ x.state = "absent" /\ x.cert = "none" /\ x.acme = "none"
    BY <1>1, <1>3, <1>8 DEF NotThere, Statuses
  <2>2. x.full = Status.full
    BY <1>1, <1>8 DEF NotThere, Statuses
  <2>3. QED
    BY <1>2, <2>1, <2>2 DEF AnswerOk
<1>9. CASE x = Down
  <2>1. x \in Statuses /\ x.state = "absent" /\ x.cert = "none" /\ x.acme = "none"
    BY <1>1, <1>3, <1>9 DEF Down, Statuses
  <2>2. x.full = Status.full
    BY <1>1, <1>9 DEF Down, Statuses
  <2>3. QED
    BY <1>2, <2>1, <2>2 DEF AnswerOk
<1>10. CASE x = [Status EXCEPT !.origin = "api"]
  <2>1. x \in Statuses /\ x.state = "running"
    BY <1>1, <1>3, <1>10 DEF Statuses
  <2>2. x.answers = Status.answers
    BY <1>1, <1>10 DEF Statuses
  <2>3. QED
    BY <1>2, <2>1, <2>2 DEF AnswerOk
<1>11. CASE x \in Few
  BY <1>7, <1>8, <1>9, <1>10, <1>11, Zenon DEF Few
<1>12. QED
  BY <1>4, <1>11

\* The dashboard when it is opened.
LEMMA DashStart == DashInit => DashInv
<1> SUFFICES ASSUME DashInit PROVE DashInv
  OBVIOUS
<1>1. \A n \in 1..DashNodes : answers[n] \in Matters \union Few
  BY DEF DashInit
<1>2. \A n \in 1..DashNodes : AnswerOk(answers[n])
  BY <1>1, AnswersStart
<1>3. uiRow.place \in {"group", "first"}
  BY DEF DashInit, DashKeys
<1>4. Visible \subseteq 1..DashNodes /\ (Admin => Visible = 1..DashNodes)
  <2>1. CASE viewer = [role |-> "admin", sees |-> 1..DashNodes]
    BY <2>1 DEF Visible, Admin
  <2>2. CASE \E S \in SUBSET (1..DashNodes) : viewer = [role |-> "user", sees |-> S]
    BY <2>2 DEF Visible, Admin
  <2>3. QED
    BY <2>1, <2>2, Zenon DEF DashInit
<1>5. QED
  BY <1>2, <1>3, <1>4 DEF DashInv, DashInit

\* The invariant: what may be answered, and the tab of a node that is seen.
THEOREM DashInductive == DashSpec => []DashInv
<1>1. DashInv /\ [DashNext]_dashVars => DashInv'
  BY DEF DashInv, DashNext, SelectTab, dashVars, Visible, Admin
<1>2. QED
  BY <1>1, DashStart, PTL DEF DashSpec

\* Places have nodes, which are some of those there are.
LEMMA MembersFacts ==
    ASSUME DashInv
    PROVE  /\ Members(uiRow.place) \subseteq 1..DashNodes /\ 1 \in Members(uiRow.place)
           /\ IsFiniteSet(Members(uiRow.place)) /\ Members(uiRow.place) \subseteq Nat
<1>1. 1..DashNodes \subseteq Nat /\ 1 \in 1..DashNodes /\ IsFiniteSet(1..DashNodes)
  BY DashAssumption, FS_Interval
<1>2. Members(uiRow.place) \subseteq 1..DashNodes /\ 1 \in Members(uiRow.place)
  BY <1>1 DEF DashInv, Members
<1>3. QED
  BY <1>1, <1>2, FS_Subset

\* The rule is there for the viewer to see.
There(n) == n \in Visible /\ answers[n].state # "absent" /\ ~Unseen(<<"ui", 0>>, answers[n])

\* A node's state says what is the matter with the rule on it.
LEMMA NodeFacts ==
    ASSUME DashInv, NEW n \in 1..DashNodes
    PROVE  /\ NodeState(n).node = n
           /\ NodeState(n).state \in {"failed", "missing", "unknown", "running", "paused"}
           /\ NodeState(n).state = "paused" <=> uiRow.paused
           /\ NodeState(n).state \in {"failed", "missing"} <=> n \in Visible /\ BrokenAt(<<"ui", 0>>, n)
           /\ NodeState(n).full /\ NodeState(n).state = "running" <=> n \in Visible /\ FullAt(<<"ui", 0>>, n)
           /\ NodeState(n).drift <=> n \in Visible /\ DriftAt(<<"ui", 0>>, n)
           /\ NodeState(n).cert = IF There(n) THEN answers[n].cert ELSE "none"
           /\ NodeState(n).acme = IF There(n) THEN answers[n].acme ELSE "none"
<1>1. PICK s : s = answers[n]
  OBVIOUS
<1>2. AnswerOk(s)
  BY <1>1 DEF DashInv
<1>3. PICK heard, known :
        /\ heard = (n \in Visible /\ s.answers)
        /\ known = (heard /\ s.state # "absent" /\ ~(~Admin /\ Shadowing(s)))
  OBVIOUS
<1>4. PICK x : x = NodeState(n)
  OBVIOUS
<1>5. x = [node |-> n,
           state |-> IF uiRow.paused THEN "paused" ELSE IF ~heard THEN "unknown"
                     ELSE IF known THEN s.state ELSE "missing",
           cert |-> IF known THEN s.cert ELSE "none",
           acme |-> IF known THEN s.acme ELSE "none",
           full |-> known /\ s.full,
           drift |-> known /\ (uiRow.paused \/ s.differs)]
  BY <1>1, <1>3, <1>4 DEF NodeState
<1>6. known <=> There(n)
  BY <1>1, <1>2, <1>3 DEF There, Unseen, AnswerOk
<1>7. <<"ui", 0>>[1] = "ui"
  OBVIOUS
<1>8. /\ x.node = n
      /\ x.state = IF uiRow.paused THEN "paused" ELSE IF ~heard THEN "unknown"
                   ELSE IF known THEN s.state ELSE "missing"
      /\ x.cert = IF known THEN s.cert ELSE "none"
      /\ x.acme = IF known THEN s.acme ELSE "none"
  BY <1>5
<1>9. x.full <=> known /\ s.full
  BY <1>5
<1>10. x.drift <=> known /\ (uiRow.paused \/ s.differs)
  BY <1>5
<1>11. s.state \in {"running", "failed", "absent"}
  BY <1>2 DEF AnswerOk, Statuses
<1>12. /\ x.state \in {"failed", "missing", "unknown", "running", "paused"}
       /\ x.state = "paused" <=> uiRow.paused
  <2>1. CASE uiRow.paused
    BY <1>8, <2>1
  <2>2. CASE ~uiRow.paused
    <3>1. x.state \in {"unknown", "missing"} \/ (x.state = s.state /\ known)
      BY <1>8, <2>2
    <3>2. known => s.state \in {"failed", "running"}
      BY <1>3, <1>11
    <3>3. QED
      BY <2>2, <3>1, <3>2
  <2>3. QED
    BY <2>1, <2>2
<1>13. x.state \in {"failed", "missing"} <=> n \in Visible /\ BrokenAt(<<"ui", 0>>, n)
  BY <1>1, <1>3, <1>7, <1>8, <1>11 DEF BrokenAt, Unseen, Shadowing
<1>14. x.full /\ x.state = "running" <=> n \in Visible /\ FullAt(<<"ui", 0>>, n)
  BY <1>1, <1>2, <1>3, <1>7, <1>8, <1>9, <1>11 DEF FullAt, Unseen, AnswerOk
<1>15. x.drift <=> n \in Visible /\ DriftAt(<<"ui", 0>>, n)
  BY <1>1, <1>3, <1>7, <1>10 DEF DriftAt, Unseen
<1>16. QED
  BY <1>1, <1>4, <1>6, <1>8, <1>12, <1>13, <1>14, <1>15

\* A node of some is the first.
LEMMA LeastNode ==
    ASSUME NEW S \in SUBSET Nat, S # {}
    PROVE  \E n \in S : \A m \in S : n <= m
<1>1. PICK n \in S : \A m \in S : ~(<<m, n>> \in OpToRel(<, Nat))
  BY NatLessThanWellFounded, WFMin
<1>2. \A m \in S : m \in Nat /\ n \in Nat
  OBVIOUS
<1>3. \A m \in S : ~(m < n)
  BY <1>1, <1>2 DEF OpToRel
<1>4. QED
  BY <1>2, <1>3

States == {NodeState(n) : n \in Members(uiRow.place)}

\* The rule of the UI has a state for each node of its place.
LEMMA StatesFacts ==
    ASSUME DashInv
    PROVE  /\ \A x \in States : x.node \in Members(uiRow.place) /\ x = NodeState(x.node)
           /\ \A n \in Members(uiRow.place) : NodeState(n) \in States /\ NodeState(n).node = n
           /\ States # {} /\ IsFiniteSet(States)
<1>1. /\ Members(uiRow.place) \subseteq 1..DashNodes /\ 1 \in Members(uiRow.place)
      /\ IsFiniteSet(Members(uiRow.place))
  BY MembersFacts
<1>2. \A n \in Members(uiRow.place) : NodeState(n).node = n
  BY <1>1, NodeFacts
<1>3. PICK f : f = [n \in Members(uiRow.place) |-> NodeState(n)]
  OBVIOUS
<1>4. f \in Surjection(Members(uiRow.place), States)
  BY <1>3 DEF Surjection, States
<1>5. IsFiniteSet(States)
  BY <1>1, <1>4, FS_Surjection
<1>6. QED
  BY <1>1, <1>2, <1>5 DEF States

\* The first of some states.
LEMMA FirstFacts ==
    ASSUME DashInv, NEW S \in SUBSET States, S # {}
    PROVE  FirstOf(S) \in S /\ \A x \in S : FirstOf(S).node <= x.node
<1>1. PICK T : T = {x.node : x \in S}
  OBVIOUS
<1>2. T \in SUBSET Nat /\ T # {}
  BY <1>1, StatesFacts, MembersFacts
<1>3. PICK n \in T : \A m \in T : n <= m
  BY <1>2, LeastNode
<1>4. PICK x \in S : x.node = n
  BY <1>1, <1>3
<1>5. \A y \in S : x.node <= y.node
  BY <1>1, <1>3, <1>4
<1>6. \E y \in S : \A z \in S : y.node <= z.node
  BY <1>5
<1>7. QED
  BY <1>6 DEF FirstOf

\* The worst state is one of them, and has failed or is missing if any is so.
LEMMA WorstState ==
    ASSUME DashInv
    PROVE  /\ \E x \in States : FirstState(StateOrder, States) = x.state
           /\ \A x \in States : x.state \in {"failed", "missing"}
                                   => FirstState(StateOrder, States) \in {"failed", "missing"}
<1>1. \A x \in States : x.state \in {"failed", "missing", "unknown", "running", "paused"}
  BY StatesFacts, MembersFacts, NodeFacts
<1>2. PICK o : o = StateOrder
  OBVIOUS
<1>3. /\ DOMAIN o = 1..5
      /\ o[1] = "failed" /\ o[2] = "missing" /\ o[3] = "unknown" /\ o[4] = "running" /\ o[5] = "paused"
  BY <1>2 DEF StateOrder
<1>4. DEFINE At(i) == \E n \in States : n.state = o[i]
             Is(i) == At(i) /\ \A j \in 1..(i - 1) : \A n \in States : n.state # o[j]
<1>5. \E i \in 1..5 : At(i)
  BY <1>1, <1>3, StatesFacts
<1>6. PICK T : T = {i \in 1..5 : At(i)}
  OBVIOUS
<1>7. PICK k \in T : \A i \in T : k <= i
  <2>1. T \in SUBSET Nat /\ T # {}
    BY <1>5, <1>6
  <2>2. QED
    BY <2>1, LeastNode
<1>8. k \in 1..5 /\ Is(k)
  <2>1. k \in 1..5 /\ At(k)
    BY <1>6, <1>7
  <2>2. \A j \in 1..(k - 1) : j \in 1..5 /\ ~(k <= j)
    BY <2>1
  <2>3. \A j \in 1..(k - 1) : ~At(j)
    BY <1>6, <1>7, <2>2
  <2>4. QED
    BY <2>1, <2>3
<1>9. PICK i \in 1..5 : i = CHOOSE h \in DOMAIN o : Is(h)
  <2>1. \E i \in DOMAIN o : Is(i)
    BY <1>3, <1>8
  <2>2. (CHOOSE h \in DOMAIN o : Is(h)) \in DOMAIN o
    BY <2>1
  <2>3. QED
    BY <1>3, <2>2
<1>10. Is(i) /\ FirstState(o, States) = o[i]
  <2>1. \E h \in DOMAIN o : Is(h)
    BY <1>3, <1>8
  <2>2. Is(CHOOSE h \in DOMAIN o : Is(h))
    BY <2>1
  <2>3. Is(i)
    BY <1>9, <2>2
  <2>4. FirstState(o, States) = o[i]
    BY <1>9 DEF FirstState
  <2>5. QED
    BY <2>3, <2>4
<1>11. \A x \in States : x.state \in {"failed", "missing"} => o[i] \in {"failed", "missing"}
  <2>1. CASE i = 1 \/ i = 2
    BY <1>3, <2>1
  <2>2. CASE i \in 3..5
    <3>1. 1 \in 1..(i - 1) /\ 2 \in 1..(i - 1)
      BY <2>2
    <3>2. QED
      BY <1>3, <1>10, <3>1
  <2>3. QED
    BY <1>9, <2>1, <2>2
<1>12. QED
  BY <1>2, <1>10, <1>11

\* The rules that are listed, with the nodes they are listed for.
LEMMA ListedFacts ==
    ASSUME DashInv
    PROVE  /\ UiRule.id = <<"ui", 0>> /\ UiRule.nodes = States
           /\ \A n \in 1..DashNodes :
                 /\ External(n).id = <<"external", n>>
                 /\ \A x \in External(n).nodes : x.node = n
                 /\ \E x \in External(n).nodes : x.node = n
           /\ \A r \in listed : \/ OwnRow /\ r = UiRule
                                \/ \E n \in 1..DashNodes : HasExternal(n) /\ r = External(n)
           /\ OwnRow => UiRule \in listed
           /\ \A n \in 1..DashNodes : HasExternal(n) => External(n) \in listed
<1>1. UiRule.id = <<"ui", 0>> /\ UiRule.nodes = States
  BY DEF UiRule, States
<1>2. ASSUME NEW n \in 1..DashNodes
      PROVE  /\ External(n).id = <<"external", n>>
             /\ \A x \in External(n).nodes : x.node = n
             /\ \E x \in External(n).nodes : x.node = n
  <2>1. External(n).id = <<"external", n>>
    BY DEF External
  <2>2. PICK state : External(n).nodes = {[node |-> n, state |-> state, cert |-> "none",
                       acme |-> "none", full |-> answers[n].full, drift |-> FALSE]}
    BY DEF External
  <2>3. QED
    BY <2>1, <2>2
<1>3. \A r \in listed : \/ OwnRow /\ r = UiRule
                        \/ \E n \in 1..DashNodes : HasExternal(n) /\ r = External(n)
  BY DEF listed
<1>4. OwnRow => UiRule \in listed
  BY DEF listed
<1>5. \A n \in 1..DashNodes : HasExternal(n) => External(n) \in listed
  BY DEF listed
<1>6. QED
  BY <1>1, <1>2, <1>3, <1>4, <1>5

\* What a node runs under the key is listed once, by the row or by what the node says.
LEMMA ListedOnce == DashInv => EachRuleOnce
<1> SUFFICES ASSUME DashInv, NEW n \in Visible
             PROVE  Cardinality({r \in listed : \E s \in r.nodes : s.node = n}) =
                      IF UsedAt(n) THEN 1
                      ELSE IF answers[n].state = "absent" THEN (IF Admin /\ n \in apiRows THEN 1 ELSE 0)
                      ELSE IF Admin \/ answers[n].origin = "static" THEN 1 ELSE 0
  BY DEF EachRuleOnce
<1>1. n \in 1..DashNodes
  BY DEF DashInv
<1>2. PICK L : L = {r \in listed : \E s \in r.nodes : s.node = n}
  OBVIOUS
<1>3. \A r \in L : \/ UsedAt(n) /\ r = UiRule
                   \/ HasExternal(n) /\ r = External(n)
  BY <1>2, ListedFacts, StatesFacts DEF UsedAt
<1>4. UsedAt(n) => UiRule \in L
  BY <1>2, ListedFacts, StatesFacts DEF UsedAt
<1>5. HasExternal(n) => External(n) \in L
  BY <1>1, <1>2, ListedFacts
<1>6. CASE UsedAt(n)
  <2>1. L = {UiRule}
    BY <1>3, <1>4, <1>6 DEF HasExternal
  <2>2. QED
    BY <1>2, <1>6, <2>1, FS_Singleton
<1>7. CASE ~UsedAt(n) /\ HasExternal(n)
  <2>1. L = {External(n)}
    BY <1>3, <1>5, <1>7
  <2>2. Cardinality(L) = 1
    BY <2>1, FS_Singleton
  <2>3. QED
    BY <1>2, <1>7, <2>2 DEF HasExternal
<1>8. CASE ~UsedAt(n) /\ ~HasExternal(n)
  <2>1. Cardinality(L) = 0
    BY <1>3, <1>8, FS_EmptySet
  <2>2. QED
    BY <1>2, <1>8, <2>1 DEF HasExternal
<1>9. QED
  BY <1>6, <1>7, <1>8

\* The rule as a tab shows it is the same rule.
LEMMA ProjectedFacts ==
    ASSUME DashInv, NEW n \in 1..DashNodes, NEW r \in listed, \E x \in r.nodes : x.node = n
    PROVE  \E one \in r.nodes :
              /\ one.node = n
              /\ projected(r, n).id = r.id /\ projected(r, n).nodes = {one} /\ projected(r, n).ha = r.ha
              /\ projected(r, n).state = one.state /\ projected(r, n).cert = one.cert
              /\ projected(r, n).acme = one.acme
<1>1. PICK id, nodes, cert, acme, state, ha :
         r = [id |-> id, nodes |-> nodes, cert |-> cert, acme |-> acme, state |-> state, ha |-> ha]
  BY ListedFacts DEF UiRule, External
<1>2. PICK one \in r.nodes : one = CHOOSE x \in r.nodes : x.node = n
  OBVIOUS
<1>3. one.node = n
  BY <1>2
<1>4. projected(r, n) = [r EXCEPT !.nodes = {one}, !.state = one.state, !.cert = one.cert, !.acme = one.acme]
  BY <1>2 DEF projected
<1>5. QED
  BY <1>1, <1>3, <1>4

\* What is shown is a rule that is listed, or such a rule in a tab.
LEMMA ShownFacts ==
    ASSUME DashInv, NEW r \in shownRules
    PROVE  \E q \in listed :
              /\ r.id = q.id
              /\ \/ shownTab = 0 /\ r = q
                 \/ /\ shownTab \in Visible /\ r = projected(q, shownTab)
                    /\ \E x \in q.nodes : x.node = shownTab
<1>1. CASE shownTab = 0
  BY <1>1 DEF shownRules
<1>2. CASE shownTab # 0
  <2>1. shownTab \in Visible /\ shownTab \in 1..DashNodes
    BY <1>2 DEF DashInv
  <2>2. PICK q \in listed : r = projected(q, shownTab) /\ \E x \in q.nodes : x.node = shownTab
    BY <1>2 DEF shownRules
  <2>3. r.id = q.id
    BY <2>1, <2>2, ProjectedFacts
  <2>4. QED
    BY <2>1, <2>2, <2>3
<1>3. QED
  BY <1>1, <1>2

\* The link of a rule of another origin is of its node, where the row is not.
LEMMA LinksOpen == DashInv => LinkOpensRule
<1> SUFFICES ASSUME DashInv, NEW r \in shownRules,
                    Link(r).place \subseteq Visible, Link(r).address # "other"
             PROVE  PageOf(Link(r)) \subseteq listed /\ \E x \in PageOf(Link(r)) : x.id = r.id
  <2>1. \A r \in shownRules : ~(Link(r).place \subseteq Visible) => PageOf(Link(r)) = {}
    BY DEF PageOf
  <2>2. QED
    BY <2>1 DEF LinkOpensRule
<1>1. PICK q \in listed : r.id = q.id
  BY ShownFacts
<1>2. PICK link : link = Link(r)
  OBVIOUS
<1>3. /\ link.place = (IF r.id[1] = "external" THEN {r.id[2]} ELSE Members(uiRow.place))
      /\ link.address = "own" /\ link.place \subseteq Visible
  BY <1>2 DEF Link
<1>4. CASE OwnRow /\ q = UiRule
  <2>1. r.id = <<"ui", 0>> /\ link.place = Members(uiRow.place)
    BY <1>1, <1>3, <1>4, ListedFacts
  <2>2. PageOf(link) = {UiRule}
    BY <1>3, <1>4, <2>1 DEF PageOf
  <2>3. QED
    BY <1>1, <1>2, <1>4, <2>2, ListedFacts
<1>5. ASSUME NEW n \in 1..DashNodes, HasExternal(n), q = External(n)
      PROVE  PageOf(Link(r)) \subseteq listed /\ \E x \in PageOf(Link(r)) : x.id = r.id
  <2>1. r.id = <<"external", n>> /\ link.place = {n}
    BY <1>1, <1>3, <1>5, ListedFacts
  <2>2. ~(OwnRow /\ link.place = Members(uiRow.place))
    BY <1>5, <2>1 DEF HasExternal, UsedAt
  <2>3. PICK running : running = {m \in link.place : /\ link.address = "own" \/ m = DashNodes
                                                     /\ answers[m].state # "absent"
                                                     /\ Admin \/ answers[m].origin = "static"}
    OBVIOUS
  <2>4. PICK rows : rows = IF Admin /\ link.address = "own" THEN link.place \intersect apiRows ELSE {}
    OBVIOUS
  <2>5. running \subseteq {n} /\ rows \subseteq {n} /\ (running # {} \/ rows # {})
    BY <1>3, <1>5, <2>1, <2>3, <2>4 DEF HasExternal
  <2>6. (CHOOSE k \in {n} : \A j \in {n} : k <= j) = n
    <3>1. n <= n
      BY DashAssumption
    <3>2. QED
      BY <3>1
  <2>7. PageOf(link) = IF running # {} THEN {External(CHOOSE k \in running : \A j \in running : k <= j)}
                       ELSE {External(CHOOSE k \in rows : \A j \in rows : k <= j) : i \in rows}
    BY <1>3, <2>2, <2>3, <2>4 DEF PageOf
  <2>8. PageOf(link) = {External(n)}
    <3>1. CASE running # {}
      <4>1. running = {n}
        BY <2>5, <3>1
      <4>2. QED
        BY <2>6, <2>7, <3>1, <4>1
    <3>2. CASE running = {}
      <4>1. rows = {n}
        BY <2>5, <3>2
      <4>2. QED
        BY <2>6, <2>7, <3>2, <4>1
    <3>3. QED
      BY <3>1, <3>2
  <2>9. QED
    BY <1>1, <1>2, <1>5, <2>8
<1>6. QED
  BY <1>4, <1>5, ListedFacts

\* The row's certificates are those of a node, and so is what it says of ACME.
LEMMA CertFacts ==
    ASSUME DashInv
    PROVE  /\ UiRule.cert # "none" => \E x \in States : /\ x.cert = UiRule.cert
                                                        /\ \A y \in States : y.cert # "none" => x.node <= y.node
           /\ (\E x \in States : x.cert # "none") => UiRule.cert # "none"
           /\ \E x \in States : /\ x.acme = UiRule.acme
                                /\ \A y \in States : acmeRank(y.acme) <= acmeRank(x.acme)
                                /\ \A y \in States : acmeRank(y.acme) = acmeRank(x.acme) => x.node <= y.node
<1>1. PICK certs : certs = {n \in States : n.cert # "none"}
  OBVIOUS
<1>2. PICK worst : worst = {n \in States : \A m \in States : acmeRank(m.acme) <= acmeRank(n.acme)}
  OBVIOUS
<1>3. PICK all : all = aggregate(States)
  OBVIOUS
<1>4. /\ all.cert = IF certs = {} THEN "none" ELSE FirstOf(certs).cert
      /\ all.acme = FirstOf(worst).acme
  BY <1>1, <1>2, <1>3 DEF aggregate
<1>5. UiRule.cert = all.cert /\ UiRule.acme = all.acme
  <2>1. UiRule.cert = aggregate(States).cert
    BY Zenon DEF UiRule, States
  <2>2. UiRule.acme = aggregate(States).acme
    BY Zenon DEF UiRule, States
  <2>3. QED
    BY <1>3, <2>1, <2>2
<1>6. (\E x \in States : x.cert # "none") => UiRule.cert # "none"
  <2>1. CASE certs = {}
    BY <1>1, <2>1
  <2>2. CASE certs # {}
    BY <1>1, <1>4, <1>5, <2>2, FirstFacts
  <2>3. QED
    BY <2>1, <2>2
<1>7. ASSUME UiRule.cert # "none"
      PROVE  \E x \in States : /\ x.cert = UiRule.cert
                                /\ \A y \in States : y.cert # "none" => x.node <= y.node
  <2>1. certs # {}
    BY <1>4, <1>5, <1>7
  <2>2. FirstOf(certs) \in certs /\ \A y \in certs : FirstOf(certs).node <= y.node
    BY <1>1, <2>1, FirstFacts
  <2>3. QED
    BY <1>1, <1>4, <1>5, <2>1, <2>2
<1>8. \A x \in States : acmeRank(x.acme) \in 0..3
  BY DEF acmeRank
<1>9. \E x \in States : \A m \in States : acmeRank(m.acme) <= acmeRank(x.acme)
  <2>1. PICK k : k \in 0..3 /\ (\E x \in States : acmeRank(x.acme) = k)
    BY <1>8, StatesFacts
  <2>2. CASE \E x \in States : acmeRank(x.acme) = 3
    BY <1>8, <2>2
  <2>3. CASE (\A x \in States : acmeRank(x.acme) # 3) /\ \E x \in States : acmeRank(x.acme) = 2
    BY <1>8, <2>3
  <2>4. CASE (\A x \in States : acmeRank(x.acme) \notin {2, 3}) /\ \E x \in States : acmeRank(x.acme) = 1
    BY <1>8, <2>4
  <2>5. CASE \A x \in States : acmeRank(x.acme) = 0
    BY <2>1, <2>5
  <2>6. QED
    BY <1>8, <2>2, <2>3, <2>4, <2>5
<1>10. FirstOf(worst) \in worst /\ \A y \in worst : FirstOf(worst).node <= y.node
  BY <1>2, <1>9, FirstFacts
<1>11. /\ FirstOf(worst) \in States /\ FirstOf(worst).acme = UiRule.acme
       /\ \A y \in States : acmeRank(y.acme) <= acmeRank(FirstOf(worst).acme)
  BY <1>2, <1>4, <1>5, <1>10
<1>12. ASSUME NEW y \in States, acmeRank(y.acme) = acmeRank(FirstOf(worst).acme)
       PROVE  FirstOf(worst).node <= y.node
  <2>1. y \in worst
    BY <1>2, <1>11, <1>12
  <2>2. QED
    BY <1>10, <2>1
<1>13. QED
  BY <1>6, <1>7, <1>11, <1>12

\* What is said of a rule is what is the matter with it on the nodes.
Told(r) ==
    /\ Broken(r) <=> \E n \in Nodes(r.id) : BrokenAt(r.id, n)
    /\ targetFull(r) <=> \E n \in Nodes(r.id) : FullAt(r.id, n)
    /\ (\E x \in r.nodes : x.drift) <=> \E n \in Nodes(r.id) : DriftAt(r.id, n)
    /\ certIssue(r) => \E n \in Nodes(r.id) : CertAt(r.id, n)
    /\ (\E n \in Nodes(r.id) : CertAt(r.id, n)) => certIssue(r) \/ Overlooked(r.id) \/ LeftOut(r.id)
    /\ r.ha # "fine" <=> r.id[1] = "ui" /\ uiRow.place = "group" /\ haWarning # "fine"

\* A rule of which all that is told is listed for what is the matter with it, and twice for two things.
LEMMA ListedForTrouble ==
    ASSUME NEW r, Told(r)
    PROVE  /\ OtherTrouble(r.id) => timesListed(r) > 0
           /\ CertTrouble(r.id) => timesListed(r) > 0 \/ Overlooked(r.id) \/ LeftOut(r.id)
           /\ timesListed(r) > 0 => OtherTrouble(r.id) \/ CertTrouble(r.id)
           /\ timesListed(r) > 1 => (\E n \in Nodes(r.id) : BrokenAt(r.id, n)) /\ (\E n \in Nodes(r.id) : FullAt(r.id, n))
<1>1. DEFINE all == {"broken", "certs", "fulls", "issues"}
             holdsOf(part) == CASE part = "broken" -> Broken(r)
                                [] part = "certs" -> ~Broken(r) /\ certIssue(r)
                                [] part = "fulls" -> ~certIssue(r) /\ targetFull(r)
                                [] OTHER -> NodeIssues(r)
             parts == {part \in all : holdsOf(part)}
<1>2. timesListed(r) = Cardinality(parts)
  BY DEF timesListed
<1>3. /\ "broken" \in parts <=> Broken(r)
      /\ "certs" \in parts <=> ~Broken(r) /\ certIssue(r)
      /\ "fulls" \in parts <=> ~certIssue(r) /\ targetFull(r)
      /\ "issues" \in parts <=> NodeIssues(r)
  OBVIOUS
<1>4. IsFiniteSet(parts)
  <2>1. IsFiniteSet({"broken", "certs", "fulls", "issues"})
    <3>1. IsFiniteSet({"broken"} \union {"certs"})
      BY FS_Singleton, FS_AddElement
    <3>2. IsFiniteSet(({"broken"} \union {"certs"}) \union {"fulls"})
      BY <3>1, FS_AddElement
    <3>3. IsFiniteSet((({"broken"} \union {"certs"}) \union {"fulls"}) \union {"issues"})
      BY <3>2, FS_AddElement
    <3>4. (({"broken"} \union {"certs"}) \union {"fulls"}) \union {"issues"} = all
      OBVIOUS
    <3>5. QED
      BY <3>3, <3>4
  <2>2. parts \subseteq {"broken", "certs", "fulls", "issues"}
    OBVIOUS
  <2>3. QED
    BY <2>1, <2>2, FS_Subset
<1>5. parts \subseteq {"broken", "certs", "fulls", "issues"}
  OBVIOUS
<1>6. timesListed(r) > 0 <=> Broken(r) \/ certIssue(r) \/ targetFull(r) \/ nodeIssue(r)
  <2>1. Cardinality(parts) \in Nat /\ (Cardinality(parts) = 0 <=> parts = {})
    BY <1>4, FS_CardinalityType, FS_EmptySet
  <2>2. parts # {} <=> Broken(r) \/ certIssue(r) \/ targetFull(r) \/ nodeIssue(r)
    BY <1>3, <1>5 DEF NodeIssues
  <2>3. QED
    BY <1>2, <2>1, <2>2
<1>7. ASSUME timesListed(r) > 1
      PROVE  Broken(r) /\ targetFull(r)
  <2>1. \A p : ~(parts = {} \/ parts = {p})
    <3>1. ASSUME NEW p, parts = {} \/ parts = {p}
          PROVE  FALSE
      <4>1. Cardinality(parts) = 0 \/ Cardinality(parts) = 1
        BY <3>1, FS_EmptySet, FS_Singleton
      <4>2. QED
        BY <1>2, <1>7, <4>1
    <3>2. QED
      BY <3>1
  <2>2. \E p, q \in parts : p # q
    BY <2>1
  <2>3. QED
    BY <1>3, <1>5, <2>2 DEF NodeIssues
<1>8. OtherTrouble(r.id) => Broken(r) \/ targetFull(r) \/ nodeIssue(r)
  BY DEF Told, OtherTrouble, nodeIssue
<1>9. CertTrouble(r.id) => certIssue(r) \/ Overlooked(r.id) \/ LeftOut(r.id)
  BY DEF Told, CertTrouble
<1>10. certIssue(r) => CertTrouble(r.id)
  BY DEF Told, CertTrouble
<1>11. Broken(r) \/ targetFull(r) \/ nodeIssue(r) => OtherTrouble(r.id)
  BY DEF Told, OtherTrouble, nodeIssue
<1>12. QED
  BY <1>6, <1>7, <1>8, <1>9, <1>10, <1>11 DEF Told

\* What a single node says is told.
LEMMA OneNode ==
    ASSUME NEW r, NEW one, NEW n, r.nodes = {one}, Nodes(r.id) = {n},
           r.state = one.state,
           one.state \in {"failed", "missing"} <=> BrokenAt(r.id, n),
           one.full /\ one.state = "running" <=> FullAt(r.id, n),
           one.drift <=> DriftAt(r.id, n),
           r.cert = "bad" \/ r.acme \in {"waiting", "error"} => CertAt(r.id, n),
           CertAt(r.id, n) => r.cert = "bad" \/ r.acme \in {"waiting", "error"} \/ LeftOut(r.id),
           r.ha # "fine" <=> r.id[1] = "ui" /\ uiRow.place = "group" /\ haWarning # "fine"
    PROVE  Told(r)
<1>1. Cardinality(r.nodes) = 1
  <2>1. Cardinality({one}) = 1
    BY FS_Singleton
  <2>2. QED
    BY <2>1
<1>2. targetFull(r) <=> FullAt(r.id, n)
  BY <1>1 DEF targetFull
<1>3. Broken(r) <=> BrokenAt(r.id, n)
  BY DEF Broken
<1>4. /\ certIssue(r) => CertAt(r.id, n)
      /\ CertAt(r.id, n) => certIssue(r) \/ LeftOut(r.id)
  BY DEF certIssue
<1>5. (\E x \in r.nodes : x.drift) <=> DriftAt(r.id, n)
  OBVIOUS
<1>6. QED
  BY <1>2, <1>3, <1>4, <1>5, Zenon DEF Told

\* A rule of another origin is on one node, and in the tab of it only its certificates are left out.
LEMMA ExternalTold ==
    ASSUME DashInv, NEW n \in 1..DashNodes, HasExternal(n), NEW r,
           r.id = External(n).id, r.nodes = External(n).nodes, r.ha = External(n).ha,
           r.state = External(n).state,
           \/ shownTab = 0 /\ r.cert = External(n).cert /\ r.acme = External(n).acme
           \/ shownTab = n /\ r.cert = "none" /\ r.acme = "none"
    PROVE  Told(r)
<1>1. PICK s : s = answers[n]
  OBVIOUS
<1>2. AnswerOk(s)
  BY <1>1 DEF DashInv
<1>3. PICK state : state = IF s.state # "absent" THEN s.state ELSE IF s.answers THEN "missing" ELSE "unknown"
  OBVIOUS
<1>4. PICK one : one = [node |-> n, state |-> state, cert |-> "none", acme |-> "none", full |-> s.full, drift |-> FALSE]
  OBVIOUS
<1>5. External(n) = [id |-> <<"external", n>>, nodes |-> {one}, cert |-> s.cert, acme |-> s.acme,
                     state |-> state, ha |-> "fine"]
  BY <1>1, <1>3, <1>4 DEF External
<1>6. /\ r.nodes = {one} /\ r.ha = "fine" /\ r.id = <<"external", n>>
      /\ r.state = state
      /\ shownTab = 0 => r.cert = s.cert /\ r.acme = s.acme
      /\ shownTab # 0 => r.cert = "none" /\ r.acme = "none"
  BY <1>5, DashAssumption
<1>7. one.state = state
  BY <1>4
<1>8. (one.full <=> s.full) /\ ~one.drift
  BY <1>4
<1>9. r.id[1] = "external" /\ r.id[2] = n
  BY <1>6
<1>10. Nodes(r.id) = {n}
  <2>1. n \in Visible
    BY DEF HasExternal
  <2>2. QED
    BY <1>9, <2>1 DEF Nodes
<1>11. ~Unseen(r.id, s)
  BY <1>9 DEF Unseen
<1>12. s.state \in {"running", "failed", "absent"}
  BY <1>2 DEF AnswerOk, Statuses
<1>13. one.state \in {"failed", "missing"} <=> BrokenAt(r.id, n)
  BY <1>1, <1>2, <1>3, <1>7, <1>9, <1>11, <1>12 DEF BrokenAt, AnswerOk
<1>14. one.full /\ one.state = "running" <=> FullAt(r.id, n)
  BY <1>1, <1>3, <1>7, <1>8, <1>9, <1>11, <1>12 DEF FullAt
<1>15. one.drift <=> DriftAt(r.id, n)
  BY <1>8, <1>9 DEF DriftAt
<1>16. /\ r.cert = "bad" \/ r.acme \in {"waiting", "error"} => CertAt(r.id, n)
       /\ CertAt(r.id, n) => r.cert = "bad" \/ r.acme \in {"waiting", "error"} \/ LeftOut(r.id)
  BY <1>1, <1>6, <1>9, <1>11 DEF CertAt, LeftOut
<1>17. r.ha # "fine" <=> r.id[1] = "ui" /\ uiRow.place = "group" /\ haWarning # "fine"
  BY <1>6, <1>9
<1>18. QED
  BY <1>6, <1>7, <1>10, <1>13, <1>14, <1>15, <1>16, <1>17, OneNode

\* What a node says of the certificates of the row's rule is the matter there.
LEMMA NodeCerts ==
    ASSUME DashInv, NEW n \in 1..DashNodes
    PROVE  /\ NodeState(n).cert = "bad" \/ NodeState(n).acme \in {"waiting", "error"}
                 <=> n \in Visible /\ CertAt(<<"ui", 0>>, n)
           /\ NodeState(n).cert # "none" => n \in Visible /\ answers[n].cert = NodeState(n).cert
           /\ NodeState(n).acme # "none" => n \in Visible /\ answers[n].acme = NodeState(n).acme
<1>1. PICK s : s = answers[n]
  OBVIOUS
<1>2. AnswerOk(s)
  BY <1>1 DEF DashInv
<1>3. /\ NodeState(n).cert = IF There(n) THEN s.cert ELSE "none"
      /\ NodeState(n).acme = IF There(n) THEN s.acme ELSE "none"
  BY <1>1, NodeFacts
<1>4. QED
  BY <1>1, <1>2, <1>3 DEF There, CertAt, AnswerOk

\* The row's rule for all nodes.
LEMMA RowTold ==
    ASSUME DashInv, shownTab = 0
    PROVE  Told(UiRule)
<1>1. PICK id : id = <<"ui", 0>>
  OBVIOUS
<1>2. UiRule.id = id /\ UiRule.nodes = States /\ id[1] = "ui"
  BY <1>1, ListedFacts
<1>3. Nodes(id) = Members(uiRow.place) \intersect Visible
  BY <1>2 DEF Nodes
<1>4. UiRule.state = IF uiRow.paused THEN "paused" ELSE FirstState(StateOrder, States)
  <2>1. aggregate(States).state = FirstState(StateOrder, States)
    BY DEF aggregate
  <2>2. UiRule.state = IF uiRow.paused THEN "paused" ELSE aggregate(States).state
    BY Zenon DEF UiRule, States
  <2>3. QED
    BY <2>1, <2>2
<1>5. \A n \in Members(uiRow.place) : n \in 1..DashNodes
  BY MembersFacts
<1>6. Broken(UiRule) <=> \E n \in Nodes(id) : BrokenAt(id, n)
  <2>1. (\E n \in Nodes(id) : BrokenAt(id, n)) <=> \E x \in States : x.state \in {"failed", "missing"}
    BY <1>1, <1>3, <1>5, StatesFacts, NodeFacts
  <2>2. CASE uiRow.paused
    <3>1. \A x \in States : x.state = "paused"
      BY <1>5, <2>2, StatesFacts, NodeFacts
    <3>2. QED
      BY <1>4, <2>1, <2>2, <3>1 DEF Broken
  <2>3. CASE ~uiRow.paused
    BY <1>4, <2>1, <2>3, WorstState DEF Broken
  <2>4. QED
    BY <2>2, <2>3
<1>7. targetFull(UiRule) <=> \E n \in Nodes(id) : FullAt(id, n)
  <2>1. (\E n \in Nodes(id) : FullAt(id, n)) <=> \E x \in States : x.full /\ x.state = "running"
    BY <1>1, <1>3, <1>5, StatesFacts, NodeFacts
  <2>2. CASE Cardinality(States) > 1
    BY <1>2, <2>1, <2>2 DEF targetFull
  <2>3. CASE ~(Cardinality(States) > 1)
    <3>1. PICK one : States = {one}
      <4>1. Cardinality(States) \in Nat /\ Cardinality(States) # 0
        BY StatesFacts, FS_CardinalityType, FS_EmptySet
      <4>2. Cardinality(States) = 1
        BY <2>3, <4>1
      <4>3. QED
        BY <4>2, StatesFacts, FS_Singleton
    <3>2. UiRule.state = one.state
      <4>1. FirstState(StateOrder, States) = one.state
        BY <3>1, WorstState
      <4>2. uiRow.paused => one.state = "paused"
        BY <1>5, <3>1, StatesFacts, NodeFacts
      <4>3. QED
        BY <1>4, <4>1, <4>2
    <3>3. QED
      BY <1>2, <2>1, <2>3, <3>1, <3>2 DEF targetFull
  <2>4. QED
    BY <2>2, <2>3
<1>8. (\E x \in States : x.drift) <=> \E n \in Nodes(id) : DriftAt(id, n)
  BY <1>1, <1>3, <1>5, StatesFacts, NodeFacts
<1>9. \A x \in States : x.cert = "bad" \/ x.acme \in {"waiting", "error"}
                           <=> x.node \in Nodes(id) /\ CertAt(id, x.node)
  BY <1>1, <1>3, <1>5, StatesFacts, NodeCerts
<1>10. ASSUME certIssue(UiRule)
       PROVE  \E n \in Nodes(id) : CertAt(id, n)
  <2>1. \E x \in States : x.cert = "bad" \/ x.acme \in {"waiting", "error"}
    BY <1>10, CertFacts DEF certIssue
  <2>2. QED
    BY <1>9, <2>1
<1>11. ASSUME NEW n \in Nodes(id), CertAt(id, n), ~certIssue(UiRule)
       PROVE  Overlooked(id)
  <2>1. n \in Members(uiRow.place) /\ n \in Nat
    BY <1>3, MembersFacts
  <2>2. PICK y \in States : y = NodeState(n) /\ y.node = n
    BY <2>1, StatesFacts
  <2>3. y.cert = "bad" \/ y.acme \in {"waiting", "error"}
    BY <1>9, <1>11, <2>2
  <2>4. ASSUME NEW x \in States, x.cert # "none" \/ x.acme # "none"
        PROVE  /\ x.node \in Nodes(id) /\ x.node \in Nat
               /\ x.cert # "none" => answers[x.node].cert = x.cert
               /\ x.acme # "none" => answers[x.node].acme = x.acme
    <3>1. x.node \in Members(uiRow.place) /\ x = NodeState(x.node)
      BY StatesFacts
    <3>2. QED
      BY <1>3, <1>5, <2>4, <3>1, MembersFacts, NodeCerts
  <2>5. CASE y.cert = "bad"
    <3>1. UiRule.cert # "none"
      BY <2>5, CertFacts
    <3>2. PICK x \in States : x.cert = UiRule.cert /\ x.node <= n
      BY <2>2, <2>5, <3>1, CertFacts
    <3>3. x.cert # "bad"
      BY <1>11, <3>2 DEF certIssue
    <3>4. x.node # n
      BY <2>2, <2>5, <3>3, StatesFacts
    <3>5. x.node \in Nodes(id) /\ x.node < n
      BY <2>1, <2>4, <3>1, <3>2, <3>4
    <3>6. answers[x.node].cert # "none" /\ answers[n].cert = "bad"
      BY <2>2, <2>4, <2>5, <3>1, <3>2
    <3>7. QED
      BY <3>5, <3>6 DEF Overlooked
  <2>6. CASE y.acme \in {"waiting", "error"}
    <3>1. PICK x \in States : /\ x.acme = UiRule.acme
                              /\ acmeRank(y.acme) <= acmeRank(x.acme)
                              /\ acmeRank(y.acme) = acmeRank(x.acme) => x.node <= n
      BY <2>2, CertFacts
    <3>2. x.acme \notin {"waiting", "error"}
      BY <1>11, <3>1 DEF certIssue
    <3>3. x.acme \in {"none", "valid", "pending"}
      <4>1. x.acme # "none" => answers[x.node].acme = x.acme /\ x.node \in 1..DashNodes
        BY <1>5, <2>4, StatesFacts
      <4>2. \A m \in 1..DashNodes : answers[m].acme \in {"none", "valid", "pending", "waiting", "error"}
        BY DEF DashInv, AnswerOk, Statuses
      <4>3. QED
        BY <3>2, <4>1, <4>2
    <3>4. x.acme = "pending" /\ y.acme = "waiting" /\ acmeRank(y.acme) = acmeRank(x.acme)
      BY <2>6, <3>1, <3>3 DEF acmeRank
    <3>5. x.node # n
      BY <2>2, <3>4, StatesFacts
    <3>6. x.node \in Nodes(id) /\ x.node < n
      BY <2>1, <2>4, <3>1, <3>4, <3>5
    <3>7. answers[x.node].acme = "pending" /\ answers[n].acme = "waiting"
      BY <2>2, <2>4, <3>4
    <3>8. QED
      BY <3>6, <3>7 DEF Overlooked
  <2>7. QED
    BY <2>3, <2>5, <2>6
<1>12. UiRule.ha # "fine" <=> uiRow.place = "group" /\ haWarning # "fine"
  <2>1. UiRule.ha = IF uiRow.place = "group" THEN haWarning ELSE "fine"
    BY Zenon DEF UiRule
  <2>2. QED
    BY <2>1
<1>13. QED
  BY <1>2, <1>6, <1>7, <1>8, <1>10, <1>11, <1>12, Zenon DEF Told

\* The row's rule in the tab of a node.
LEMMA RowInTabTold ==
    ASSUME DashInv, shownTab \in Members(uiRow.place), shownTab \in Visible, NEW r,
           r.id = <<"ui", 0>>, r.nodes = {NodeState(shownTab)}, r.ha = UiRule.ha,
           r.state = NodeState(shownTab).state, r.cert = NodeState(shownTab).cert,
           r.acme = NodeState(shownTab).acme
    PROVE  Told(r)
<1>1. PICK one : one = NodeState(shownTab)
  OBVIOUS
<1>2. shownTab \in 1..DashNodes /\ shownTab # 0 /\ r.id[1] = "ui"
  BY DEF DashInv
<1>3. Nodes(r.id) = {shownTab}
  BY <1>2 DEF Nodes
<1>4. /\ one.state \in {"failed", "missing"} <=> BrokenAt(r.id, shownTab)
      /\ one.full /\ one.state = "running" <=> FullAt(r.id, shownTab)
      /\ one.drift <=> DriftAt(r.id, shownTab)
  BY <1>1, <1>2, NodeFacts
<1>5. one.cert = "bad" \/ one.acme \in {"waiting", "error"} <=> CertAt(r.id, shownTab)
  BY <1>1, <1>2, NodeCerts
<1>6. r.ha # "fine" <=> r.id[1] = "ui" /\ uiRow.place = "group" /\ haWarning # "fine"
  <2>1. UiRule.ha = IF uiRow.place = "group" THEN haWarning ELSE "fine"
    BY Zenon DEF UiRule
  <2>2. QED
    BY <1>2, <2>1
<1>7. QED
  BY <1>1, <1>3, <1>4, <1>5, <1>6, OneNode

\* Each rule that is shown says what is the matter with it.
LEMMA ShownTold ==
    ASSUME DashInv, NEW r \in shownRules
    PROVE  Told(r)
<1>1. PICK q \in listed :
         /\ r.id = q.id
         /\ \/ shownTab = 0 /\ r = q
            \/ /\ shownTab \in Visible /\ r = projected(q, shownTab)
               /\ \E x \in q.nodes : x.node = shownTab
  BY ShownFacts
<1>2. CASE shownTab = 0
  <2>1. r = q
    BY <1>1, <1>2 DEF DashInv
  <2>2. CASE q = UiRule
    BY <1>2, <2>1, <2>2, RowTold
  <2>3. CASE \E n \in 1..DashNodes : HasExternal(n) /\ q = External(n)
    BY <1>2, <2>1, <2>3, ExternalTold
  <2>4. QED
    BY <2>2, <2>3, ListedFacts
<1>3. CASE shownTab # 0
  <2>1. /\ shownTab \in Visible /\ shownTab \in 1..DashNodes
        /\ r = projected(q, shownTab) /\ \E x \in q.nodes : x.node = shownTab
    BY <1>1, <1>3 DEF DashInv
  <2>2. PICK one \in q.nodes :
           /\ one.node = shownTab
           /\ r.id = q.id /\ r.nodes = {one} /\ r.ha = q.ha
           /\ r.state = one.state /\ r.cert = one.cert /\ r.acme = one.acme
    BY <2>1, ProjectedFacts
  <2>3. CASE q = UiRule
    <3>1. one = NodeState(shownTab) /\ shownTab \in Members(uiRow.place)
      BY <2>2, <2>3, ListedFacts, StatesFacts
    <3>2. QED
      BY <2>1, <2>2, <2>3, <3>1, ListedFacts, RowInTabTold
  <2>4. ASSUME NEW n \in 1..DashNodes, HasExternal(n), q = External(n)
        PROVE  Told(r)
    <3>1. shownTab = n
      BY <2>2, <2>4, ListedFacts
    <3>2. one.state = q.state /\ one.cert = "none" /\ one.acme = "none"
      <4>1. PICK state, s : External(n) =
              [id |-> <<"external", n>>,
               nodes |-> {[node |-> n, state |-> state, cert |-> "none", acme |-> "none", full |-> s.full, drift |-> FALSE]},
               cert |-> s.cert, acme |-> s.acme, state |-> state, ha |-> "fine"]
        BY DEF External
      <4>2. PICK only : only = [node |-> n, state |-> state, cert |-> "none", acme |-> "none",
                                full |-> s.full, drift |-> FALSE]
        OBVIOUS
      <4>3. only.state = state /\ only.cert = "none" /\ only.acme = "none"
        BY <4>2
      <4>4. q.nodes = {only} /\ q.state = state
        BY <2>4, <4>1, <4>2
      <4>5. QED
        BY <2>2, <4>3, <4>4
    <3>3. {one} = q.nodes
      <4>1. \E x : q.nodes = {x}
        BY <2>4 DEF External
      <4>2. QED
        BY <4>1
    <3>4. QED
      BY <2>2, <2>4, <3>1, <3>2, <3>3, ExternalTold
  <2>5. QED
    BY <2>3, <2>4, ListedFacts
<1>4. QED
  BY <1>2, <1>3

\* The list of rules that need attention points at those with troubles.
LEMMA AttentionTold == DashInv => AttentionIsComplete
<1> SUFFICES ASSUME DashInv PROVE AttentionIsComplete
  OBVIOUS
<1>1. \A r \in shownRules : Told(r)
  BY ShownTold
<1>2. ASSUME NEW n \in Visible, OwnRow, n \in Members(uiRow.place)
      PROVE  /\ FailedAt(n) <=> BrokenAt(<<"ui", 0>>, n)
             /\ DriftedAt(n) <=> DriftAt(<<"ui", 0>>, n)
  <2>1. n \in 1..DashNodes
    BY DEF DashInv
  <2>2. NodeState(n).state \in {"failed", "missing"} <=> BrokenAt(<<"ui", 0>>, n)
    BY <2>1, NodeFacts
  <2>3. NodeState(n).drift <=> DriftAt(<<"ui", 0>>, n)
    BY <2>1, NodeFacts
  <2>4. \A s \in UiRule.nodes : s.node = n <=> s = NodeState(n)
    BY <1>2, ListedFacts, StatesFacts
  <2>5. NodeState(n) \in UiRule.nodes
    BY <1>2, ListedFacts, StatesFacts
  <2>6. FailedAt(n) <=> NodeState(n).state \in {"failed", "missing"}
    BY <1>2, <2>4, <2>5 DEF FailedAt
  <2>7. DriftedAt(n) <=> NodeState(n).drift
    BY <1>2, <2>4, <2>5, Zenon DEF DriftedAt
  <2>8. QED
    BY <2>2, <2>3, <2>6, <2>7
<1>3. QED
  BY <1>1, <1>2, ListedForTrouble, Zenon DEF AttentionIsComplete

\* The list has every rule once, points at those with troubles, and opens them, whatever the nodes answer.
THEOREM ListTrue == DashSpec => []ListIsTrue
<1>1. DashInv => ListIsTrue
  BY ListedOnce, AttentionTold, LinksOpen DEF ListIsTrue
<1>2. QED
  BY <1>1, DashInductive, PTL

(***************************************************************************)
(* The HTTP part of a rule while it is edited.  HttpInv: the names that    *)
(* routes, services and lists use are names of what there is; only a       *)
(* mirror or an errors page may keep the name of a service that is gone.   *)
(***************************************************************************)

\* What is changed of a sequence stays one of its kind.
LEMMA SeqChanged ==
    ASSUME NEW T, NEW s \in Seq(T)
    PROVE  /\ DOMAIN s = 1..Len(s) /\ Len(s) \in Nat
           /\ \A i \in DOMAIN s : s[i] \in T
           /\ \A e \in T : Append(s, e) \in Seq(T)
           /\ \A i \in DOMAIN s : RemoveAt(s, i) \in Seq(T)
           /\ \A i \in DOMAIN s : \A e \in T : [s EXCEPT ![i] = e] \in Seq(T)
           /\ \A i \in 1 .. Len(s) - 1 : Moved(s, i) \in Seq(T)
<1>1. DOMAIN s = 1..Len(s) /\ Len(s) \in Nat /\ \A i \in DOMAIN s : s[i] \in T
  BY LenProperties, ElementOfSeq
<1>2. \A e \in T : Append(s, e) \in Seq(T)
  BY AppendProperties
<1>3. ASSUME NEW i \in DOMAIN s
      PROVE  RemoveAt(s, i) \in Seq(T)
  <2>1. SubSeq(s, 1, i - 1) \in Seq(T)
    BY <1>1, <1>3, SubSeqProperties
  <2>2. SubSeq(s, i + 1, Len(s)) \in Seq(T)
    BY <1>1, <1>3, SubSeqProperties
  <2>3. QED
    BY <2>1, <2>2, ConcatProperties DEF RemoveAt
<1>4. \A i \in DOMAIN s : \A e \in T : [s EXCEPT ![i] = e] \in Seq(T)
  BY <1>1, ExceptSeq
<1>5. ASSUME NEW i \in 1 .. Len(s) - 1
      PROVE  Moved(s, i) \in Seq(T)
  <2>1. i \in 1..Len(s) /\ i + 1 \in 1..Len(s) /\ i \in DOMAIN s /\ i + 1 \in DOMAIN s
    BY <1>1, <1>5
  <2>2. PICK t : t = [s EXCEPT ![i] = s[i + 1]]
    OBVIOUS
  <2>5. s[i + 1] \in T /\ s[i] \in T
    BY <1>1, <2>1
  <2>6. t \in Seq(T) /\ Len(t) = Len(s)
    BY <2>1, <2>2, <2>5, ExceptSeq
  <2>3. [t EXCEPT ![i + 1] = s[i]] \in Seq(T)
    BY <1>1, <2>1, <2>5, <2>6, ExceptSeq
  <2>4. QED
    BY <2>2, <2>3 DEF Moved
<1>6. QED
  BY <1>1, <1>2, <1>3, <1>4, <1>5

\* A sequence mapped.
LEMMA SeqOfMapped ==
    ASSUME NEW T, NEW n \in Nat, NEW f, f = [i \in 1..n |-> f[i]], \A i \in 1..n : f[i] \in T
    PROVE  f \in Seq(T)
BY SeqDef

\* A sequence whose members are all of another kind is one of that kind.
LEMMA SeqInto ==
    ASSUME NEW A, NEW B, NEW s \in Seq(A), \A i \in DOMAIN s : s[i] \in B
    PROVE  s \in Seq(B)
<1>1. Len(s) \in Nat /\ DOMAIN s = 1..Len(s) /\ s = [i \in 1..Len(s) |-> s[i]]
  BY LenProperties
<1>2. QED
  BY <1>1, SeqOfMapped

\* A list without a name: as many names as are left, each of them one that was left.
LEMMA UnlistedLists ==
    ASSUME NEW T, NEW list \in Seq(T), NEW a
    PROVE  Unlisted(list, a) \in Seq(T \ {a})
<1>1. DOMAIN list = 1..Len(list) /\ Len(list) \in Nat /\ \A i \in DOMAIN list : list[i] \in T
  BY SeqChanged
<1>2. PICK kept : kept = {k \in DOMAIN list : list[k] # a}
  OBVIOUS
<1>3. PICK nth : nth = [i \in 1 .. Cardinality(kept) |-> CHOOSE k \in kept : Cardinality({j \in kept : j <= k}) = i]
  OBVIOUS
<1>4. Unlisted(list, a) = [i \in 1 .. Cardinality(kept) |-> list[nth[i]]]
  BY <1>2, <1>3 DEF Unlisted
<1>5. IsFiniteSet(kept) /\ Cardinality(kept) \in Nat /\ kept \subseteq Nat
  <2>1. kept \subseteq 1..Len(list) /\ kept \subseteq Nat
    BY <1>1, <1>2
  <2>2. IsFiniteSet(1..Len(list))
    BY <1>1, FS_Interval
  <2>3. QED
    BY <2>1, <2>2, FS_Subset, FS_CardinalityType
<1>6. ASSUME NEW k \in kept
      PROVE  IsFiniteSet({j \in kept : j <= k}) /\ Cardinality({j \in kept : j <= k}) \in 1 .. Cardinality(kept)
  <2>1. {j \in kept : j <= k} \subseteq kept /\ k \in {j \in kept : j <= k}
    BY <1>5
  <2>2. /\ IsFiniteSet({j \in kept : j <= k}) /\ Cardinality({j \in kept : j <= k}) \in Nat
        /\ Cardinality({j \in kept : j <= k}) <= Cardinality(kept)
    BY <1>5, <2>1, FS_Subset, FS_CardinalityType
  <2>3. Cardinality({j \in kept : j <= k}) # 0
    BY <2>1, <2>2, FS_EmptySet
  <2>4. QED
    BY <1>5, <2>2, <2>3
<1>7. PICK rank : rank = [k \in kept |-> Cardinality({j \in kept : j <= k})]
  OBVIOUS
<1>8. rank \in [kept -> 1 .. Cardinality(kept)]
  BY <1>6, <1>7
<1>9. ASSUME NEW k \in kept, NEW l \in kept, k < l
      PROVE  rank[k] < rank[l]
  <2>1. PICK lower : lower = {j \in kept : j <= k}
    OBVIOUS
  <2>2. PICK upper : upper = {j \in kept : j <= l}
    OBVIOUS
  <2>3. lower \union {l} \subseteq upper /\ l \notin lower
    <3>1. k \in Nat /\ l \in Nat
      BY <1>5
    <3>2. l \in upper /\ l \notin lower
      BY <1>9, <2>1, <2>2, <3>1
    <3>3. \A j \in kept : j <= k => j <= l
      BY <1>5, <1>9, <3>1
    <3>4. QED
      BY <2>1, <2>2, <3>2, <3>3
  <2>4. IsFiniteSet(lower) /\ IsFiniteSet(upper) /\ Cardinality(lower) \in Nat /\ Cardinality(upper) \in Nat
    BY <1>6, <2>1, <2>2, FS_CardinalityType
  <2>5. Cardinality(lower \union {l}) = Cardinality(lower) + 1
    BY <2>3, <2>4, FS_AddElement
  <2>6. Cardinality(lower \union {l}) <= Cardinality(upper)
    BY <2>3, <2>4, FS_Subset
  <2>7. QED
    BY <1>7, <2>1, <2>2, <2>4, <2>5, <2>6
<1>10. \A k, l \in kept : rank[k] = rank[l] => k = l
  <2>1. \A k \in kept : rank[k] \in Nat /\ k \in Nat
    BY <1>5, <1>8
  <2>2. QED
    BY <1>9, <2>1
<1>11. rank \in Surjection(kept, 1 .. Cardinality(kept))
  <2>1. rank \in Injection(kept, 1 .. Cardinality(kept))
    BY <1>8, <1>10 DEF Injection, IsInjective
  <2>2. IsFiniteSet(1 .. Cardinality(kept)) /\ Cardinality(1 .. Cardinality(kept)) = Cardinality(kept)
    BY <1>5, FS_Interval
  <2>3. QED
    BY <2>1, <2>2, FS_Injection
<1>12. ASSUME NEW i \in 1 .. Cardinality(kept)
       PROVE  nth[i] \in kept
  <2>1. \E k \in kept : Cardinality({j \in kept : j <= k}) = i
    BY <1>7, <1>11 DEF Surjection
  <2>2. QED
    BY <1>3, <2>1
<1>13. \A i \in 1 .. Cardinality(kept) : list[nth[i]] \in T \ {a}
  BY <1>1, <1>2, <1>12
<1>14. QED
  BY <1>4, <1>5, <1>13, SeqOfMapped

\* A draft of the services S and the middlewares M: routes and servers list middlewares that there are, and
\* routes and the default go to services that there are.  A mirror or an errors page may name any service.
ServerRecs(M) == [goes : {"http", "https", "incomplete", "status"}, list : Seq(M)]
ServiceRecs(M) == [servers : Seq(ServerRecs(M)), options : SUBSET {"h2", "wrong"}, blocks : [Blocks -> Fills]]
RouteRecs(S, M) == [service : S \union {Unset}, to : {"none", "incomplete", "http"}, list : Seq(M), good : BOOLEAN]
MiddlewareRecs == [kind : Kinds, service : Nat, shares : SUBSET {"after_auth", "credentials"}, good : BOOLEAN]
DefaultRecs(S) == [service : S \union {Unset}, status : {Unset, 404, 503}]
DraftsOf(S, M) ==
    [routes : Seq(RouteRecs(S, M)), services : [S -> ServiceRecs(M)], mws : [M -> MiddlewareRecs],
     default : DefaultRecs(S)]

\* The inductive invariant: a name is listed only of what there is.
Named(d, S, M) == S \subseteq Nat \ {Unset} /\ M \subseteq Nat \ {Unset} /\ d \in DraftsOf(S, M)
HttpInv == \E S, M : Named(draft, S, M)

\* What a draft has, has its names.
LEMMA DraftHas ==
    ASSUME NEW d, NEW S, NEW M, Named(d, S, M)
    PROVE  /\ DOMAIN d.services = S /\ DOMAIN d.mws = M
           /\ S \subseteq Nat /\ M \subseteq Nat /\ Unset \notin S /\ Unset \notin M
           /\ d.routes \in Seq(RouteRecs(S, M)) /\ d.services \in [S -> ServiceRecs(M)]
           /\ d.mws \in [M -> MiddlewareRecs] /\ d.default \in DefaultRecs(S)
BY DEF Named, DraftsOf

\* One part of a draft is changed.
LEMMA DraftChanged ==
    ASSUME NEW d, NEW S, NEW M, Named(d, S, M)
    PROVE  /\ \A rs \in Seq(RouteRecs(S, M)) : Named([d EXCEPT !.routes = rs], S, M)
           /\ \A sv \in [S -> ServiceRecs(M)] : Named([d EXCEPT !.services = sv], S, M)
           /\ \A ms \in [M -> MiddlewareRecs] : Named([d EXCEPT !.mws = ms], S, M)
           /\ \A df \in DefaultRecs(S) : Named([d EXCEPT !.default = df], S, M)
BY DEF Named, DraftsOf

\* With more services or middlewares, routes and services are still such.
LEMMA RoutesInto ==
    ASSUME NEW S, NEW M, NEW S2, NEW M2, S \subseteq S2, M \subseteq M2, NEW r \in RouteRecs(S, M)
    PROVE  r \in RouteRecs(S2, M2)
<1>1. r.list \in Seq(M)
  BY DEF RouteRecs
<1>2. r.list \in Seq(M2)
  BY <1>1, SeqChanged, SeqInto
<1>3. QED
  BY <1>2 DEF RouteRecs

\* A service that lists middlewares of a set lists middlewares of a larger one.
LEMMA ServicesInto ==
    ASSUME NEW M, NEW M2, M \subseteq M2, NEW s \in ServiceRecs(M)
    PROVE  s \in ServiceRecs(M2)
<1>1. s.servers \in Seq(ServerRecs(M))
  BY DEF ServiceRecs
<1>2. ASSUME NEW r \in ServerRecs(M)
      PROVE  r \in ServerRecs(M2)
  <2>1. r.list \in Seq(M)
    BY DEF ServerRecs
  <2>2. r.list \in Seq(M2)
    BY <2>1, SeqChanged, SeqInto
  <2>3. QED
    BY <2>2 DEF ServerRecs
<1>3. s.servers \in Seq(ServerRecs(M2))
  BY <1>1, <1>2, SeqChanged, SeqInto
<1>4. QED
  BY <1>3 DEF ServiceRecs

\* An empty list, and what is new.
LEMMA NewIsTyped ==
    ASSUME NEW S, NEW M
    PROVE  /\ <<>> \in Seq(M)
           /\ \A n \in S \union {Unset} : Route(n) \in RouteRecs(S, M)
           /\ \A k \in Kinds : Template(k) \in MiddlewareRecs
           /\ \A g \in {"http", "https", "incomplete", "status"} : Server(g) \in ServerRecs(M) /\ Service(g) \in ServiceRecs(M)
           /\ NoDefault \in DefaultRecs(S)
<1>1. <<>> \in Seq(M)
  BY EmptySeq
<1>2. \A n \in S \union {Unset} : Route(n) \in RouteRecs(S, M)
  BY <1>1 DEF Route, RouteRecs
<1>3. \A k \in Kinds : Template(k) \in MiddlewareRecs
  BY DEF Template, MiddlewareRecs, Unset
<1>4. \A g \in {"http", "https", "incomplete", "status"} : Server(g) \in ServerRecs(M)
  BY <1>1 DEF Server, ServerRecs
<1>5. ASSUME NEW g \in {"http", "https", "incomplete", "status"}
      PROVE  Service(g) \in ServiceRecs(M)
  <2>1. <<Server(g)>> \in Seq(ServerRecs(M))
    BY <1>4
  <2>2. NoBlocks \in [Blocks -> Fills]
    BY DEF NoBlocks, Fills
  <2>3. QED
    BY <2>1, <2>2 DEF Service, ServiceRecs
<1>6. NoDefault \in DefaultRecs(S)
  BY DEF NoDefault, DefaultRecs
<1>7. QED
  BY <1>1, <1>2, <1>3, <1>4, <1>5, <1>6

\* The drafts an editor starts with.
LEMMA HttpStart == HttpInit => HttpInv
<1> SUFFICES ASSUME HttpInit PROVE HttpInv
  OBVIOUS
<1>1. CASE draft = EmptyHttp
  <2>1. <<Route(1)>> \in Seq(RouteRecs({1}, {}))
    <3>1. Route(1) \in RouteRecs({1}, {})
      BY NewIsTyped
    <3>2. QED
      BY <3>1
  <2>2. [n \in {1} |-> Service("http")] \in [{1} -> ServiceRecs({})]
    BY NewIsTyped
  <2>3. [n \in {} |-> {}] \in [{} -> MiddlewareRecs]
    OBVIOUS
  <2>4. NoDefault \in DefaultRecs({1})
    BY NewIsTyped
  <2>5. Named(draft, {1}, {})
    BY <1>1, <2>1, <2>2, <2>3, <2>4 DEF EmptyHttp, Named, DraftsOf, Unset
  <2>6. QED
    BY <2>5 DEF HttpInv
<1>2. CASE draft = RedirectHttp
  <2>1. PICK r : r = [Route(Unset) EXCEPT !.list = <<1>>]
    OBVIOUS
  <2>2. Route(Unset) \in RouteRecs({}, {1}) /\ <<1>> \in Seq({1})
    BY NewIsTyped
  <2>3. r \in RouteRecs({}, {1})
    BY <2>1, <2>2 DEF RouteRecs
  <2>4. [n \in {1} |-> Template("redirect")] \in [{1} -> MiddlewareRecs]
    BY NewIsTyped DEF Kinds
  <2>5. NoDefault \in DefaultRecs({})
    BY NewIsTyped
  <2>6. draft = [routes |-> <<r>>, services |-> [n \in {} |-> {}], mws |-> [n \in {1} |-> Template("redirect")],
                 default |-> NoDefault]
    BY <1>2, <2>1 DEF RedirectHttp
  <2>7. Named(draft, {}, {1})
    BY <2>3, <2>4, <2>5, <2>6 DEF Named, DraftsOf, Unset
  <2>8. QED
    BY <2>7 DEF HttpInv
<1>3. CASE draft = StoredHttp
  <2>1. PICK r : r = [Route(1) EXCEPT !.list = <<1>>]
    OBVIOUS
  <2>2. Route(1) \in RouteRecs({1, 2}, {1, 2}) /\ <<1>> \in Seq({1, 2}) /\ <<2>> \in Seq({1, 2}) /\ <<>> \in Seq({1, 2})
    BY NewIsTyped
  <2>3. r \in RouteRecs({1, 2}, {1, 2})
    BY <2>1, <2>2 DEF RouteRecs
  <2>4. PICK sv : sv = [n \in {1, 2} |-> [servers |-> <<[goes |-> "http", list |-> IF n = 1 THEN <<2>> ELSE <<>>]>>,
                                          options |-> {},
                                          blocks |-> [NoBlocks EXCEPT ![IF n = 1 THEN "tls" ELSE "sticky"] = "empty"]]]
    OBVIOUS
  <2>5. \A n \in {1, 2} : [goes |-> "http", list |-> IF n = 1 THEN <<2>> ELSE <<>>] \in ServerRecs({1, 2})
    BY <2>2 DEF ServerRecs
  <2>6. sv \in [{1, 2} -> ServiceRecs({1, 2})]
    <3>1. \A n \in {1, 2} : sv[n] \in ServiceRecs({1, 2})
      <4> SUFFICES ASSUME NEW n \in {1, 2} PROVE sv[n] \in ServiceRecs({1, 2})
        OBVIOUS
      <4>1. PICK s \in ServerRecs({1, 2}) : s = [goes |-> "http", list |-> IF n = 1 THEN <<2>> ELSE <<>>]
        BY <2>5
      <4>2. PICK k : k = IF n = 1 THEN "tls" ELSE "sticky"
        OBVIOUS
      <4>3. PICK bl \in [Blocks -> Fills] : bl = [NoBlocks EXCEPT ![k] = "empty"]
        BY DEF NoBlocks, Fills
      <4>4. sv[n] = [servers |-> <<s>>, options |-> {}, blocks |-> bl]
        BY <2>4, <4>1, <4>2, <4>3
      <4>5. <<s>> \in Seq(ServerRecs({1, 2}))
        BY <4>1
      <4>6. QED
        BY <4>4, <4>5 DEF ServiceRecs
    <3>2. QED
      BY <2>4, <3>1
  <2>7. PICK ms : ms = [n \in {1, 2} |-> IF n = 1 THEN [Template("mirror") EXCEPT !.service = 2] ELSE Template("headers")]
    OBVIOUS
  <2>8. ms \in [{1, 2} -> MiddlewareRecs]
    <3>1. Template("mirror") \in MiddlewareRecs /\ Template("headers") \in MiddlewareRecs
      BY NewIsTyped DEF Kinds
    <3>2. [Template("mirror") EXCEPT !.service = 2] \in MiddlewareRecs
      BY <3>1 DEF MiddlewareRecs
    <3>3. QED
      BY <2>7, <3>1, <3>2
  <2>9. [service |-> 2, status |-> 404] \in DefaultRecs({1, 2})
    BY DEF DefaultRecs
  <2>10. draft = [routes |-> <<r>>, services |-> sv, mws |-> ms, default |-> [service |-> 2, status |-> 404]]
    BY <1>3, <2>1, <2>4, <2>7, Zenon DEF StoredHttp
  <2>11. Named(draft, {1, 2}, {1, 2})
    BY <2>3, <2>6, <2>8, <2>9, <2>10 DEF Named, DraftsOf, Unset
  <2>12. QED
    BY <2>11 DEF HttpInv
<1>4. QED
  BY <1>1, <1>2, <1>3 DEF HttpInit

\* The list of a route or of a server with one more, one less, or two in another order.
LEMMA ListedIsTyped ==
    ASSUME NEW S, NEW M, Named(draft, S, M), NEW list \in Seq(M)
    PROVE  Listed(list) \subseteq Seq(M)
BY DraftHas, SeqChanged DEF Listed

\* Routes are added, moved, removed and edited.
LEMMA RoutesEdited ==
    ASSUME NEW S, NEW M, Named(draft, S, M), AddRoute \/ MoveRoute \/ RemoveRoute \/ EditRoute
    PROVE  Named(draft', S, M)
<1>1. PICK routes \in Seq(RouteRecs(S, M)) : routes = draft.routes
  BY DraftHas
<1>2. \A rs \in Seq(RouteRecs(S, M)) : Named([draft EXCEPT !.routes = rs], S, M)
  BY DraftChanged
<1>3. DOMAIN draft.services = S
  BY DraftHas
<1>4. CASE AddRoute
  <2>1. PICK n \in S \union {Unset} : draft' = [draft EXCEPT !.routes = Append(@, Route(n))]
    BY <1>3, <1>4 DEF AddRoute, Becomes
  <2>2. Append(routes, Route(n)) \in Seq(RouteRecs(S, M))
    BY NewIsTyped, SeqChanged
  <2>3. QED
    BY <1>1, <1>2, <2>1, <2>2
<1>5. CASE MoveRoute
  <2>1. PICK i \in 1 .. Len(draft.routes) - 1 : draft' = [draft EXCEPT !.routes = Moved(@, i)]
    BY <1>5 DEF MoveRoute, Becomes
  <2>2. Moved(routes, i) \in Seq(RouteRecs(S, M))
    BY <1>1, <2>1, SeqChanged
  <2>3. QED
    BY <1>1, <1>2, <2>1, <2>2
<1>6. CASE RemoveRoute
  <2>1. PICK i \in DOMAIN draft.routes : draft' = [draft EXCEPT !.routes = RemoveAt(@, i)]
    BY <1>6 DEF RemoveRoute, Becomes
  <2>2. RemoveAt(routes, i) \in Seq(RouteRecs(S, M))
    BY <1>1, <2>1, SeqChanged
  <2>3. QED
    BY <1>1, <1>2, <2>1, <2>2
<1>7. CASE EditRoute
  <2>1. PICK i \in DOMAIN draft.routes : \E r \in Targets(draft.routes[i]) \union
                        {[draft.routes[i] EXCEPT !.list = l] : l \in Listed(draft.routes[i].list)} :
           draft' = [draft EXCEPT !.routes[i] = r]
    BY <1>7 DEF EditRoute, Becomes
  <2>2. PICK q \in RouteRecs(S, M) : q = routes[i]
    BY <1>1, <2>1, SeqChanged
  <2>3. Targets(q) \subseteq RouteRecs(S, M)
    <3>1. \A n \in S \union {Unset} : [q EXCEPT !.service = n, !.to = "none"] \in RouteRecs(S, M)
      BY DEF RouteRecs
    <3>2. [q EXCEPT !.good = ~@] \in RouteRecs(S, M)
      BY DEF RouteRecs
    <3>3. [q EXCEPT !.service = Unset, !.to = IF @ = "none" THEN "incomplete" ELSE "http"] \in RouteRecs(S, M)
      BY DEF RouteRecs
    <3>4. DOMAIN draft.services = S
      BY DraftHas
    <3>5. {[q EXCEPT !.service = n, !.to = "none"] : n \in DOMAIN draft.services} \subseteq RouteRecs(S, M)
      BY <3>1, <3>4
    <3>6. [q EXCEPT !.service = Unset, !.to = "none"] \in RouteRecs(S, M)
      BY <3>1
    <3>7. QED
      BY <3>2, <3>3, <3>5, <3>6 DEF Targets
  <2>4. \A l \in Listed(q.list) : [q EXCEPT !.list = l] \in RouteRecs(S, M)
    <3>1. q.list \in Seq(M)
      BY DEF RouteRecs
    <3>2. \A l \in Listed(q.list) : l \in Seq(M)
      BY <3>1, ListedIsTyped
    <3>3. QED
      BY <3>2 DEF RouteRecs
  <2>5. PICK r \in RouteRecs(S, M) : draft' = [draft EXCEPT !.routes[i] = r]
    BY <1>1, <2>1, <2>2, <2>3, <2>4
  <2>6. [routes EXCEPT ![i] = r] \in Seq(RouteRecs(S, M))
    BY <1>1, <2>1, SeqChanged
  <2>7. draft' = [draft EXCEPT !.routes = [routes EXCEPT ![i] = r]]
    BY <1>1, <2>5
  <2>8. QED
    BY <1>2, <2>6, <2>7
<1>8. QED
  BY <1>4, <1>5, <1>6, <1>7

\* The servers of a service after an edit.
LEMMA ServersTyped ==
    ASSUME NEW S, NEW M, Named(draft, S, M), NEW list \in Seq(ServerRecs(M))
    PROVE  Servers(list) \subseteq Seq(ServerRecs(M))
<1>1. \A k \in DOMAIN list : list[k] \in ServerRecs(M)
  BY SeqChanged
<1>2. \A k \in DOMAIN list : \A e \in ServerRecs(M) : [list EXCEPT ![k] = e] \in Seq(ServerRecs(M))
  BY SeqChanged
<1> DEFINE Going(k, g) == [list EXCEPT ![k].goes = g]
<1>3. ASSUME NEW k \in DOMAIN list, NEW g \in {"http", "https", "incomplete"}
      PROVE  Going(k, g) \in Seq(ServerRecs(M))
  <2>1. [list[k] EXCEPT !.goes = g] \in ServerRecs(M)
    BY <1>1 DEF ServerRecs
  <2>2. Going(k, g) = [list EXCEPT ![k] = [list[k] EXCEPT !.goes = g]]
    OBVIOUS
  <2>3. QED
    BY <1>2, <2>1, <2>2
<1>4. ASSUME NEW k \in DOMAIN list
      PROVE  [list EXCEPT ![k] = IF @.goes = "status" THEN Server("incomplete") ELSE Server("status")]
             \in Seq(ServerRecs(M))
  <2>1. Server("incomplete") \in ServerRecs(M) /\ Server("status") \in ServerRecs(M)
    BY NewIsTyped
  <2>2. QED
    BY <1>2, <2>1
<1>5. ASSUME NEW k \in DOMAIN list, NEW l \in Listed(list[k].list)
      PROVE  [list EXCEPT ![k].list = l] \in Seq(ServerRecs(M))
  <2>1. list[k].list \in Seq(M)
    BY <1>1 DEF ServerRecs
  <2>2. l \in Seq(M)
    BY <2>1, ListedIsTyped
  <2>3. [list[k] EXCEPT !.list = l] \in ServerRecs(M)
    BY <1>1, <2>2 DEF ServerRecs
  <2>4. [list EXCEPT ![k].list = l] = [list EXCEPT ![k] = [list[k] EXCEPT !.list = l]]
    OBVIOUS
  <2>5. QED
    BY <1>2, <2>3, <2>4
<1>6. \A k \in DOMAIN list : RemoveAt(list, k) \in Seq(ServerRecs(M))
  BY SeqChanged
<1>7. Append(list, Server("incomplete")) \in Seq(ServerRecs(M))
  BY NewIsTyped, SeqChanged
<1> DEFINE Gone == {Going(k, g) : k \in {j \in DOMAIN list : list[j].goes # "status"},
                                                 g \in {"http", "https", "incomplete"}}
<1> DEFINE Turned ==
      {[list EXCEPT ![k] = IF @.goes = "status" THEN Server("incomplete") ELSE Server("status")] : k \in DOMAIN list}
<1> DEFINE With(k) ==
      {[list EXCEPT ![k].list = l] :
          l \in {j \in Listed(list[k].list) : \A n \in ToSet(j) \ ToSet(list[k].list) : KindOf(draft, n) \in ServerKinds}}
<1> DEFINE Relisting == UNION {With(k) : k \in {j \in DOMAIN list : list[j].goes # "status"}}
<1> DEFINE Fewer == {RemoveAt(list, k) : k \in DOMAIN list}
<1> DEFINE More == IF Len(list) < 2 THEN {Append(list, Server("incomplete"))} ELSE {}
<1>8. Servers(list) = Gone \union Turned \union Relisting \union Fewer \union More
  BY DEF Servers
<1>9. Gone \subseteq Seq(ServerRecs(M))
  <2> HIDE DEF Going
  <2>1. QED
    BY <1>3
<1>10. Turned \subseteq Seq(ServerRecs(M))
  BY <1>4
<1>11. Relisting \subseteq Seq(ServerRecs(M))
  <2>1. \A k \in DOMAIN list : With(k) \subseteq Seq(ServerRecs(M))
    BY <1>5
  <2> HIDE DEF With
  <2>2. QED
    BY <2>1
<1>12. Fewer \subseteq Seq(ServerRecs(M)) /\ More \subseteq Seq(ServerRecs(M))
  BY <1>6, <1>7
<1> HIDE DEF Gone, Turned, Relisting, Fewer, More
<1>13. QED
  BY <1>8, <1>9, <1>10, <1>11, <1>12

\* Services are edited; what they are called stays.
LEMMA ServicesEdited ==
    ASSUME NEW S, NEW M, Named(draft, S, M), EditServer \/ EditService
    PROVE  Named(draft', S, M)
<1>1. PICK services \in [S -> ServiceRecs(M)] : services = draft.services
  BY DraftHas
<1>2. \A n \in S : \A s \in ServiceRecs(M) : Named([draft EXCEPT !.services = [services EXCEPT ![n] = s]], S, M)
  BY DraftChanged
<1>3. CASE EditServer
  <2>1. PICK n \in S : \E s \in Servers(draft.services[n].servers) : draft' = [draft EXCEPT !.services[n].servers = s]
    BY <1>1, <1>3 DEF EditServer, Becomes
  <2>2. PICK s \in Servers(services[n].servers) : draft' = [draft EXCEPT !.services[n].servers = s]
    BY <1>1, <2>1
  <2>3. services[n].servers \in Seq(ServerRecs(M))
    BY <1>1 DEF ServiceRecs
  <2>4. s \in Seq(ServerRecs(M))
    BY <2>2, <2>3, ServersTyped
  <2>5. [services[n] EXCEPT !.servers = s] \in ServiceRecs(M)
    BY <2>4 DEF ServiceRecs
  <2>6. draft' = [draft EXCEPT !.services = [services EXCEPT ![n] = [services[n] EXCEPT !.servers = s]]]
    BY <1>1, <2>2
  <2>7. QED
    BY <1>2, <2>5, <2>6
<1>4. CASE EditService
  <2>1. PICK n \in S :
           \/ \E o \in {"h2", "wrong"} : draft' = [draft EXCEPT !.services[n].options = (@ \ {o}) \union ({o} \ @)]
           \/ \E k \in Blocks, f \in Fills : draft' = [draft EXCEPT !.services[n].blocks[k] = f]
    BY <1>1, <1>4 DEF EditService, Becomes, Blocks
  <2>2. PICK t \in ServiceRecs(M) : t = services[n]
    BY <1>1
  <2>3. ASSUME NEW o \in {"h2", "wrong"}, draft' = [draft EXCEPT !.services[n].options = (@ \ {o}) \union ({o} \ @)]
        PROVE  Named(draft', S, M)
    <3>1. PICK os \in SUBSET {"h2", "wrong"} : os = (t.options \ {o}) \union ({o} \ t.options)
      BY DEF ServiceRecs
    <3>2. [t EXCEPT !.options = os] \in ServiceRecs(M)
      BY DEF ServiceRecs
    <3>3. draft' = [draft EXCEPT !.services = [services EXCEPT ![n] = [t EXCEPT !.options = os]]]
      BY <1>1, <2>2, <2>3, <3>1
    <3>4. QED
      BY <1>2, <3>2, <3>3
  <2>4. ASSUME NEW k \in Blocks, NEW f \in Fills, draft' = [draft EXCEPT !.services[n].blocks[k] = f]
        PROVE  Named(draft', S, M)
    <3>1. PICK bl \in [Blocks -> Fills] : bl = [t.blocks EXCEPT ![k] = f]
      BY DEF ServiceRecs
    <3>2. [t EXCEPT !.blocks = bl] \in ServiceRecs(M)
      BY DEF ServiceRecs
    <3>3. draft' = [draft EXCEPT !.services = [services EXCEPT ![n] = [t EXCEPT !.blocks = bl]]]
      BY <1>1, <2>2, <2>4, <3>1
    <3>4. QED
      BY <1>2, <3>2, <3>3
  <2>5. QED
    BY <2>1, <2>3, <2>4
<1>5. QED
  BY <1>3, <1>4

\* Middlewares and the default are edited.
LEMMA OthersEdited ==
    ASSUME NEW S, NEW M, Named(draft, S, M), EditMiddleware \/ EditDefault
    PROVE  Named(draft', S, M)
<1>1. PICK mws \in [M -> MiddlewareRecs] : mws = draft.mws
  BY DraftHas
<1>2. \A n \in M : \A w \in MiddlewareRecs : Named([draft EXCEPT !.mws = [mws EXCEPT ![n] = w]], S, M)
  BY DraftChanged
<1>3. DOMAIN draft.services = S /\ S \subseteq Nat
  BY DraftHas
<1>4. CASE EditMiddleware
  <2>1. PICK n \in M :
           \/ draft' = [draft EXCEPT !.mws[n].good = ~@]
           \/ \E k \in Kinds : draft' = [draft EXCEPT !.mws[n] = Template(k)]
           \/ \E s \in S : draft' = [draft EXCEPT !.mws[n].service = s]
           \/ \E s \in {"after_auth", "credentials"} : draft' = [draft EXCEPT !.mws[n].shares = (@ \ {s}) \union ({s} \ @)]
    BY <1>1, <1>3, <1>4 DEF EditMiddleware, Becomes
  <2>2. PICK w \in MiddlewareRecs : w = mws[n]
    OBVIOUS
  <2>3. CASE draft' = [draft EXCEPT !.mws[n].good = ~@]
    <3>1. [w EXCEPT !.good = ~@] \in MiddlewareRecs
      BY DEF MiddlewareRecs
    <3>2. draft' = [draft EXCEPT !.mws = [mws EXCEPT ![n] = [w EXCEPT !.good = ~@]]]
      BY <1>1, <2>2, <2>3
    <3>3. QED
      BY <1>2, <3>1, <3>2
  <2>4. CASE \E k \in Kinds : draft' = [draft EXCEPT !.mws[n] = Template(k)]
    <3>1. PICK k \in Kinds : draft' = [draft EXCEPT !.mws[n] = Template(k)]
      BY <2>4
    <3>2. draft' = [draft EXCEPT !.mws = [mws EXCEPT ![n] = Template(k)]]
      BY <1>1, <3>1
    <3>3. QED
      BY <1>2, <3>2, NewIsTyped
  <2>5. CASE \E s \in S : draft' = [draft EXCEPT !.mws[n].service = s]
    <3>1. PICK s \in S : draft' = [draft EXCEPT !.mws[n].service = s]
      BY <2>5
    <3>2. [w EXCEPT !.service = s] \in MiddlewareRecs
      BY <1>3 DEF MiddlewareRecs
    <3>3. draft' = [draft EXCEPT !.mws = [mws EXCEPT ![n] = [w EXCEPT !.service = s]]]
      BY <1>1, <2>2, <3>1
    <3>4. QED
      BY <1>2, <3>2, <3>3
  <2>6. CASE \E s \in {"after_auth", "credentials"} :
               draft' = [draft EXCEPT !.mws[n].shares = (@ \ {s}) \union ({s} \ @)]
    <3>1. PICK s \in {"after_auth", "credentials"} :
             draft' = [draft EXCEPT !.mws[n].shares = (@ \ {s}) \union ({s} \ @)]
      BY <2>6
    <3>2. PICK ss \in SUBSET {"after_auth", "credentials"} : ss = (w.shares \ {s}) \union ({s} \ w.shares)
      BY DEF MiddlewareRecs
    <3>3. [w EXCEPT !.shares = ss] \in MiddlewareRecs
      BY DEF MiddlewareRecs
    <3>4. draft' = [draft EXCEPT !.mws = [mws EXCEPT ![n] = [w EXCEPT !.shares = ss]]]
      BY <1>1, <2>2, <3>1, <3>2
    <3>5. QED
      BY <1>2, <3>3, <3>4
  <2>7. QED
    BY <2>1, <2>3, <2>4, <2>5, <2>6
<1>5. CASE EditDefault
  <2>1. PICK df \in DefaultRecs(S) : df = draft.default
    BY DraftHas
  <2>2. \/ \E s \in S \union {Unset} : draft' = [draft EXCEPT !.default.service = s]
        \/ \E s \in {Unset, 404, 503} : draft' = [draft EXCEPT !.default.status = s]
    BY <1>3, <1>5 DEF EditDefault, Becomes
  <2>3. \A s \in S \union {Unset} : [df EXCEPT !.service = s] \in DefaultRecs(S)
    BY DEF DefaultRecs
  <2>4. \A s \in {Unset, 404, 503} : [df EXCEPT !.status = s] \in DefaultRecs(S)
    BY DEF DefaultRecs
  <2>6. CASE \E s \in S \union {Unset} : draft' = [draft EXCEPT !.default.service = s]
    <3>1. PICK s \in S \union {Unset} : draft' = [draft EXCEPT !.default.service = s]
      BY <2>6
    <3>2. PICK e \in DefaultRecs(S) : e = [df EXCEPT !.service = s]
      BY <2>3
    <3>3. draft' = [draft EXCEPT !.default = e]
      BY <2>1, <3>1, <3>2
    <3>4. QED
      BY <3>3, DraftChanged
  <2>7. CASE \E s \in {Unset, 404, 503} : draft' = [draft EXCEPT !.default.status = s]
    <3>1. PICK s \in {Unset, 404, 503} : draft' = [draft EXCEPT !.default.status = s]
      BY <2>7
    <3>2. PICK e \in DefaultRecs(S) : e = [df EXCEPT !.status = s]
      BY <2>4
    <3>3. draft' = [draft EXCEPT !.default = e]
      BY <2>1, <3>1, <3>2
    <3>4. QED
      BY <3>3, DraftChanged
  <2>8. QED
    BY <2>2, <2>6, <2>7
<1>6. QED
  BY <1>4, <1>5

\* A free name is a number, and nothing has it.
LEMMA FreeIsNew ==
    ASSUME NEW of, DOMAIN of \subseteq Nat \ {Unset}
    PROVE  /\ \A n \in Free(of) : n \in Nat \ {Unset} /\ n \notin DOMAIN of
           /\ Free(of) # {} => UniqueName(of) \in Free(of)
<1>1. \A n \in Free(of) : n \in Nat \ {Unset} /\ n \notin DOMAIN of
  BY HttpAssumption DEF Free, HttpNames, Unset
<1>2. ASSUME Free(of) # {}
      PROVE  UniqueName(of) \in Free(of)
  <2>1. Free(of) \in SUBSET Nat
    BY <1>1
  <2>2. \E n \in Free(of) : \A m \in Free(of) : n <= m
    BY <1>2, <2>1, LeastNode
  <2>3. QED
    BY <2>2 DEF UniqueName
<1>3. QED
  BY <1>1, <1>2

\* A draft is named when its parts are.
LEMMA PartsNamed ==
    ASSUME NEW d, NEW S, NEW M, S \subseteq Nat \ {Unset}, M \subseteq Nat \ {Unset},
           d = [routes |-> d.routes, services |-> d.services, mws |-> d.mws, default |-> d.default],
           d.routes \in Seq(RouteRecs(S, M)), d.services \in [S -> ServiceRecs(M)],
           d.mws \in [M -> MiddlewareRecs], d.default \in DefaultRecs(S)
    PROVE  Named(d, S, M)
BY DEF Named, DraftsOf

\* A service or a middleware is added.
LEMMA ServiceAdded ==
    ASSUME NEW S, NEW M, Named(draft, S, M), AddService
    PROVE  \E S2 : Named(draft', S2, M)
<1>1. PICK u : u = UniqueName(draft.services)
  OBVIOUS
<1>2. u \in Nat \ {Unset} /\ u \notin S
  BY <1>1, DraftHas, FreeIsNew DEF AddService
<1>3. PICK sv : sv = [n \in S \union {u} |-> IF n \in S THEN draft.services[n] ELSE Service("incomplete")]
  OBVIOUS
<1>4. draft' = [draft EXCEPT !.services = sv]
  BY <1>1, <1>3, DraftHas DEF AddService, Becomes
<1>5. sv \in [S \union {u} -> ServiceRecs(M)]
  BY <1>3, NewIsTyped, DraftHas
<1>6. /\ draft' = [routes |-> draft'.routes, services |-> draft'.services, mws |-> draft'.mws, default |-> draft'.default]
      /\ draft'.routes = draft.routes /\ draft'.services = sv /\ draft'.mws = draft.mws /\ draft'.default = draft.default
  BY <1>4 DEF Named, DraftsOf
<1>7. draft.routes \in Seq(RouteRecs(S \union {u}, M))
  <2>1. PICK rs \in Seq(RouteRecs(S, M)) : rs = draft.routes
    BY DraftHas
  <2>2. \A i \in DOMAIN rs : rs[i] \in RouteRecs(S, M)
    BY SeqChanged
  <2>3. \A i \in DOMAIN rs : rs[i] \in RouteRecs(S \union {u}, M)
    BY <2>2, RoutesInto
  <2>4. rs \in Seq(RouteRecs(S \union {u}, M))
    BY <2>3, SeqInto
  <2>5. QED
    BY <2>1, <2>4
<1>8. draft.default \in DefaultRecs(S \union {u})
  BY DraftHas DEF DefaultRecs
<1>9. Named(draft', S \union {u}, M)
  BY <1>2, <1>5, <1>6, <1>7, <1>8, DraftHas, PartsNamed
<1>10. QED
  BY <1>9

\* The name of a new middleware is free, so nothing listed it before (AddMiddleware).
LEMMA MiddlewareAdded ==
    ASSUME NEW S, NEW M, Named(draft, S, M), AddMiddleware
    PROVE  \E M2 : Named(draft', S, M2)
<1>1. PICK u : u = UniqueName(draft.mws)
  OBVIOUS
<1>2. u \in Nat \ {Unset} /\ u \notin M
  BY <1>1, DraftHas, FreeIsNew DEF AddMiddleware
<1>3. PICK k \in Kinds : draft' = [draft EXCEPT !.mws =
        [n \in DOMAIN @ \union {UniqueName(@)} |-> IF n \in DOMAIN @ THEN @[n] ELSE Template(k)]]
  BY DEF AddMiddleware, Becomes
<1>4. PICK ms : ms = [n \in M \union {u} |-> IF n \in M THEN draft.mws[n] ELSE Template(k)]
  OBVIOUS
<1>5. draft' = [draft EXCEPT !.mws = ms]
  BY <1>1, <1>3, <1>4, DraftHas
<1>6. ms \in [M \union {u} -> MiddlewareRecs]
  BY <1>4, NewIsTyped, DraftHas
<1>7. /\ draft' = [routes |-> draft'.routes, services |-> draft'.services, mws |-> draft'.mws, default |-> draft'.default]
      /\ draft'.routes = draft.routes /\ draft'.services = draft.services /\ draft'.mws = ms /\ draft'.default = draft.default
  BY <1>5 DEF Named, DraftsOf
<1>8. draft.routes \in Seq(RouteRecs(S, M \union {u}))
  <2>1. PICK rs \in Seq(RouteRecs(S, M)) : rs = draft.routes
    BY DraftHas
  <2>2. \A i \in DOMAIN rs : rs[i] \in RouteRecs(S, M)
    BY SeqChanged
  <2>3. \A i \in DOMAIN rs : rs[i] \in RouteRecs(S, M \union {u})
    BY <2>2, RoutesInto
  <2>4. rs \in Seq(RouteRecs(S, M \union {u}))
    BY <2>3, SeqInto
  <2>5. QED
    BY <2>1, <2>4
<1>9. draft.services \in [S -> ServiceRecs(M \union {u})]
  <2>1. \A s \in ServiceRecs(M) : s \in ServiceRecs(M \union {u})
    BY ServicesInto
  <2>2. QED
    BY <2>1, DraftHas
<1>10. S \subseteq Nat \ {Unset} /\ M \union {u} \subseteq Nat \ {Unset} /\ draft.default \in DefaultRecs(S)
  BY <1>2, DraftHas
<1>12. Named(draft', S, M \union {u})
  <2>1. draft'.routes \in Seq(RouteRecs(S, M \union {u})) /\ draft'.services \in [S -> ServiceRecs(M \union {u})]
    BY <1>7, <1>8, <1>9
  <2>2. draft'.mws \in [M \union {u} -> MiddlewareRecs] /\ draft'.default \in DefaultRecs(S)
    BY <1>6, <1>7, <1>10
  <2>3. QED
    BY <1>7, <1>10, <2>1, <2>2, PartsNamed
<1>13. QED
  BY <1>12

\* The names after one of them was changed to b, or taken out (Unset).
After(S, a, b) == IF b = Unset THEN S \ {a} ELSE (S \ {a}) \union {b}

\* Routes and the default follow a service's name.
LEMMA ServiceFollowed ==
    ASSUME NEW S, NEW M, NEW a, NEW b
    PROVE  /\ \A rs \in Seq(RouteRecs(S, M)) : Followed(rs, a, b) \in Seq(RouteRecs(After(S, a, b), M))
           /\ \A df \in DefaultRecs(S) : [df EXCEPT !.service = To(@, a, b)] \in DefaultRecs(After(S, a, b))
<1>1. \A n \in S \union {Unset} : To(n, a, b) \in After(S, a, b) \union {Unset}
  BY DEF To, After
<1>2. \A r \in RouteRecs(S, M) : [r EXCEPT !.service = To(@, a, b)] \in RouteRecs(After(S, a, b), M)
  BY <1>1 DEF RouteRecs
<1>3. ASSUME NEW rs \in Seq(RouteRecs(S, M))
      PROVE  Followed(rs, a, b) \in Seq(RouteRecs(After(S, a, b), M))
  <2>1. DOMAIN rs = 1..Len(rs) /\ Len(rs) \in Nat /\ \A i \in DOMAIN rs : rs[i] \in RouteRecs(S, M)
    BY SeqChanged
  <2>2. PICK fs : fs = Followed(rs, a, b)
    OBVIOUS
  <2>3. fs = [i \in 1..Len(rs) |-> fs[i]] /\ \A i \in 1..Len(rs) : fs[i] = [rs[i] EXCEPT !.service = To(@, a, b)]
    BY <2>1, <2>2 DEF Followed
  <2>4. \A i \in 1..Len(rs) : fs[i] \in RouteRecs(After(S, a, b), M)
    BY <1>2, <2>1, <2>3
  <2>5. QED
    BY <2>1, <2>2, <2>3, <2>4, SeqOfMapped
<1>4. \A df \in DefaultRecs(S) : [df EXCEPT !.service = To(@, a, b)] \in DefaultRecs(After(S, a, b))
  BY <1>1 DEF DefaultRecs
<1>5. QED
  BY <1>3, <1>4

\* What a renaming of a service makes of a draft.
ServiceRenamed(d, e, a, b) ==
    /\ e = [routes |-> e.routes, services |-> e.services, mws |-> e.mws, default |-> e.default]
    /\ e.services = Renamed(d.services, a, b)
    /\ e.mws = MirrorsRenamed(d.mws, a, b)
    /\ e.routes = Followed(d.routes, a, b)
    /\ e.default = [d.default EXCEPT !.service = To(@, a, b)]

\* RenameService carries the new name to the mirrors, the routes and the default.
LEMMA RenamedIs ==
    ASSUME NEW S, NEW M, Named(draft, S, M), RenameService
    PROVE  \E a \in S, b \in Free(draft.services) : ServiceRenamed(draft, draft', a, b)
<1>1. PICK a \in DOMAIN draft.services, b \in Free(draft.services) :
         draft' = [draft EXCEPT !.services = Renamed(@, a, b), !.mws = MirrorsRenamed(@, a, b),
                                !.routes = Followed(@, a, b), !.default.service = To(@, a, b)]
  BY DEF RenameService
<1>2. ServiceRenamed(draft, draft', a, b)
  BY <1>1 DEF ServiceRenamed, Named, DraftsOf
<1>3. QED
  BY <1>2, DraftHas

\* The service of a middleware is a number, whatever it is called.
LEMMA MirrorsTyped ==
    ASSUME NEW M, NEW mws \in [M -> MiddlewareRecs], NEW a, NEW b \in Nat
    PROVE  MirrorsRenamed(mws, a, b) \in [M -> MiddlewareRecs]
<1>1. \A w \in MiddlewareRecs : [w EXCEPT !.service = To(@, a, b)] \in MiddlewareRecs
  BY DEF MiddlewareRecs, To
<1>2. QED
  BY <1>1 DEF MirrorsRenamed

\* A service is renamed, or removed.
LEMMA ServiceRenamedIsNamed ==
    ASSUME NEW S, NEW M, Named(draft, S, M), RenameService
    PROVE  \E S2 : Named(draft', S2, M)
<1>1. PICK a \in S, b \in Free(draft.services) : ServiceRenamed(draft, draft', a, b)
  BY RenamedIs
<1>2. b \in Nat \ {Unset} /\ b \notin S /\ S \subseteq Nat \ {Unset} /\ M \subseteq Nat \ {Unset}
  BY DraftHas, FreeIsNew
<1>3. After(S, a, b) = (S \ {a}) \union {b} /\ After(S, a, b) \subseteq Nat \ {Unset}
  BY <1>2 DEF After
<1>4. draft'.services \in [After(S, a, b) -> ServiceRecs(M)]
  BY <1>1, <1>3, DraftHas DEF ServiceRenamed, Renamed
<1>5. draft'.mws \in [M -> MiddlewareRecs]
  BY <1>1, <1>2, DraftHas, MirrorsTyped DEF ServiceRenamed
<1>6. draft'.routes \in Seq(RouteRecs(After(S, a, b), M))
  BY <1>1, DraftHas, ServiceFollowed DEF ServiceRenamed
<1>7. draft'.default \in DefaultRecs(After(S, a, b))
  <2>1. PICK df \in DefaultRecs(S) : df = draft.default
    BY DraftHas
  <2>2. [df EXCEPT !.service = To(@, a, b)] \in DefaultRecs(After(S, a, b))
    BY ServiceFollowed
  <2>3. QED
    BY <1>1, <2>1, <2>2 DEF ServiceRenamed
<1>8. draft' = [routes |-> draft'.routes, services |-> draft'.services, mws |-> draft'.mws, default |-> draft'.default]
  BY <1>1 DEF ServiceRenamed
<1>9. Named(draft', After(S, a, b), M)
  BY <1>2, <1>3, <1>4, <1>5, <1>6, <1>7, <1>8, PartsNamed
<1>10. QED
  BY <1>9

\* Routes and default let go of a service that is removed; mirrors may keep its name.
LEMMA ServiceRemoved ==
    ASSUME NEW S, NEW M, Named(draft, S, M), RemoveService
    PROVE  \E S2 : Named(draft', S2, M)
<1>1. PICK a \in DOMAIN draft.services :
         draft' = [draft EXCEPT !.services = [n \in DOMAIN @ \ {a} |-> @[n]],
                                !.routes = Followed(@, a, Unset), !.default.service = To(@, a, Unset)]
  BY DEF RemoveService, Becomes
<1>2. /\ draft' = [routes |-> draft'.routes, services |-> draft'.services, mws |-> draft'.mws, default |-> draft'.default]
      /\ draft'.services = [n \in DOMAIN draft.services \ {a} |-> draft.services[n]] /\ draft'.mws = draft.mws
      /\ draft'.routes = Followed(draft.routes, a, Unset)
      /\ draft'.default = [draft.default EXCEPT !.service = To(@, a, Unset)]
  BY <1>1 DEF Named, DraftsOf
<1>3. After(S, a, Unset) = S \ {a} /\ After(S, a, Unset) \subseteq Nat \ {Unset} /\ M \subseteq Nat \ {Unset}
  BY DraftHas DEF After
<1>4. draft'.services \in [After(S, a, Unset) -> ServiceRecs(M)]
  BY <1>2, <1>3, DraftHas
<1>5. draft'.routes \in Seq(RouteRecs(After(S, a, Unset), M)) /\ draft'.default \in DefaultRecs(After(S, a, Unset))
  BY <1>2, DraftHas, ServiceFollowed
<1>6. draft'.mws \in [M -> MiddlewareRecs]
  BY <1>2, DraftHas
<1>7. Named(draft', After(S, a, Unset), M)
  BY <1>2, <1>3, <1>4, <1>5, <1>6, PartsNamed
<1>8. QED
  BY <1>7

\* The lists of routes and of servers after a middleware's name was changed or taken out.
LEMMA RelistedIsTyped ==
    ASSUME NEW M, M \subseteq Nat \ {Unset}, NEW a, NEW b, NEW list \in Seq(M)
    PROVE  Relisted(list, a, b) \in Seq(After(M, a, b))
<1>1. CASE b = Unset
  BY <1>1, UnlistedLists DEF Relisted, After
<1>2. CASE b # Unset
  <2>1. DOMAIN list = 1..Len(list) /\ Len(list) \in Nat /\ \A k \in DOMAIN list : list[k] \in M
    BY SeqChanged
  <2>2. PICK new : new = [k \in DOMAIN list |-> To(list[k], a, b)]
    OBVIOUS
  <2>3. \A k \in 1..Len(list) : new[k] \in After(M, a, b)
    BY <1>2, <2>1, <2>2 DEF To, After
  <2>4. new = [k \in 1..Len(list) |-> new[k]]
    BY <2>1, <2>2
  <2>5. new \in Seq(After(M, a, b))
    BY <2>1, <2>3, <2>4, SeqOfMapped
  <2>6. QED
    BY <1>2, <2>2, <2>5 DEF Relisted
<1>3. QED
  BY <1>1, <1>2

\* Lists of middlewares in which a name is exchanged, or taken out, list what is left after it.
LEMMA ListsTyped ==
    ASSUME NEW S, NEW M, M \subseteq Nat \ {Unset}, NEW a, NEW b
    PROVE  /\ \A rs \in Seq(RouteRecs(S, M)) : ListsChanged(rs, a, b) \in Seq(RouteRecs(S, After(M, a, b)))
           /\ \A ss \in Seq(ServerRecs(M)) : ListsChanged(ss, a, b) \in Seq(ServerRecs(After(M, a, b)))
           /\ \A sv \in [S -> ServiceRecs(M)] : ServersMapped(sv, a, b) \in [S -> ServiceRecs(After(M, a, b))]
<1>1. ASSUME NEW r \in RouteRecs(S, M)
      PROVE  [r EXCEPT !.list = Relisted(@, a, b)] \in RouteRecs(S, After(M, a, b))
  <2>1. Relisted(r.list, a, b) \in Seq(After(M, a, b))
    BY RelistedIsTyped DEF RouteRecs
  <2>2. QED
    BY <2>1 DEF RouteRecs
<1>2. ASSUME NEW r \in ServerRecs(M)
      PROVE  [r EXCEPT !.list = Relisted(@, a, b)] \in ServerRecs(After(M, a, b))
  <2>1. Relisted(r.list, a, b) \in Seq(After(M, a, b))
    BY RelistedIsTyped DEF ServerRecs
  <2>2. QED
    BY <2>1 DEF ServerRecs
<1>3. ASSUME NEW A, NEW B, NEW rows \in Seq(A), \A r \in A : [r EXCEPT !.list = Relisted(@, a, b)] \in B
      PROVE  ListsChanged(rows, a, b) \in Seq(B)
  <2>1. DOMAIN rows = 1..Len(rows) /\ Len(rows) \in Nat /\ \A k \in DOMAIN rows : rows[k] \in A
    BY SeqChanged
  <2>2. PICK new : new = ListsChanged(rows, a, b)
    OBVIOUS
  <2>3. new = [k \in 1..Len(rows) |-> new[k]] /\ \A k \in 1..Len(rows) : new[k] = [rows[k] EXCEPT !.list = Relisted(@, a, b)]
    BY <2>1, <2>2 DEF ListsChanged
  <2>4. \A k \in 1..Len(rows) : new[k] \in B
    BY <1>3, <2>1, <2>3
  <2>5. QED
    BY <2>1, <2>2, <2>3, <2>4, SeqOfMapped
<1>4. \A rs \in Seq(RouteRecs(S, M)) : ListsChanged(rs, a, b) \in Seq(RouteRecs(S, After(M, a, b)))
  BY <1>1, <1>3
<1>5. \A ss \in Seq(ServerRecs(M)) : ListsChanged(ss, a, b) \in Seq(ServerRecs(After(M, a, b)))
  BY <1>2, <1>3
<1>6. \A s \in ServiceRecs(M) : [s EXCEPT !.servers = ListsChanged(s.servers, a, b)] \in ServiceRecs(After(M, a, b))
  BY <1>5 DEF ServiceRecs
<1>7. ASSUME NEW sv \in [S -> ServiceRecs(M)]
      PROVE  ServersMapped(sv, a, b) \in [S -> ServiceRecs(After(M, a, b))]
  BY <1>6 DEF ServersMapped
<1>8. QED
  BY <1>4, <1>5, <1>7

\* What a renaming or a removal of a middleware makes of a draft.
MiddlewareRenamed(d, e, a, b) ==
    /\ e = [routes |-> e.routes, services |-> e.services, mws |-> e.mws, default |-> e.default]
    /\ e.mws = Renamed(d.mws, a, b)
    /\ e.services = ServersMapped(d.services, a, b)
    /\ e.routes = ListsChanged(d.routes, a, b)
    /\ e.default = d.default

\* RenameMiddleware carries the new name to the lists of routes and servers.
LEMMA MiddlewareRenamedIs ==
    ASSUME NEW S, NEW M, Named(draft, S, M), RenameMiddleware
    PROVE  \E a \in M, b \in Free(draft.mws) : MiddlewareRenamed(draft, draft', a, b)
<1>1. PICK a \in DOMAIN draft.mws, b \in Free(draft.mws) :
         draft' = [draft EXCEPT !.mws = Renamed(@, a, b), !.services = ServersMapped(@, a, b),
                                !.routes = ListsChanged(@, a, b)]
  BY DEF RenameMiddleware
<1>2. MiddlewareRenamed(draft, draft', a, b)
  BY <1>1 DEF MiddlewareRenamed, Named, DraftsOf
<1>3. QED
  BY <1>2, DraftHas

\* After a middleware is renamed, the lists name what there is.
LEMMA MiddlewareRenamedIsNamed ==
    ASSUME NEW S, NEW M, Named(draft, S, M), RenameMiddleware
    PROVE  \E M2 : Named(draft', S, M2)
<1>1. PICK a \in M, b \in Free(draft.mws) : MiddlewareRenamed(draft, draft', a, b)
  BY MiddlewareRenamedIs
<1>2. b \in Nat \ {Unset} /\ b \notin M /\ S \subseteq Nat \ {Unset} /\ M \subseteq Nat \ {Unset}
  BY DraftHas, FreeIsNew
<1>3. After(M, a, b) = (M \ {a}) \union {b} /\ After(M, a, b) \subseteq Nat \ {Unset}
  BY <1>2 DEF After
<1>4. draft'.mws \in [After(M, a, b) -> MiddlewareRecs]
  BY <1>1, <1>3, DraftHas DEF MiddlewareRenamed, Renamed
<1>5. draft'.services \in [S -> ServiceRecs(After(M, a, b))]
  <2>1. PICK sv \in [S -> ServiceRecs(M)] : sv = draft.services
    BY DraftHas
  <2>2. ServersMapped(sv, a, b) \in [S -> ServiceRecs(After(M, a, b))]
    BY <1>2, ListsTyped
  <2>3. QED
    BY <1>1, <2>1, <2>2 DEF MiddlewareRenamed
<1>6. draft'.routes \in Seq(RouteRecs(S, After(M, a, b)))
  BY <1>1, <1>2, DraftHas, ListsTyped DEF MiddlewareRenamed
<1>7. draft'.default \in DefaultRecs(S)
  BY <1>1, DraftHas DEF MiddlewareRenamed
<1>8. draft' = [routes |-> draft'.routes, services |-> draft'.services, mws |-> draft'.mws, default |-> draft'.default]
  BY <1>1 DEF MiddlewareRenamed
<1>9. Named(draft', S, After(M, a, b))
  BY <1>2, <1>3, <1>4, <1>5, <1>6, <1>7, <1>8, PartsNamed
<1>10. QED
  BY <1>9

\* After a middleware is removed, no list names it.
LEMMA MiddlewareRemoved ==
    ASSUME NEW S, NEW M, Named(draft, S, M), RemoveMiddleware
    PROVE  \E M2 : Named(draft', S, M2)
<1>1. PICK a \in DOMAIN draft.mws :
         draft' = [draft EXCEPT !.mws = [n \in DOMAIN @ \ {a} |-> @[n]], !.services = ServersMapped(@, a, Unset),
                                !.routes = ListsChanged(@, a, Unset)]
  BY DEF RemoveMiddleware, Becomes
<1>2. /\ draft' = [routes |-> draft'.routes, services |-> draft'.services, mws |-> draft'.mws, default |-> draft'.default]
      /\ draft'.mws = [n \in DOMAIN draft.mws \ {a} |-> draft.mws[n]]
      /\ draft'.services = ServersMapped(draft.services, a, Unset)
      /\ draft'.routes = ListsChanged(draft.routes, a, Unset) /\ draft'.default = draft.default
  BY <1>1 DEF Named, DraftsOf
<1>3. /\ After(M, a, Unset) = M \ {a} /\ After(M, a, Unset) \subseteq Nat \ {Unset}
      /\ S \subseteq Nat \ {Unset} /\ M \subseteq Nat \ {Unset}
  BY DraftHas DEF After
<1>4. draft'.mws \in [After(M, a, Unset) -> MiddlewareRecs]
  BY <1>2, <1>3, DraftHas
<1>5. draft'.services \in [S -> ServiceRecs(After(M, a, Unset))] /\ draft'.routes \in Seq(RouteRecs(S, After(M, a, Unset)))
  <2>1. PICK sv \in [S -> ServiceRecs(M)] : sv = draft.services
    BY DraftHas
  <2>2. ServersMapped(sv, a, Unset) \in [S -> ServiceRecs(After(M, a, Unset))]
    BY <1>3, ListsTyped
  <2>3. PICK rs \in Seq(RouteRecs(S, M)) : rs = draft.routes
    BY DraftHas
  <2>4. ListsChanged(rs, a, Unset) \in Seq(RouteRecs(S, After(M, a, Unset)))
    BY <1>3, ListsTyped
  <2>5. QED
    BY <1>2, <2>1, <2>2, <2>3, <2>4
<1>6. draft'.default \in DefaultRecs(S)
  BY <1>2, DraftHas
<1>7. Named(draft', S, After(M, a, Unset))
  BY <1>2, <1>3, <1>4, <1>5, <1>6, PartsNamed
<1>8. QED
  BY <1>7

\* Whatever is edited, names are listed only of what there is, for any number of names and of edits.
THEOREM HttpInductive == HttpSpec => []HttpInv
<1>1. ASSUME HttpInv, [HttpNext]_httpVars
      PROVE  HttpInv'
  <2>1. PICK S, M : Named(draft, S, M)
    BY <1>1 DEF HttpInv
  <2>2. ASSUME NEW S2, NEW M2, Named(draft', S2, M2)
        PROVE  HttpInv'
    BY <2>2 DEF HttpInv, Named, DraftsOf, Unset
  <2>3. CASE AddRoute \/ MoveRoute \/ RemoveRoute \/ EditRoute
    BY <2>1, <2>2, <2>3, RoutesEdited
  <2>4. CASE EditServer \/ EditService
    BY <2>1, <2>2, <2>4, ServicesEdited
  <2>5. CASE EditMiddleware \/ EditDefault
    BY <2>1, <2>2, <2>5, OthersEdited
  <2>6. CASE AddService
    BY <2>1, <2>2, <2>6, ServiceAdded
  <2>7. CASE AddMiddleware
    BY <2>1, <2>2, <2>7, MiddlewareAdded
  <2>8. CASE RenameService
    BY <2>1, <2>2, <2>8, ServiceRenamedIsNamed
  <2>9. CASE RemoveService
    BY <2>1, <2>2, <2>9, ServiceRemoved
  <2>10. CASE RenameMiddleware
    BY <2>1, <2>2, <2>10, MiddlewareRenamedIsNamed
  <2>11. CASE RemoveMiddleware
    BY <2>1, <2>2, <2>11, MiddlewareRemoved
  <2>12. CASE UNCHANGED httpVars
    BY <1>1, <2>12 DEF HttpInv, httpVars, Named
  <2>13. QED
    BY <1>1, <2>3, <2>4, <2>5, <2>6, <2>7, <2>8, <2>9, <2>10, <2>11, <2>12 DEF HttpNext, Edit
<1>2. QED
  BY <1>1, HttpStart, PTL DEF HttpSpec

\* What a service does is what its servers do, and what a route does is what it is about.
KindsDone(d, list) == [j \in DOMAIN list |-> KindOf(d, list[j])]
ServersDo(d, servers) == [k \in DOMAIN servers |-> [goes |-> servers[k].goes, kinds |-> KindsDone(d, servers[k].list)]]
ServiceDone(d, s) == [options |-> s.options, blocks |-> s.blocks, servers |-> ServersDo(d, s.servers)]
ListDoes(d, list, names) == [k \in DOMAIN list |-> MiddlewareDoes(d, list[k], names)]
RouteDoes(d, r, names) ==
    [good |-> r.good, service |-> ServiceDoes(d, r.service), to |-> r.to, list |-> ListDoes(d, r.list, names)]
DefaultDoes(d, df) == [service |-> ServiceDoes(d, df.service), status |-> IF df.status = Unset THEN 404 ELSE df.status]

\* What a draft does, part by part.
LEMMA DoesByParts ==
    ASSUME NEW d
    PROVE  /\ \A names : DoesApart(d, names) = [routes |-> [i \in DOMAIN d.routes |-> RouteDoes(d, d.routes[i], names)],
                                               default |-> DefaultDoes(d, d.default)]
           /\ \A n : ServiceDoes(d, n) = {ServiceDone(d, d.services[m]) : m \in DOMAIN d.services \intersect {n}}
<1>1. ASSUME NEW names
      PROVE  DoesApart(d, names) = [routes |-> [i \in DOMAIN d.routes |-> RouteDoes(d, d.routes[i], names)],
                                    default |-> DefaultDoes(d, d.default)]
  BY Zenon DEF DoesApart, RouteDoes, ListDoes, DefaultDoes
<1>2. ASSUME NEW n
      PROVE  ServiceDoes(d, n) = {ServiceDone(d, d.services[m]) : m \in DOMAIN d.services \intersect {n}}
  <2>1. ServiceDoes(d, n) = {ServiceDone(d, s) : s \in {d.services[m] : m \in DOMAIN d.services \intersect {n}}}
    BY Zenon DEF ServiceDoes, ServiceDone, ServersDo, KindsDone
  <2>2. QED
    BY <2>1
<1>3. QED
  BY <1>1, <1>2

\* What two drafts do is the same when it is the same of each part.
LEMMA SameDone ==
    ASSUME NEW d, NEW e, NEW names, DOMAIN e.routes = DOMAIN d.routes,
           \A i \in DOMAIN d.routes :
              /\ e.routes[i].good = d.routes[i].good /\ e.routes[i].to = d.routes[i].to
              /\ ServiceDoes(e, e.routes[i].service) = ServiceDoes(d, d.routes[i].service)
              /\ ListDoes(e, e.routes[i].list, names) = ListDoes(d, d.routes[i].list, names),
           DefaultDoes(e, e.default) = DefaultDoes(d, d.default)
    PROVE  DoesApart(e, names) = DoesApart(d, names)
<1>1. \A i \in DOMAIN d.routes : RouteDoes(e, e.routes[i], names) = RouteDoes(d, d.routes[i], names)
  BY DEF RouteDoes
<1>2. [i \in DOMAIN e.routes |-> RouteDoes(e, e.routes[i], names)] = [i \in DOMAIN d.routes |-> RouteDoes(d, d.routes[i], names)]
  BY <1>1
<1>3. QED
  BY <1>2, DoesByParts

\* With the same middlewares of the same kinds, a service does the same.
LEMMA SameKinds ==
    ASSUME NEW d, NEW e, \A n : KindOf(e, n) = KindOf(d, n)
    PROVE  \A s : ServiceDone(e, s) = ServiceDone(d, s)
<1>1. \A list : KindsDone(e, list) = KindsDone(d, list)
  BY DEF KindsDone
<1>2. \A servers : ServersDo(e, servers) = ServersDo(d, servers)
  BY <1>1 DEF ServersDo
<1>3. QED
  BY <1>2 DEF ServiceDone

\* A draft with services as good, and another default of the same service, is as valid.
LEMMA AsValid ==
    ASSUME NEW d, NEW e, e.routes = d.routes, e.mws = d.mws, DOMAIN e.services = DOMAIN d.services,
           \A n \in DOMAIN d.services : GoodService(d, d.services[n]) => GoodService(d, e.services[n]),
           e.default.service = d.default.service, Valid(d)
    PROVE  Valid(e)
<1>1. \A n : KindOf(e, n) = KindOf(d, n)
  BY DEF KindOf
<1>2. \A s : GoodServer(d, s) => GoodServer(e, s)
  BY <1>1 DEF GoodServer
<1>3. \A s : GoodService(d, s) => GoodService(e, s)
  BY <1>2 DEF GoodService
<1>4. \A m : GoodMiddleware(d, m) => GoodMiddleware(e, m)
  BY DEF GoodMiddleware
<1>5. \A r : GoodCache(d, r) => GoodCache(e, r)
  <2> SUFFICES ASSUME NEW r, GoodCache(d, r) PROVE GoodCache(e, r)
    OBVIOUS
  <2> DEFINE kinds == [i \in DOMAIN r.list |-> KindOf(d, r.list[i])]
  <2>2. kinds = [i \in DOMAIN r.list |-> KindOf(e, r.list[i])]
    BY <1>1
  <2>3. \A at \in DOMAIN kinds : kinds[at] = "cache" =>
          /\ \A i \in DOMAIN kinds : i > at => kinds[i] \notin Gates \union {"cache"}
          /\ \A i \in DOMAIN kinds : i < at =>
                /\ kinds[i] \in {"sign_in", "oidc"} => "after_auth" \in d.mws[r.list[at]].shares
                /\ kinds[i] = "oidc" => "credentials" \in d.mws[r.list[at]].shares
    BY Zenon DEF GoodCache
  <2> HIDE DEF kinds
  <2>4. \A at \in DOMAIN kinds : kinds[at] = "cache" =>
          /\ \A i \in DOMAIN kinds : i > at => kinds[i] \notin Gates \union {"cache"}
          /\ \A i \in DOMAIN kinds : i < at =>
                /\ kinds[i] \in {"sign_in", "oidc"} => "after_auth" \in e.mws[r.list[at]].shares
                /\ kinds[i] = "oidc" => "credentials" \in e.mws[r.list[at]].shares
    BY <2>3
  <2>5. QED
    BY <2>2, <2>4, Zenon DEF GoodCache
<1>6. \A r : GoodRoute(d, r) => GoodRoute(e, r)
  BY <1>1, <1>5 DEF GoodRoute
<1>7. QED
  BY <1>3, <1>4, <1>6 DEF Valid
\* A draft with another default of the same service and status does what it did.
LEMMA DefaultOnly ==
    ASSUME NEW d, NEW e, e.routes = d.routes, e.services = d.services, e.mws = d.mws,
           e.default.service = d.default.service,
           (IF e.default.status = Unset THEN 404 ELSE e.default.status) =
                 (IF d.default.status = Unset THEN 404 ELSE d.default.status)
    PROVE  Does(e) = Does(d)
<1>1. \A n : KindOf(e, n) = KindOf(d, n)
  BY DEF KindOf
<1>2. \A n : ServiceDoes(e, n) = ServiceDoes(d, n)
  <2>1. \A s : ServiceDone(e, s) = ServiceDone(d, s)
    BY <1>1, SameKinds
  <2>2. \A n : {ServiceDone(e, e.services[m]) : m \in DOMAIN e.services \intersect {n}} =
              {ServiceDone(d, d.services[m]) : m \in DOMAIN d.services \intersect {n}}
    BY <2>1
  <2>3. QED
    BY <2>2, DoesByParts
<1>3. \A n : MiddlewareDoes(e, n, {}) = MiddlewareDoes(d, n, {})
  BY <1>1, <1>2 DEF MiddlewareDoes
<1>4. \A list : ListDoes(e, list, {}) = ListDoes(d, list, {})
  BY <1>3 DEF ListDoes
<1>5. DefaultDoes(e, e.default) = DefaultDoes(d, d.default)
  BY <1>2 DEF DefaultDoes
<1>6. DoesApart(e, {}) = DoesApart(d, {})
  BY <1>2, <1>4, <1>5, SameDone
<1>7. QED
  BY <1>6 DEF Does

\* Services without what has nothing in it.
Emptied(services) == [n \in DOMAIN services |-> OnlyFilled(services[n])]

\* Taking out what has nothing in it keeps a service good, and is done at once.
LEMMA OneEmptied ==
    ASSUME NEW M, NEW s \in ServiceRecs(M)
    PROVE  /\ OnlyFilled(s) \in ServiceRecs(M) /\ OnlyFilled(OnlyFilled(s)) = OnlyFilled(s)
           /\ OnlyFilled(s) = [s EXCEPT !.blocks = CleanBlocks(s.blocks)]
           /\ \A d : GoodService(d, s) => GoodService(d, OnlyFilled(s))
<1>1. PICK bl \in [Blocks -> Fills] : bl = s.blocks
  BY DEF ServiceRecs
<1>2. PICK cl : cl = [b \in Blocks |-> IF bl[b] = "filled" THEN "filled" ELSE "unset"]
  OBVIOUS
<1>3. /\ cl \in [Blocks -> Fills] /\ CleanBlocks(bl) = cl
      /\ [b \in Blocks |-> IF cl[b] = "filled" THEN "filled" ELSE "unset"] = cl
      /\ \A b \in Blocks : cl[b] # "empty" /\ (cl[b] # "unset" => bl[b] # "unset")
  BY <1>2 DEF CleanBlocks, Fills
<1>4. PICK e : e = OnlyFilled(s)
  OBVIOUS
<1>5. e = [s EXCEPT !.blocks = cl]
  BY <1>1, <1>2, <1>4 DEF OnlyFilled
<1>6. e \in ServiceRecs(M) /\ e.servers = s.servers /\ e.options = s.options /\ e.blocks = cl
  BY <1>3, <1>5 DEF ServiceRecs
<1>7. OnlyFilled(e) = [e EXCEPT !.blocks = cl]
  BY <1>3, <1>6 DEF OnlyFilled
<1>8. [e EXCEPT !.blocks = cl] = e
  BY <1>6 DEF ServiceRecs
<1>9. ASSUME NEW d, GoodService(d, s)
      PROVE  GoodService(d, e)
  <2>1. /\ e.blocks["health_check"] # "empty"
        /\ e.blocks["health_check"] # "unset" => s.blocks["health_check"] # "unset"
        /\ e.blocks["sticky"] # "unset" => s.blocks["sticky"] # "unset"
    BY <1>1, <1>3, <1>6 DEF Blocks
  <2>2. QED
    BY <1>6, <1>9, <2>1 DEF GoodService
<1>10. QED
  BY <1>1, <1>3, <1>4, <1>5, <1>6, <1>7, <1>8, <1>9

\* So it is of all services of a draft.
LEMMA EmptiedIs ==
    ASSUME NEW S, NEW M, NEW sv \in [S -> ServiceRecs(M)]
    PROVE  /\ Emptied(sv) \in [S -> ServiceRecs(M)] /\ Emptied(Emptied(sv)) = Emptied(sv)
           /\ \A d : \A n \in S : GoodService(d, sv[n]) => GoodService(d, Emptied(sv)[n])
<1>1. PICK ev : ev = Emptied(sv)
  OBVIOUS
<1>2. ev = [n \in S |-> OnlyFilled(sv[n])]
  BY <1>1 DEF Emptied
<1>3. ev \in [S -> ServiceRecs(M)] /\ \A n \in S : OnlyFilled(ev[n]) = ev[n]
  BY <1>2, OneEmptied
<1>4. Emptied(ev) = ev
  BY <1>3 DEF Emptied
<1>5. \A d : \A n \in S : GoodService(d, sv[n]) => GoodService(d, ev[n])
  BY <1>2, OneEmptied
<1>6. QED
  BY <1>1, <1>3, <1>4, <1>5

\* Of a valid draft, cleaning leaves all but the default and what has nothing in it.
LEMMA CleanedIs ==
    ASSUME NEW d, NEW S, NEW M, Named(d, S, M), Valid(d)
    PROVE  /\ Clean(d) = [routes |-> d.routes, services |-> Emptied(d.services), mws |-> d.mws, default |-> CleanDefault(d.default)]
           /\ CleanDefault(d.default) \in DefaultRecs(S)
<1>1. PICK rs \in Seq(RouteRecs(S, M)) : rs = d.routes
  BY DraftHas
<1>2. DOMAIN rs = 1..Len(rs) /\ rs = [i \in 1..Len(rs) |-> rs[i]] /\ \A i \in DOMAIN rs : rs[i] \in RouteRecs(S, M)
  BY SeqChanged, LenProperties
<1>3. \A i \in DOMAIN rs : rs[i].service # Unset => rs[i].to = "none"
  BY <1>1 DEF Valid, GoodRoute, ToSet
<1>4. \A i \in DOMAIN rs : CleanRoute(rs[i]) = rs[i]
  BY <1>2, <1>3 DEF CleanRoute, RouteRecs
<1>5. [i \in DOMAIN rs |-> CleanRoute(rs[i])] = rs
  BY <1>2, <1>4
<1>6. PICK sv \in [S -> ServiceRecs(M)] : sv = d.services
  BY DraftHas
<1>7. ASSUME NEW n \in S
      PROVE  CleanService(sv[n]) = OnlyFilled(sv[n])
  <2>1. PICK ss \in Seq(ServerRecs(M)) : ss = sv[n].servers
    BY DEF ServiceRecs
  <2>2. DOMAIN ss = 1..Len(ss) /\ ss = [k \in 1..Len(ss) |-> ss[k]] /\ \A k \in DOMAIN ss : ss[k] \in ServerRecs(M)
    BY SeqChanged, LenProperties
  <2>3. \A k \in DOMAIN ss : ss[k].goes = "status" => ss[k].list = <<>>
    BY <1>6, <2>1 DEF Valid, GoodService, GoodServer, ToSet
  <2>4. \A k \in DOMAIN ss : CleanServer(ss[k]) = ss[k]
    BY <2>2, <2>3 DEF CleanServer, Server, ServerRecs
  <2>5. [k \in DOMAIN ss |-> CleanServer(ss[k])] = ss
    BY <2>2, <2>4
  <2>6. PICK s \in ServiceRecs(M) : s = sv[n]
    OBVIOUS
  <2>7. PICK cl : cl = CleanBlocks(s.blocks)
    OBVIOUS
  <2>8. CleanService(s) = [s EXCEPT !.servers = ss, !.blocks = cl]
    BY <2>1, <2>5, <2>6, <2>7 DEF CleanService
  <2>9. [s EXCEPT !.servers = ss, !.blocks = cl] = [s EXCEPT !.blocks = cl]
    BY <2>1, <2>6 DEF ServiceRecs
  <2>10. QED
    BY <2>6, <2>7, <2>8, <2>9, OneEmptied
<1>8. [n \in DOMAIN sv |-> CleanService(sv[n])] = Emptied(sv)
  BY <1>7 DEF Emptied
<1>9. CleanDefault(d.default) \in DefaultRecs(S)
  BY DraftHas DEF CleanDefault, DefaultRecs
<1>10. QED
  BY <1>1, <1>5, <1>6, <1>8, <1>9 DEF Clean

\* A default says 404 only with a service, and says nothing else after it was cleaned.
LEMMA DefaultCleaned ==
    ASSUME NEW S, NEW df \in DefaultRecs(S)
    PROVE  /\ CleanDefault(CleanDefault(df)) = CleanDefault(df) /\ CleanDefault(df).service = df.service
           /\ (IF CleanDefault(df).status = Unset THEN 404 ELSE CleanDefault(df).status) =
                 (IF df.status = Unset THEN 404 ELSE df.status)
<1>1. CASE df.service # Unset
  BY <1>1 DEF CleanDefault, DefaultRecs, Unset
<1>2. CASE df.service = Unset
  BY <1>2 DEF CleanDefault, DefaultRecs, Unset
<1>3. QED
  BY <1>1, <1>2

\* What the form lets through is what the API takes and stores, whatever was edited before: the cleaned
\* draft is accepted too, stays as it is when it is saved again, and does the same but for TLS of a
\* service that was switched on with nothing in it, and stickiness without a cookie, which are left out
\* (validateHttp, cleanHttp; httpspec.ts:792, :797).
THEOREM SentWasChecked == HttpSpec => []SentIsWhatWasChecked
<1>1. ASSUME HttpInv
      PROVE  SentIsWhatWasChecked
  <2> SUFFICES ASSUME Valid(draft)
               PROVE  /\ Valid(Clean(draft)) /\ Does(Clean(draft)) = Does(WithoutEmpty(draft))
                      /\ Clean(Clean(draft)) = Clean(draft)
    BY DEF SentIsWhatWasChecked
  <2>1. PICK S, M : Named(draft, S, M)
    BY <1>1 DEF HttpInv
  <2>2. PICK c, ev : c = Clean(draft) /\ ev = Emptied(draft.services)
    OBVIOUS
  <2>3. /\ c = [routes |-> draft.routes, services |-> ev, mws |-> draft.mws, default |-> CleanDefault(draft.default)]
        /\ CleanDefault(draft.default) \in DefaultRecs(S)
    BY <2>1, <2>2, CleanedIs
  <2>4. /\ c.routes = draft.routes /\ c.services = ev /\ c.mws = draft.mws
        /\ c.default = CleanDefault(draft.default)
        /\ c = [routes |-> c.routes, services |-> c.services, mws |-> c.mws, default |-> c.default]
    BY <2>3
  <2>5. /\ CleanDefault(c.default) = c.default /\ c.default.service = draft.default.service
        /\ (IF c.default.status = Unset THEN 404 ELSE c.default.status) =
              (IF draft.default.status = Unset THEN 404 ELSE draft.default.status)
    BY <2>1, <2>4, DraftHas, DefaultCleaned
  <2>6. PICK sv \in [S -> ServiceRecs(M)] : sv = draft.services
    BY <2>1, DraftHas
  <2>7. /\ ev \in [S -> ServiceRecs(M)] /\ Emptied(ev) = ev
        /\ \A n \in S : GoodService(draft, sv[n]) => GoodService(draft, ev[n])
    BY <2>2, <2>6, EmptiedIs
  <2>8. Named(c, S, M)
    <3>1. S \subseteq Nat \ {Unset} /\ M \subseteq Nat \ {Unset}
      BY <2>1, DraftHas
    <3>2. c.routes \in Seq(RouteRecs(S, M)) /\ c.services \in [S -> ServiceRecs(M)] /\ c.mws \in [M -> MiddlewareRecs]
      BY <2>1, <2>4, <2>7, DraftHas
    <3>3. c.default \in DefaultRecs(S)
      BY <2>3, <2>4
    <3>4. QED
      BY <2>4, <3>1, <3>2, <3>3, PartsNamed
  <2>9. Valid(c)
    <3>1. DOMAIN c.services = DOMAIN draft.services
      BY <2>4, <2>6, <2>7
    <3>2. \A n \in DOMAIN draft.services : GoodService(draft, draft.services[n]) => GoodService(draft, c.services[n])
      BY <2>4, <2>6, <2>7
    <3>3. QED
      BY <2>4, <2>5, <3>1, <3>2, AsValid
  <2>10. Does(c) = Does(WithoutEmpty(draft))
    <3>1. PICK w : w = WithoutEmpty(draft)
      OBVIOUS
    <3>2. w = [draft EXCEPT !.services = ev]
      BY <2>2, <3>1 DEF WithoutEmpty, Emptied
    <3>3. w.routes = draft.routes /\ w.services = ev /\ w.mws = draft.mws /\ w.default = draft.default
      BY <2>1, <3>2 DEF Named, DraftsOf
    <3>4. QED
      BY <2>4, <2>5, <3>1, <3>3, DefaultOnly
  <2>11. Clean(c) = c
    <3>1. Clean(c) = [routes |-> c.routes, services |-> Emptied(c.services), mws |-> c.mws,
                      default |-> CleanDefault(c.default)]
      BY <2>8, <2>9, CleanedIs
    <3>2. Emptied(c.services) = c.services
      BY <2>4, <2>7
    <3>3. QED
      BY <2>4, <2>5, <3>1, <3>2
  <2>12. QED
    BY <2>2, <2>9, <2>10, <2>11
<1>2. QED
  BY <1>1, HttpInductive, PTL

\* What a renamed service was, the draft has under the new name.
LEMMA RenamedDoes ==
    ASSUME NEW S, NEW M, NEW d, NEW e, Named(d, S, M), NEW a \in S, NEW b \in Nat \ {Unset}, b \notin S,
           ServiceRenamed(d, e, a, b), MirrorsFound(d), NEW names, a \in names, b \in names
    PROVE  DoesApart(e, names) = DoesApart(d, names)
<1>1. /\ DOMAIN d.services = S /\ DOMAIN d.mws = M /\ S \subseteq Nat \ {Unset} /\ M \subseteq Nat \ {Unset}
      /\ d.mws \in [M -> MiddlewareRecs]
  BY DraftHas
<1>2. /\ DOMAIN e.services = (S \ {a}) \union {b}
      /\ \A n \in (S \ {a}) \union {b} : e.services[n] = d.services[IF n = b THEN a ELSE n]
  BY <1>1 DEF ServiceRenamed, Renamed
<1>3. DOMAIN e.mws = M /\ \A n \in M : e.mws[n] = IF d.mws[n].kind = "mirror" THEN [d.mws[n] EXCEPT !.service = To(@, a, b)]
                                                 ELSE d.mws[n]
  BY <1>1 DEF ServiceRenamed, MirrorsRenamed
<1>4. ASSUME NEW n \in M
      PROVE  /\ e.mws[n].kind = d.mws[n].kind /\ e.mws[n].good = d.mws[n].good /\ e.mws[n].shares = d.mws[n].shares
             /\ e.mws[n].service = IF d.mws[n].kind = "mirror" THEN To(d.mws[n].service, a, b) ELSE d.mws[n].service
  <2>1. PICK m \in MiddlewareRecs : m = d.mws[n]
    BY <1>1
  <2>2. PICK q : q = e.mws[n]
    OBVIOUS
  <2>3. q = IF m.kind = "mirror" THEN [m EXCEPT !.service = To(@, a, b)] ELSE m
    BY <1>3, <2>1, <2>2
  <2>4. /\ q.kind = m.kind /\ q.good = m.good /\ q.shares = m.shares
        /\ q.service = IF m.kind = "mirror" THEN To(m.service, a, b) ELSE m.service
    BY <2>3 DEF MiddlewareRecs
  <2>5. QED
    BY <2>1, <2>2, <2>4
<1>5. \A n : KindOf(e, n) = KindOf(d, n)
  <2> SUFFICES ASSUME NEW n PROVE KindOf(e, n) = KindOf(d, n)
    OBVIOUS
  <2>1. CASE n \in M
    <3>1. n \in DOMAIN d.mws /\ n \in DOMAIN e.mws /\ e.mws[n].kind = d.mws[n].kind
      BY <1>1, <1>3, <1>4, <2>1
    <3>2. QED
      BY <3>1 DEF KindOf
  <2>2. CASE n \notin M
    <3>1. n \notin DOMAIN d.mws /\ n \notin DOMAIN e.mws
      BY <1>1, <1>3, <2>2
    <3>2. QED
      BY <3>1 DEF KindOf
  <2>3. QED
    BY <2>1, <2>2
<1>6. \A s : ServiceDone(e, s) = ServiceDone(d, s)
  BY <1>5, SameKinds
<1>7. ASSUME NEW n \in S \union {Unset}
      PROVE  ServiceDoes(e, To(n, a, b)) = ServiceDoes(d, n)
  <2>1. CASE n \in S
    <3>1. To(n, a, b) \in DOMAIN e.services /\ e.services[To(n, a, b)] = d.services[n]
      BY <1>1, <1>2, <2>1 DEF To
    <3>2. {ServiceDone(e, e.services[m]) : m \in DOMAIN e.services \intersect {To(n, a, b)}} = {ServiceDone(d, d.services[n])}
      BY <1>6, <3>1
    <3>3. {ServiceDone(d, d.services[m]) : m \in DOMAIN d.services \intersect {n}} = {ServiceDone(d, d.services[n])}
      BY <1>1, <2>1
    <3>4. QED
      BY <3>2, <3>3, DoesByParts
  <2>2. CASE n = Unset
    <3>1. To(n, a, b) = Unset
      BY <1>1, <2>2 DEF To
    <3>2. Unset \notin DOMAIN e.services /\ Unset \notin DOMAIN d.services
      BY <1>1, <1>2
    <3>5. DOMAIN e.services \intersect {Unset} = {} /\ DOMAIN d.services \intersect {Unset} = {}
      BY <3>2
    <3>6. /\ {ServiceDone(e, e.services[m]) : m \in DOMAIN e.services \intersect {Unset}} = {}
          /\ {ServiceDone(d, d.services[m]) : m \in DOMAIN d.services \intersect {Unset}} = {}
      BY <3>5
    <3>3. ServiceDoes(e, Unset) = {} /\ ServiceDoes(d, Unset) = {}
      BY <3>6, DoesByParts
    <3>4. QED
      BY <2>2, <3>1, <3>3
  <2>3. QED
    BY <2>1, <2>2
<1>8. ASSUME NEW n, n \notin names
      PROVE  ServiceDoes(e, n) = ServiceDoes(d, n)
  <2>1. n # a /\ n # b
    BY <1>8
  <2>2. DOMAIN e.services \intersect {n} = DOMAIN d.services \intersect {n}
    BY <1>1, <1>2, <2>1
  <2>3. \A m \in DOMAIN d.services \intersect {n} : e.services[m] = d.services[m]
    BY <1>1, <1>2, <2>1
  <2>4. {ServiceDone(e, e.services[m]) : m \in DOMAIN e.services \intersect {n}} =
           {ServiceDone(d, d.services[m]) : m \in DOMAIN d.services \intersect {n}}
    BY <1>6, <2>2, <2>3
  <2>5. QED
    BY <2>4, DoesByParts
<1>9. ASSUME NEW n \in M
      PROVE  MiddlewareDoes(e, n, names) = MiddlewareDoes(d, n, names)
  <2>1. KindOf(e, n) = e.mws[n].kind /\ KindOf(d, n) = d.mws[n].kind
    BY <1>1, <1>3 DEF KindOf
  <2>2. d.mws[n].kind = "mirror" => ServiceDoes(e, e.mws[n].service) = ServiceDoes(d, d.mws[n].service)
    <3> SUFFICES ASSUME d.mws[n].kind = "mirror"
                 PROVE  ServiceDoes(e, e.mws[n].service) = ServiceDoes(d, d.mws[n].service)
      OBVIOUS
    <3>1. d.mws[n].service \in S \union {Unset}
      BY <1>1 DEF MirrorsFound
    <3>2. e.mws[n].service = To(d.mws[n].service, a, b)
      BY <1>4
    <3>3. QED
      BY <1>7, <3>1, <3>2
  <2>3. d.mws[n].kind = "errors" => e.mws[n].service = d.mws[n].service
    BY <1>4
  <2>4. n \in DOMAIN e.mws /\ n \in DOMAIN d.mws
    BY <1>1, <1>3
  <2>5. e.mws[n].kind = d.mws[n].kind /\ (e.mws[n].good <=> d.mws[n].good) /\ e.mws[n].shares = d.mws[n].shares
    BY <1>4
  <2>6. PICK p, r : /\ p = IF KindOf(e, n) = "mirror" THEN ServiceDoes(e, e.mws[n].service) ELSE {}
                    /\ r = IF KindOf(e, n) = "errors" /\ e.mws[n].service \notin names
                           THEN ServiceDoes(e, e.mws[n].service) ELSE {}
    OBVIOUS
  <2>7. p = IF KindOf(d, n) = "mirror" THEN ServiceDoes(d, d.mws[n].service) ELSE {}
    BY <2>1, <2>2, <2>5, <2>6
  <2>8. r = IF KindOf(d, n) = "errors" /\ d.mws[n].service \notin names THEN ServiceDoes(d, d.mws[n].service) ELSE {}
    BY <1>8, <2>1, <2>3, <2>5, <2>6
  <2>9. KindOf(e, n) = KindOf(d, n)
    BY <2>1, <2>5
  <2>10. QED
    BY <2>4, <2>5, <2>6, <2>7, <2>8, <2>9 DEF MiddlewareDoes
<1>10. \A list \in Seq(M) : ListDoes(e, list, names) = ListDoes(d, list, names)
  <2> SUFFICES ASSUME NEW list \in Seq(M) PROVE ListDoes(e, list, names) = ListDoes(d, list, names)
    OBVIOUS
  <2>1. \A k \in DOMAIN list : list[k] \in M
    BY SeqChanged
  <2>2. QED
    BY <1>9, <2>1 DEF ListDoes
<1>11. PICK rs \in Seq(RouteRecs(S, M)) : rs = d.routes
  BY DraftHas
<1>12. \A i \in DOMAIN rs : rs[i] \in RouteRecs(S, M)
  BY SeqChanged
<1>13. DOMAIN e.routes = DOMAIN rs /\ \A i \in DOMAIN rs : e.routes[i] = [rs[i] EXCEPT !.service = To(@, a, b)]
  BY <1>11 DEF ServiceRenamed, Followed
<1>14. ASSUME NEW i \in DOMAIN rs
       PROVE  /\ e.routes[i].good = rs[i].good /\ e.routes[i].to = rs[i].to
              /\ ServiceDoes(e, e.routes[i].service) = ServiceDoes(d, rs[i].service)
              /\ ListDoes(e, e.routes[i].list, names) = ListDoes(d, rs[i].list, names)
  <2>1. PICK r \in RouteRecs(S, M) : r = rs[i]
    BY <1>12
  <2>2. PICK q : q = [r EXCEPT !.service = To(@, a, b)]
    OBVIOUS
  <2>3. q.good = r.good /\ q.to = r.to /\ q.service = To(r.service, a, b) /\ q.list = r.list
    BY <2>2 DEF RouteRecs
  <2>4. r.service \in S \union {Unset} /\ r.list \in Seq(M)
    BY DEF RouteRecs
  <2>5. ServiceDoes(e, q.service) = ServiceDoes(d, r.service) /\ ListDoes(e, q.list, names) = ListDoes(d, r.list, names)
    BY <1>7, <1>10, <2>3, <2>4
  <2>6. e.routes[i] = q
    BY <1>13, <2>1, <2>2
  <2>7. QED
    BY <2>1, <2>3, <2>5, <2>6
<1>15. DefaultDoes(e, e.default) = DefaultDoes(d, d.default)
  <2>1. PICK df \in DefaultRecs(S) : df = d.default
    BY DraftHas
  <2>2. PICK f : f = e.default
    OBVIOUS
  <2>3. f = [df EXCEPT !.service = To(@, a, b)]
    BY <2>1, <2>2 DEF ServiceRenamed
  <2>4. f.status = df.status /\ f.service = To(df.service, a, b) /\ df.service \in S \union {Unset}
    BY <2>3 DEF DefaultRecs
  <2>5. QED
    BY <1>7, <2>1, <2>2, <2>4 DEF DefaultDoes
<1>16. QED
  BY <1>11, <1>13, <1>14, <1>15, SameDone

\* So it is of a middleware, and of the servers that list it.
LEMMA MiddlewareRenamedDoes ==
    ASSUME NEW S, NEW M, NEW d, NEW e, Named(d, S, M), NEW a \in M, NEW b \in Nat \ {Unset}, b \notin M,
           MiddlewareRenamed(d, e, a, b), NEW names
    PROVE  DoesApart(e, names) = DoesApart(d, names)
<1>1. /\ DOMAIN d.services = S /\ DOMAIN d.mws = M /\ d.services \in [S -> ServiceRecs(M)]
      /\ d.mws \in [M -> MiddlewareRecs]
  BY DraftHas
<1>2. /\ DOMAIN e.mws = (M \ {a}) \union {b}
      /\ \A n \in (M \ {a}) \union {b} : e.mws[n] = d.mws[IF n = b THEN a ELSE n]
  BY <1>1 DEF MiddlewareRenamed, Renamed
<1>3. \A n \in M : To(n, a, b) \in DOMAIN e.mws /\ e.mws[To(n, a, b)] = d.mws[n]
  BY <1>1, <1>2 DEF To
<1>4. \A n \in M : KindOf(e, To(n, a, b)) = KindOf(d, n)
  BY <1>1, <1>3 DEF KindOf
<1>5. ASSUME NEW list \in Seq(M)
      PROVE  /\ DOMAIN Relisted(list, a, b) = DOMAIN list
             /\ \A k \in DOMAIN list : Relisted(list, a, b)[k] = To(list[k], a, b) /\ list[k] \in M
  BY SeqChanged DEF Relisted
<1>6. ASSUME NEW list \in Seq(M)
      PROVE  KindsDone(e, Relisted(list, a, b)) = KindsDone(d, list)
  BY <1>4, <1>5 DEF KindsDone
<1>7. ASSUME NEW servers \in Seq(ServerRecs(M))
      PROVE  ServersDo(e, ListsChanged(servers, a, b)) = ServersDo(d, servers)
  <2>1. PICK new : new = ListsChanged(servers, a, b)
    OBVIOUS
  <2>2. DOMAIN new = DOMAIN servers /\ \A k \in DOMAIN servers : new[k] = [servers[k] EXCEPT !.list = Relisted(@, a, b)]
    BY <2>1 DEF ListsChanged
  <2>3. ASSUME NEW k \in DOMAIN servers
        PROVE  new[k].goes = servers[k].goes /\ KindsDone(e, new[k].list) = KindsDone(d, servers[k].list)
    <3>1. PICK r \in ServerRecs(M) : r = servers[k]
      BY SeqChanged
    <3>2. PICK q : q = [r EXCEPT !.list = Relisted(@, a, b)]
      OBVIOUS
    <3>3. q.goes = r.goes /\ q.list = Relisted(r.list, a, b) /\ r.list \in Seq(M)
      BY <3>2 DEF ServerRecs
    <3>4. QED
      BY <1>6, <2>2, <3>1, <3>2, <3>3
  <2>4. QED
    BY <2>1, <2>2, <2>3 DEF ServersDo
<1>8. DOMAIN e.services = S /\ \A n \in S : e.services[n] = [d.services[n] EXCEPT !.servers = ListsChanged(d.services[n].servers, a, b)]
  BY <1>1 DEF MiddlewareRenamed, ServersMapped
<1>9. ASSUME NEW n \in S
      PROVE  ServiceDone(e, e.services[n]) = ServiceDone(d, d.services[n])
  <2>1. PICK s \in ServiceRecs(M) : s = d.services[n]
    BY <1>1
  <2>2. PICK t : t = [s EXCEPT !.servers = ListsChanged(s.servers, a, b)]
    OBVIOUS
  <2>3. t.options = s.options /\ t.blocks = s.blocks /\ t.servers = ListsChanged(s.servers, a, b) /\ s.servers \in Seq(ServerRecs(M))
    BY <2>2 DEF ServiceRecs
  <2>4. ServiceDone(e, t) = ServiceDone(d, s)
    BY <1>7, <2>3 DEF ServiceDone
  <2>5. QED
    BY <1>8, <2>1, <2>2, <2>4
<1>10. \A n : ServiceDoes(e, n) = ServiceDoes(d, n)
  <2>1. \A n : {ServiceDone(e, e.services[m]) : m \in DOMAIN e.services \intersect {n}} =
              {ServiceDone(d, d.services[m]) : m \in DOMAIN d.services \intersect {n}}
    BY <1>1, <1>8, <1>9
  <2>2. QED
    BY <2>1, DoesByParts
<1>11. \A n \in M : MiddlewareDoes(e, To(n, a, b), names) = MiddlewareDoes(d, n, names)
  BY <1>1, <1>3, <1>4, <1>10 DEF MiddlewareDoes
<1>12. ASSUME NEW list \in Seq(M)
       PROVE  ListDoes(e, Relisted(list, a, b), names) = ListDoes(d, list, names)
  BY <1>5, <1>11 DEF ListDoes
<1>13. PICK rs \in Seq(RouteRecs(S, M)) : rs = d.routes
  BY DraftHas
<1>14. DOMAIN e.routes = DOMAIN rs /\ \A i \in DOMAIN rs : e.routes[i] = [rs[i] EXCEPT !.list = Relisted(@, a, b)]
  BY <1>13 DEF MiddlewareRenamed, ListsChanged
<1>15. ASSUME NEW i \in DOMAIN rs
       PROVE  /\ e.routes[i].good = rs[i].good /\ e.routes[i].to = rs[i].to
              /\ ServiceDoes(e, e.routes[i].service) = ServiceDoes(d, rs[i].service)
              /\ ListDoes(e, e.routes[i].list, names) = ListDoes(d, rs[i].list, names)
  <2>1. PICK r \in RouteRecs(S, M) : r = rs[i]
    BY SeqChanged
  <2>2. PICK q : q = [r EXCEPT !.list = Relisted(@, a, b)]
    OBVIOUS
  <2>3. /\ q.good = r.good /\ q.to = r.to /\ q.service = r.service /\ q.list = Relisted(r.list, a, b)
        /\ r.list \in Seq(M)
    BY <2>2 DEF RouteRecs
  <2>4. ServiceDoes(e, q.service) = ServiceDoes(d, r.service) /\ ListDoes(e, q.list, names) = ListDoes(d, r.list, names)
    BY <1>10, <1>12, <2>3
  <2>5. e.routes[i] = q
    BY <1>14, <2>1, <2>2
  <2>6. QED
    BY <2>1, <2>3, <2>4, <2>5
<1>16. DefaultDoes(e, e.default) = DefaultDoes(d, d.default)
  BY <1>10 DEF DefaultDoes, MiddlewareRenamed
<1>17. QED
  BY <1>13, <1>14, <1>15, <1>16, SameDone

\* Renaming a service or a middleware changes nothing of what the routes and the default do, in every
\* draft - their services, those of the mirrors, the middlewares of routes and of servers - but for what an
\* errors page takes from a service of the old name or of the new one: its service is not renamed
\* (renameService, renameMiddleware; HttpEditor.tsx:641-662).
THEOREM RenamesChangeNothing == HttpSpec => RenameChangesNothing
<1>1. ASSUME HttpInv, [HttpNext]_httpVars
      PROVE  [(renamed' /\ MirrorsFound(draft)) =>
                 DoesApart(draft', NamesChanged(draft, draft')) = DoesApart(draft, NamesChanged(draft, draft'))]_httpVars
  <2> SUFFICES ASSUME HttpNext, renamed' = TRUE, MirrorsFound(draft)
               PROVE  DoesApart(draft', NamesChanged(draft, draft')) = DoesApart(draft, NamesChanged(draft, draft'))
    BY <1>1
  <2>1. PICK S, M : Named(draft, S, M)
    BY <1>1 DEF HttpInv
  <2>2. CASE RenameService
    <3>1. PICK a \in S, b \in Free(draft.services) : ServiceRenamed(draft, draft', a, b)
      BY <2>1, <2>2, RenamedIs
    <3>2. b \in Nat \ {Unset} /\ b \notin S
      BY <2>1, DraftHas, FreeIsNew
    <3>3. DOMAIN draft'.services = (S \ {a}) \union {b} /\ DOMAIN draft.services = S
      BY <2>1, <3>1, DraftHas DEF ServiceRenamed, Renamed
    <3>4. a \in NamesChanged(draft, draft') /\ b \in NamesChanged(draft, draft')
      BY <3>2, <3>3 DEF NamesChanged
    <3>5. QED
      BY <2>1, <3>1, <3>2, <3>4, RenamedDoes
  <2>3. CASE RenameMiddleware
    <3>1. PICK a \in M, b \in Free(draft.mws) : MiddlewareRenamed(draft, draft', a, b)
      BY <2>1, <2>3, MiddlewareRenamedIs
    <3>2. b \in Nat \ {Unset} /\ b \notin M
      BY <2>1, DraftHas, FreeIsNew
    <3>3. QED
      BY <2>1, <3>1, <3>2, MiddlewareRenamedDoes
  <2>4. CASE ~RenameService /\ ~RenameMiddleware
    <3>1. renamed' = FALSE
      BY <2>4 DEF HttpNext, Edit, AddRoute, MoveRoute, RemoveRoute, EditRoute, AddService, EditServer, EditService,
            RemoveService, AddMiddleware, EditMiddleware, RemoveMiddleware, EditDefault, Becomes
    <3>2. QED
      BY <3>1
  <2>5. QED
    BY <2>2, <2>3, <2>4
<1>2. QED
  BY <1>1, HttpInductive, PTL DEF HttpSpec, RenameChangesNothing
=============================================================================

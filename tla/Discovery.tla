----------------------------- MODULE Discovery -----------------------------
(***************************************************************************)
(* The rproxy of Kubernetes a UI process may look at (nodes.ts and         *)
(* rproxy.ts).  A controller keeps a Secret with their list and a token to *)
(* ask them with; the kubelet changes all its files at once.  Before each  *)
(* use the process looks at the time of the list, and reads list and token *)
(* anew when that has changed.  A pod that answers 401 is not asked again  *)
(* until then: it would lock the UI out.                                   *)
(*                                                                         *)
(* The process reads without a pause, but the files change while it does.  *)
(* Its requests to the pods go on beside each other.                       *)
(***************************************************************************)
EXTENDS Naturals, FiniteSets

CONSTANTS
    Pods,
    PodTokens,
    Requests,       \* at most as many go on at once
    NoPod, NoToken,
    MaxRewrites     \* bound: changes of the Secret and of the pods

ASSUME DiscoveryAssumption ==
    NoPod \notin Pods /\ NoToken \notin PodTokens /\ IsFiniteSet(Requests) /\ MaxRewrites \in Nat

VARIABLES
    secret,     \* the Secret: its time, and whether it can be used
    accepts,    \* the token each pod accepts
    cache,      \* discoveryCache
    reading,    \* loadDiscovery under way: where it is, and what it has seen
    stale,      \* staleNodes
    sent,       \* the requests to the pods
    rewrites,
    offered,    \* history: what the Secret held since loadDiscovery was called
    unauth      \* history: 401 answers of each pod since the Secret was read

discoveryVars == <<secret, accepts, cache, reading, stale, sent, rewrites, offered, unauth>>
-----------------------------------------------------------------------------
Empty == [pods |-> {}, token |-> NoToken]
Lists == [pods : SUBSET Pods, token : PodTokens \union {NoToken}]
Secrets == {s \in [there : BOOLEAN, mtime : {0}, good : BOOLEAN, list : Lists \ {Empty}] :
                s.list.token # NoToken /\ (s.good => s.there)}
\* parseDiscovery: what cannot be used counts as empty.
Usable(s) == IF s.there /\ s.good THEN s.list ELSE Empty
mtimeOf(s) == IF s.there THEN s.mtime ELSE 0

NotSent == [pod |-> NoPod, token |-> NoToken, asked |-> FALSE]

Rewriting == rewrites < MaxRewrites /\ rewrites' = rewrites + 1

NothingKnown ==
    /\ cache = [mtime |-> 0, list |-> Empty]
    /\ reading = [pc |-> "rest", at |-> 0, pods |-> {}]
    /\ stale = {}
    /\ sent = [r \in Requests |-> NotSent]
    /\ rewrites = 0
    /\ offered = {}
    /\ unauth = [p \in Pods |-> 0]

DiscoveryInit ==
    /\ secret \in {[s EXCEPT !.mtime = 1] : s \in Secrets}
    /\ accepts \in [Pods -> PodTokens]
    /\ NothingKnown

\* Mutant: the pods that were refused are forgotten at every call.
CallForgets ==
    /\ reading.pc = "rest"
    /\ reading' = [reading EXCEPT !.at = mtimeOf(secret),
                                  !.pc = IF mtimeOf(secret) = cache.mtime THEN "use" ELSE "list"]
    /\ offered' = {Usable(secret)}
    /\ stale' = {}
    /\ UNCHANGED <<secret, accepts, cache, sent, rewrites, unauth>>

\* loadDiscovery: the time first.
Call ==
    /\ reading.pc = "rest"
    /\ reading' = [reading EXCEPT !.at = mtimeOf(secret),
                                  !.pc = IF mtimeOf(secret) = cache.mtime THEN "use" ELSE "list"]
    /\ offered' = {Usable(secret)}
    /\ UNCHANGED <<secret, accepts, cache, stale, sent, rewrites, unauth>>

Reloaded(list) ==
    /\ cache' = [mtime |-> reading.at, list |-> list]
    /\ reading' = [reading EXCEPT !.pc = "use"]
    /\ stale' = {}
    /\ unauth' = [p \in Pods |-> 0]

\* Mutant: what was known stays when the list cannot be read.
ReadListKeeps ==
    /\ reading.pc = "list"
    /\ IF reading.at = 0 \/ Usable(secret) = Empty
       THEN Reloaded(cache.list)
       ELSE reading' = [reading EXCEPT !.pc = "token", !.pods = secret.list.pods] /\ UNCHANGED <<cache, stale, unauth>>
    /\ UNCHANGED <<secret, accepts, sent, rewrites, offered>>

\* The list; when it is missing or wrong nothing is known.
ReadList ==
    /\ reading.pc = "list"
    /\ IF reading.at = 0 \/ Usable(secret) = Empty
       THEN Reloaded(Empty)
       ELSE reading' = [reading EXCEPT !.pc = "token", !.pods = secret.list.pods] /\ UNCHANGED <<cache, stale, unauth>>
    /\ UNCHANGED <<secret, accepts, sent, rewrites, offered>>

\* Its token.
ReadToken ==
    /\ reading.pc = "token"
    /\ Reloaded(IF Usable(secret) = Empty THEN Empty ELSE [pods |-> reading.pods, token |-> secret.list.token])
    /\ UNCHANGED <<secret, accepts, sent, rewrites, offered>>

\* A request takes over the pod and the token; or no pod is to be asked.
Take(r, p) ==
    /\ reading.pc = "use"
    /\ sent[r] = NotSent /\ p \in cache.list.pods
    /\ sent' = [sent EXCEPT ![r] = [pod |-> p, token |-> cache.list.token, asked |-> FALSE]]
    /\ reading' = [reading EXCEPT !.pc = "rest"]
    /\ UNCHANGED <<secret, accepts, cache, stale, rewrites, offered, unauth>>

NotAsked ==
    /\ reading.pc = "use"
    /\ reading' = [reading EXCEPT !.pc = "rest"]
    /\ UNCHANGED <<secret, accepts, cache, stale, sent, rewrites, offered, unauth>>

\* request: a pod that was refused is not asked.
Send(r) ==
    /\ sent[r] # NotSent /\ ~sent[r].asked
    /\ sent' = [sent EXCEPT ![r] = IF sent[r].pod \in stale THEN NotSent ELSE [@ EXCEPT !.asked = TRUE]]
    /\ UNCHANGED <<secret, accepts, cache, reading, stale, rewrites, offered, unauth>>

\* The answer, or none.
Answer(r) ==
    LET p == sent[r].pod IN
    /\ sent[r].asked
    /\ sent' = [sent EXCEPT ![r] = NotSent]
    /\ \/ UNCHANGED <<stale, unauth>>
       \/ /\ accepts[p] # sent[r].token
          /\ stale' = stale \union {p}
          /\ unauth' = [unauth EXCEPT ![p] = @ + 1]
    /\ UNCHANGED <<secret, accepts, cache, reading, rewrites, offered>>

\* The controller writes the Secret or deletes it.
Rewrite(new) ==
    /\ Rewriting
    /\ secret' = [new EXCEPT !.mtime = secret.mtime + 1]
    /\ offered' = offered \union {Usable(new)}
    /\ UNCHANGED <<accepts, cache, reading, stale, sent, unauth>>

\* A pod is replaced, or takes another token.
Replace(p, t) ==
    /\ Rewriting
    /\ accepts' = [accepts EXCEPT ![p] = t]
    /\ UNCHANGED <<secret, cache, reading, stale, sent, offered, unauth>>

DiscoveryNext ==
    \/ Call \/ ReadList \/ ReadToken \/ NotAsked
    \/ \E r \in Requests, p \in Pods : Take(r, p)
    \/ \E r \in Requests : Send(r) \/ Answer(r)
    \/ \E new \in Secrets : Rewrite(new)
    \/ \E p \in Pods, t \in PodTokens : Replace(p, t)

DiscoverySpec == DiscoveryInit /\ [][DiscoveryNext]_discoveryVars
-----------------------------------------------------------------------------
\* A pod does not hear wrong tokens without end: between two readings of the
\* Secret it answers 401 at most once per request that can go on at once, those
\* sent before the first reading included (rproxy.ts:264).
NotLockedOut == \A p \in Pods : unauth[p] <= Cardinality(Requests)

\* What is used was in the Secret since it was last looked for: pods that left
\* it are not asked any more (nodes.ts:356).
ListedIsCurrent ==
    reading.pc = "use" =>
        /\ \E o \in offered : cache.list.pods = o.pods
        /\ cache.list.pods # {} => \E o \in offered : cache.list.token = o.token
=============================================================================

----------------------------- MODULE Dashboard -----------------------------
(***************************************************************************)
(* What the dashboard says of one rule and of what the nodes run under its *)
(* key (listOnNodes, apirules.ts, dashboard.ts, pages/index.tsx): the row  *)
(* is compared with the answer of every node, the answers are taken        *)
(* together, rules that are not of the UI are added, and of all these the  *)
(* ones that need attention are listed, for all nodes or for one tab.      *)
(*                                                                         *)
(* The nodes are named by their order, which decides whose certificates    *)
(* stand for all.  Certificates, ACME and limits of a rule on a node are   *)
(* as bad as the worst of them.                                            *)
(***************************************************************************)
EXTENDS Naturals, FiniteSets, Sequences

CONSTANT DashNodes      \* how many nodes there are

ASSUME DashAssumption == DashNodes \in Nat \ {0}

VARIABLES
    answers,    \* the answer of each node for the key
    holds,      \* does it hold an address of the act/standby group?
    apiRows,    \* the nodes with a row of an API client's rule (rproxy_rules)
    uiRow,      \* the row of the rule
    viewer,     \* who looks
    shownTab    \* the tab that is open

dashVars == <<answers, holds, apiRows, uiRow, viewer, shownTab>>
-----------------------------------------------------------------------------
Members(place) == IF place = "group" THEN 1..DashNodes ELSE {1}
\* The row; moved says that the last node has an override of the address.
DashKeys == {[there |-> there, place |-> place, paused |-> paused, mine |-> mine, moved |-> moved] :
                there \in BOOLEAN, place \in {"group", "first"}, paused \in BOOLEAN, mine \in BOOLEAN, moved \in BOOLEAN}

Status == [answers |-> TRUE, state |-> "running", origin |-> "dynamic", cert |-> "none", acme |-> "none",
           full |-> FALSE, differs |-> FALSE]
NotThere == [Status EXCEPT !.state = "absent"]
Down == [Status EXCEPT !.answers = FALSE, !.state = "absent"]

Statuses == [answers : BOOLEAN, state : {"running", "failed", "absent"}, origin : {"dynamic", "api", "static"},
             cert : {"none", "ok", "bad"}, acme : {"none", "valid", "pending", "waiting", "error"},
             full : BOOLEAN, differs : BOOLEAN]
\* What can be the matter with a rule on a node: it has failed, is another's or differs; its certificates
\* or ACME are not well; or it is full.
Matters ==
    {s \in Statuses :
        /\ s.answers /\ s.state # "absent"
        /\ \/ s.cert = "none" /\ s.acme = "none" /\ ~s.full
           \/ s.state = "running" /\ s.origin = "dynamic" /\ ~s.full /\ ~s.differs
           \/ s.state = "running" /\ s.origin = "dynamic" /\ s.full /\ s.cert # "ok" /\ s.acme = "none"}

Admin == viewer.role = "admin"
Visible == viewer.sees

\* A rule of an API client, or of a set of rules, is under the key (isShadowing).
Shadowing(s) == s.state # "absent" /\ s.origin = "api"
-----------------------------------------------------------------------------
\* nodeLiveState: one node.  A user learns nothing of another's rule under the key.
NodeState(n) ==
    LET s == answers[n]
        heard == n \in Visible /\ s.answers
        hidden == ~Admin /\ Shadowing(s)
        there == heard /\ s.state # "absent" /\ ~hidden
    IN  [node |-> n,
         state |-> IF uiRow.paused THEN "paused" ELSE IF ~heard THEN "unknown"
                   ELSE IF there THEN s.state ELSE "missing",
         cert |-> IF there THEN s.cert ELSE "none",
         acme |-> IF there THEN s.acme ELSE "none",
         full |-> there /\ s.full,
         drift |-> there /\ (uiRow.paused \/ s.differs)]

StateOrder == <<"failed", "missing", "unknown", "running", "paused">>
\* Pending is pending, whether or not an attempt has failed.
acmeRank(a) == CASE a = "none" -> 0 [] a = "valid" -> 1 [] a \in {"pending", "waiting"} -> 2 [] OTHER -> 3

FirstOf(S) == CHOOSE n \in S : \A m \in S : n.node <= m.node
FirstState(order, S) == order[CHOOSE i \in DOMAIN order :
                                 /\ \E n \in S : n.state = order[i]
                                 /\ \A j \in 1..(i - 1) : \A n \in S : n.state # order[j]]

\* aggregateNodeStates: the worst state, the first node's certificates, the worst ACME status.
aggregate(S) ==
    LET certs == {n \in S : n.cert # "none"}
        worst == {n \in S : \A m \in S : acmeRank(m.acme) <= acmeRank(n.acme)}
    IN  [state |-> FirstState(StateOrder, S),
         cert |-> IF certs = {} THEN "none" ELSE FirstOf(certs).cert,
         acme |-> FirstOf(worst).acme]

\* vipAddrs, haStatus: only nodes that answer are known.
haWarning ==
    LET known == {n \in Visible : holds[n] # "unknown"}
        active == {n \in known : holds[n] = "yes"}
    IN  IF Cardinality(active) > 1 THEN "split"
        ELSE IF active = {} /\ known = 1..DashNodes THEN "none" ELSE "fine"

\* The row is one that is read for this viewer.
OwnRow == uiRow.there /\ (Admin \/ uiRow.mine)
UsedAtAnywhere(n) == OwnRow     \* by the key alone, wherever the rule is
UsedAt(n) == OwnRow /\ n \in Members(uiRow.place)

\* withNodeStates: the rule of the UI.
UiRule ==
    LET S == {NodeState(n) : n \in Members(uiRow.place)}
        all == aggregate(S)
    IN  [id |-> <<"ui", 0>>, nodes |-> S, cert |-> all.cert, acme |-> all.acme,
         state |-> IF uiRow.paused THEN "paused" ELSE all.state,
         ha |-> IF uiRow.place = "group" THEN haWarning ELSE "fine"]

\* mergeExternalRules, with the live rule (apiRuleFromStatus, ruleFromStatus) or the row (apiRuleFromRow).
\* The entry of its node is built without the certificates and ACME, which only the rule has.
External(n) ==
    LET s == answers[n]
        state == IF s.state # "absent" THEN s.state ELSE IF s.answers THEN "missing" ELSE "unknown"
        one == [node |-> n, state |-> state, cert |-> "none", acme |-> "none", full |-> s.full, drift |-> FALSE]
    IN  [id |-> <<"external", n>>, nodes |-> {one}, cert |-> s.cert, acme |-> s.acme, state |-> state, ha |-> "fine"]
HasExternal(n) ==
    /\ n \in Visible /\ ~UsedAt(n)
    /\ \/ answers[n].state # "absent" /\ (Admin \/ answers[n].origin = "static")
       \/ Admin /\ n \in apiRows

listed == (IF OwnRow THEN {UiRule} ELSE {}) \union {External(n) : n \in {m \in 1..DashNodes : HasExternal(m)}}

\* projectRule: the rule as a tab shows it.
projected(r, n) ==
    LET one == CHOOSE x \in r.nodes : x.node = n
    IN  [r EXCEPT !.nodes = {one}, !.state = one.state, !.cert = one.cert, !.acme = one.acme]
shownRules ==
    IF shownTab = 0 THEN listed
    ELSE {projected(r, shownTab) : r \in {x \in listed : \E s \in x.nodes : s.node = shownTab}}

\* ruleHref: the link of a row, with the address the rule has where it is shown (effectiveRule).
Link(r) == [place |-> IF r.id[1] = "external" THEN {r.id[2]} ELSE Members(uiRow.place),
            address |-> IF r.id[1] = "ui" /\ shownTab = DashNodes /\ uiRow.moved THEN "other" ELSE "own"]
\* getOnNodes: the page of a link.  Without a row, the first node with a rule that may be shown; then the
\* row of an API client; then not found, or that a node cannot be asked.
PageOf(link) ==
    LET row == OwnRow /\ link.address = "own" /\ link.place = Members(uiRow.place)
        here(n) == link.address = "own" \/ n = DashNodes
        running == {n \in link.place : here(n) /\ answers[n].state # "absent" /\ (Admin \/ answers[n].origin = "static")}
        rows == IF Admin /\ link.address = "own" THEN link.place \intersect apiRows ELSE {}
        least(S) == CHOOSE n \in S : \A m \in S : n <= m
    IN  IF ~(link.place \subseteq Visible) THEN {}
        ELSE IF row THEN {UiRule}
        ELSE IF running # {} THEN {External(least(running))}
        ELSE {External(least(rows)) : n \in rows}
-----------------------------------------------------------------------------
certIssue(r) == r.cert = "bad" \/ r.acme \in {"waiting", "error"}
\* targetFullProblem: several nodes each for itself, one by the rule.
targetFull(r) == \E n \in r.nodes : n.full /\ (IF Cardinality(r.nodes) > 1 THEN n.state = "running" ELSE r.state = "running")
nodeIssue(r) == (\E n \in r.nodes : n.drift) \/ r.ha # "fine"
Broken(r) == r.state \in {"failed", "missing"}

\* Only rules that run: a rule unknown on one node would not be listed for the drift on another.
NodeIssuesOfRunning(r) == r.state = "running" /\ ~certIssue(r) /\ ~targetFull(r) /\ nodeIssue(r)
\* needsAttention: how often a rule is in the list.  Rules that are full are listed whatever their state.
NodeIssues(r) == ~Broken(r) /\ ~certIssue(r) /\ ~targetFull(r) /\ nodeIssue(r)
timesListed(r) ==
    Cardinality({part \in {"broken", "certs", "fulls", "issues"} :
        CASE part = "broken" -> Broken(r)
          [] part = "certs" -> ~Broken(r) /\ certIssue(r)
          [] part = "fulls" -> ~certIssue(r) /\ targetFull(r)
          [] OTHER -> NodeIssues(r)})

\* listOnNodes: the summaries of the nodes count the rules of the UI.
FailedAt(n) == OwnRow /\ \E s \in UiRule.nodes : s.node = n /\ n \in Visible /\ s.state \in {"failed", "missing"}
DriftedAt(n) == OwnRow /\ \E s \in UiRule.nodes : s.node = n /\ s.drift
-----------------------------------------------------------------------------
\* Anything may be the matter with one node; what else there is varies when nothing much is.
Few == {Status, NotThere, Down, [Status EXCEPT !.origin = "api"]}
DashInit ==
    /\ uiRow \in {k \in DashKeys : k.moved => k.place = "group" /\ k.there}
    /\ viewer \in {[role |-> "admin", sees |-> 1..DashNodes]}
                    \union {[role |-> "user", sees |-> S] : S \in (SUBSET (1..DashNodes)) \ {{}}}
    /\ shownTab = 0
    /\ \/ /\ ~uiRow.moved
          /\ answers \in [1..DashNodes -> Matters \union Few]
          /\ holds = [n \in 1..DashNodes |-> IF n = 1 THEN "yes" ELSE "no"]
          /\ apiRows = {}
       \/ /\ answers \in [1..DashNodes -> Few]
          /\ holds \in [1..DashNodes -> {"yes", "no", "unknown"}]
          /\ apiRows \in SUBSET (1..DashNodes)

\* Another tab; those of nodes that are not seen are not there.
SelectTab(t) ==
    /\ t # shownTab
    /\ t \in Visible \union {0}
    /\ shownTab' = t
    /\ UNCHANGED <<answers, holds, apiRows, uiRow, viewer>>

DashNext == \E t \in 0..DashNodes : SelectTab(t)
DashSpec == DashInit /\ [][DashNext]_dashVars
-----------------------------------------------------------------------------
\* What is the matter with a rule, said of the nodes one by one.
Nodes(id) == (IF id[1] = "ui" THEN Members(uiRow.place) ELSE {id[2]}) \intersect
                 (IF shownTab = 0 THEN Visible ELSE {shownTab})
Unseen(id, s) == id[1] = "ui" /\ ~Admin /\ Shadowing(s)
BrokenAt(id, n) ==
    LET s == answers[n] IN
        /\ s.answers
        /\ id[1] = "ui" => ~uiRow.paused
        /\ s.state # "running" \/ Unseen(id, s)
CertAt(id, n) == ~Unseen(id, answers[n]) /\ (answers[n].cert = "bad" \/ answers[n].acme \in {"waiting", "error"})
FullAt(id, n) ==
    LET s == answers[n] IN
        /\ s.full /\ s.state = "running" /\ ~Unseen(id, s)
        /\ id[1] = "ui" => ~uiRow.paused
DriftAt(id, n) ==
    LET s == answers[n] IN
        id[1] = "ui" /\ s.answers /\ s.state # "absent" /\ ~Unseen(id, s) /\ (uiRow.paused \/ s.differs)
CertTrouble(id) == \E n \in Nodes(id) : CertAt(id, n)
OtherTrouble(id) ==
    \/ \E n \in Nodes(id) : BrokenAt(id, n) \/ FullAt(id, n) \/ DriftAt(id, n)
    \/ id[1] = "ui" /\ uiRow.place = "group" /\ haWarning # "fine"

\* A later node's certificates are overlooked (dashboard.ts:709), and so is an attempt that failed on a
\* later node when an earlier one is waiting for its first (dashboard.ts:711).
Overlooked(id) ==
    /\ shownTab = 0
    /\ \E n \in Nodes(id), m \in Nodes(id) :
          /\ m < n
          /\ \/ answers[m].cert # "none" /\ answers[n].cert = "bad"
             \/ answers[m].acme = "pending" /\ answers[n].acme = "waiting"
\* A tab shows what the entry of its node has, and for a rule that is not of the UI that is nothing of its
\* certificates and ACME ([forward].ts:903, dashboard.ts:901).
LeftOut(id) == shownTab # 0 /\ id[1] = "external"

\* Of the rules shown, for all nodes or in a tab, each that is broken, full, different or has a warning of
\* its group is in the list of those that need attention, and so is each with certificates or ACME that
\* are not well, but where the code overlooks them or leaves them out.  No other is, and none twice but
\* one that is broken on one node and full on another.  A node's failures and drift are counted where
\* they are.
AttentionIsComplete ==
    /\ \A r \in shownRules :
          /\ OtherTrouble(r.id) => timesListed(r) > 0
          /\ CertTrouble(r.id) => timesListed(r) > 0 \/ Overlooked(r.id) \/ LeftOut(r.id)
          /\ timesListed(r) > 0 => OtherTrouble(r.id) \/ CertTrouble(r.id)
          /\ timesListed(r) > 1 => (\E n \in Nodes(r.id) : BrokenAt(r.id, n)) /\ (\E n \in Nodes(r.id) : FullAt(r.id, n))
    /\ \A n \in Visible : OwnRow /\ n \in Members(uiRow.place) =>
          /\ FailedAt(n) <=> BrokenAt(<<"ui", 0>>, n)
          /\ DriftedAt(n) <=> DriftAt(<<"ui", 0>>, n)

\* What a visible node runs under the key is in the list once: as the rule of the UI, or as one of another
\* origin; users are shown the latter only when they are static.
EachRuleOnce ==
    \A n \in Visible :
        Cardinality({r \in listed : \E s \in r.nodes : s.node = n}) =
            IF UsedAt(n) THEN 1
            ELSE IF answers[n].state = "absent" THEN (IF Admin /\ n \in apiRows THEN 1 ELSE 0)
            ELSE IF Admin \/ answers[n].origin = "static" THEN 1 ELSE 0

\* The link of a row opens the rule that the row says, in the state the list has it in, unless it is on a
\* node the viewer may not see.  Not so in the tab of a node with an override of the address: the link has
\* the address of the override, under which there is no row (index.tsx:390, dashboard.ts:889).
LinkOpensRule ==
    \A r \in shownRules :
        LET page == PageOf(Link(r)) IN
        \/ page = {} /\ ~(Link(r).place \subseteq Visible)
        \/ page \subseteq listed /\ \E x \in page : x.id = r.id
        \/ Link(r).address = "other"

\* The list has every rule once, points at those with troubles, and opens them.
ListIsTrue == EachRuleOnce /\ AttentionIsComplete /\ LinkOpensRule
=============================================================================

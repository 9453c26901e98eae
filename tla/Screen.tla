------------------------------- MODULE Screen -------------------------------
(***************************************************************************)
(* A page that shows what it read and reads it again: the page of a rule   *)
(* (useRule, useAutoRefresh in ui.tsx), which can copy or move the rule    *)
(* and then shows the other one, and the dashboard (pages/index.tsx), which *)
(* shows all rules as one and never finds nothing.                         *)
(*                                                                         *)
(* What is under a URL has a version, none (0) when it is not there.  The  *)
(* page asks, the server reads, the page takes the answer; actions and     *)
(* other users change things between any two of these.                     *)
(***************************************************************************)
EXTENDS Naturals, FiniteSets

CONSTANT MaxScreenEvents    \* bound: what users do, and answers that are lost

VARIABLES
    page,       \* which page it is
    url,        \* the rule in its URL
    there,      \* the version of each rule
    shown,      \* page: the rule that is shown, if any
    notFound,   \* page: says that it is not there
    loads,      \* the loads under way
    acting,     \* the action of the user that is under way
    switches,   \* page: automatic refresh, tab in sight, question asked
    happened    \* how much has happened

screenVars == <<page, url, there, shown, notFound, loads, acting, switches, happened>>
-----------------------------------------------------------------------------
Urls == {"here", "copy"}
Asked(k) == [pc |-> "sent", url |-> k, got |-> 0]

ScreenInit ==
    /\ page \in {"rule", "dashboard"}
    /\ url = "here"
    /\ there = [k \in Urls |-> IF k = "here" THEN 1 ELSE 0]
    /\ shown = {} /\ notFound = FALSE
    /\ loads = {Asked("here")}
    /\ acting = "no"
    /\ switches = [auto |-> TRUE, visible |-> TRUE, asking |-> FALSE]
    /\ happened = 0

Happens == happened < MaxScreenEvents /\ happened' = happened + 1
Newest == IF there["here"] > there["copy"] THEN there["here"] ELSE there["copy"]
Changed(k) == [there EXCEPT ![k] = Newest + 1]
Same == UNCHANGED <<page, url, there, shown, notFound, acting, switches, happened>>
-----------------------------------------------------------------------------
\* load: not while another is under way, or whenever it is called.
loadAnyway(k) == loads' = IF Cardinality(loads) < 2 THEN loads \union {Asked(k)} ELSE loads
load(k) == loads' = IF loads = {} THEN {Asked(k)} ELSE loads

\* useAutoRefresh: the rule's page refreshes while it shows a rule and asks nothing.
Enabled == switches.auto /\ (page = "rule" => shown # {} /\ ~switches.asking)
Tick ==
    /\ Enabled /\ switches.visible
    /\ load(url) /\ loads' # loads
    /\ Same
Refresh ==
    /\ page = "dashboard" /\ Happens
    /\ load(url)
    /\ UNCHANGED <<page, url, there, shown, notFound, acting, switches>>

\* A load that failed is never over.
LoadFailsForGood(l) ==
    /\ l.pc = "sent"
    /\ Happens
    /\ loads' = {[l EXCEPT !.pc = "failed"]}
    /\ UNCHANGED <<page, url, there, shown, notFound, acting, switches>>
\* The server reads, or the load fails; the answer is taken when it comes.
Read(l) ==
    /\ l.pc = "sent"
    /\ loads' = (loads \ {l}) \union {[l EXCEPT !.pc = "read", !.got = there[l.url]]}
    /\ Same
LoadFails(l) ==
    /\ l.pc = "sent"
    /\ Happens
    /\ loads' = loads \ {l}
    /\ UNCHANGED <<page, url, there, shown, notFound, acting, switches>>
Hear(l) ==
    /\ l.pc = "read"
    /\ shown' = IF l.got = 0 THEN {} ELSE {[url |-> l.url, version |-> l.got]}
    /\ notFound' = (l.got = 0)
    /\ loads' = IF page = "dashboard" THEN (loads \ {l}) \union {[l EXCEPT !.pc = "config"]} ELSE loads \ {l}
    /\ UNCHANGED <<page, url, there, acting, switches, happened>>
\* The dashboard then asks for the state of the configuration, come what may.
Configured(l) ==
    /\ l.pc = "config"
    /\ loads' = loads \ {l}
    /\ Same
-----------------------------------------------------------------------------
\* Pausing, resuming, resending: of the rule that is shown.  Then the page is loaded again.
Act ==
    /\ acting = "no" /\ shown # {}
    /\ Happens
    /\ acting' = "sent"
    /\ UNCHANGED <<page, url, there, shown, notFound, loads, switches>>
Carried ==
    /\ acting = "sent"
    /\ acting' = "done"
    /\ there' \in {there} \union {Changed(s.url) : s \in {x \in shown : there[x.url] # 0}}
    /\ UNCHANGED <<page, url, shown, notFound, loads, switches, happened>>
ReloadAfter ==
    /\ acting = "done"
    /\ acting' = "no"
    /\ switches' = [switches EXCEPT !.asking = FALSE]
    /\ load(url)
    /\ UNCHANGED <<page, url, there, shown, notFound, happened>>

\* Copying and moving; then the page goes to the copy.
Copy(move) ==
    /\ page = "rule" /\ url = "here" /\ acting = "no" /\ shown # {} /\ there["here"] # 0
    /\ Happens
    /\ there' = [Changed("copy") EXCEPT !["here"] = IF move THEN 0 ELSE @]
    /\ acting' = "copied"
    /\ UNCHANGED <<page, url, shown, notFound, loads, switches>>
GoToCopy ==
    /\ acting = "copied"
    /\ url' = "copy" /\ acting' = "no"
    /\ load("copy")
    /\ UNCHANGED <<page, there, shown, notFound, switches, happened>>

ChangedElsewhere ==
    /\ Happens
    /\ \/ \E k \in Urls : there[k] # 0 /\ there' = Changed(k)
       \/ page = "rule" /\ there[url] # 0 /\ there' = [there EXCEPT ![url] = 0]
    /\ UNCHANGED <<page, url, shown, notFound, loads, acting, switches>>

\* The tab is hidden and comes back, at which it is refreshed at once; a question is asked or dropped.
Switch(which) ==
    /\ Happens
    /\ switches' = [switches EXCEPT ![which] = ~@]
    /\ which = "asking" => page = "rule" /\ shown # {} /\ acting = "no"
    /\ IF which = "visible" /\ Enabled /\ ~switches.visible THEN load(url) ELSE UNCHANGED loads
    /\ UNCHANGED <<page, url, there, shown, notFound, acting>>

ScreenNext ==
    \/ Tick \/ Refresh
    \/ \E l \in loads : Read(l) \/ LoadFails(l) \/ Hear(l) \/ Configured(l)
    \/ Act \/ Carried \/ ReloadAfter
    \/ \E move \in BOOLEAN : Copy(move)
    \/ GoToCopy \/ ChangedElsewhere
    \/ \E which \in DOMAIN switches : Switch(which)

\* The timer runs, what is asked is answered, and answers are taken.
ScreenFairness ==
    /\ WF_screenVars(Tick)
    /\ WF_screenVars(\E l \in loads : Read(l) \/ Hear(l) \/ Configured(l))
    /\ WF_screenVars(Carried \/ ReloadAfter \/ GoToCopy)
ScreenSpec == ScreenInit /\ [][ScreenNext]_screenVars /\ ScreenFairness
-----------------------------------------------------------------------------
\* Answers are taken in the order they were read: the page never goes back to an older version of a rule.
ShownNeverOlder ==
    [][\A s \in shown, t \in shown' : s.url = t.url => s.version <= t.version]_screenVars

\* A page that refreshes itself ends up showing what is there under its URL, whatever was pressed, failed
\* or changed meanwhile.  A rule's page that shows no rule does not refresh itself: that is so when none
\* could be read, or there is none, or the page went to a copy while the rule it showed was being loaded.
Current == \E s \in shown : s.url = url /\ s.version = there[url]
ShowsNone == page = "rule" /\ shown = {} /\ (notFound => there[url] = 0 \/ url = "copy")
CatchesUp == <>[](switches.auto /\ switches.visible /\ ~switches.asking) => <>[](Current \/ ShowsNone)
=============================================================================

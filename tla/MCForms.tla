------------------------------ MODULE MCForms ------------------------------
(***************************************************************************)
(* The forms of a rule, its values, the list of the pods it is sent to and *)
(* what the dashboard says of it, in one run: one of the parts goes on, the *)
(* others rest with little in them.                                        *)
(***************************************************************************)
EXTENDS HttpDraft, RuleEdit, RuleValues, UserLimits, Discovery, Dashboard, GlobalPage

VARIABLE which      \* the part that goes on
-----------------------------------------------------------------------------
\* A draft from which everything was removed.
ValuesAtRest ==
    /\ section = [name |-> "labels", kind |-> "tcp"]
    /\ row = Nothing /\ live = Nothing
    /\ way = "stored"
HttpAtRest ==
    /\ draft = [EmptyHttp EXCEPT !.routes = <<>>, !.services = [n \in {} |-> {}]]
    /\ edits = 0
    /\ renamed = FALSE
FormAtRest ==
    stored = [shape |-> "udp", on |-> TRUE, dist |-> "old", tls |-> Tls("udp", "passthrough", FALSE, None),
              sec |-> NoSections]

\* A role of users, and its settings that occur.
Role == [targets |-> {}, certs |-> {}, bySub |-> {}, byRole |-> {}, cache |-> 1, nodes |-> {}]
List(addresses, names) == {[addresses |-> addresses, names |-> names]}
RoleSettings ==
    {[Role EXCEPT !.targets = List({"public"}, {}), !.certs = {"mine"}],
     [Role EXCEPT !.targets = List({}, {"name"}), !.bySub = {{"mine"}}, !.nodes = {"s"}],
     [Role EXCEPT !.targets = List({"loopback"}, {}), !.certs = {"other"}, !.byRole = {{}}, !.nodes = {"s", "t"}],
     Role}
ReservedPorts == {[address |-> "public", port |-> 2]}
LimitsAtRest ==
    /\ matter = "names" /\ limits = Role /\ dns = {"public"}
    /\ urule = {} /\ seen = {} /\ by = "admin"

NoSecret == [there |-> FALSE, mtime |-> 1, good |-> FALSE, list |-> Empty]
DiscoveryAtRest == secret = NoSecret /\ accepts = [p \in Pods |-> NoToken] /\ NothingKnown
\* The pods start with the token of the list (which one, does not matter).
PodsInit ==
    /\ DiscoveryInit
    /\ secret.list.token = CHOOSE t \in PodTokens : TRUE
    /\ \A p \in Pods : accepts[p] = secret.list.token

DashAtRest ==
    /\ answers = [n \in 1..DashNodes |-> NotThere] /\ holds = [n \in 1..DashNodes |-> "no"] /\ apiRows = {}
    /\ uiRow = [there |-> FALSE, place |-> "first", paused |-> FALSE, mine |-> FALSE, moved |-> FALSE]
    /\ viewer = [role |-> "user", sees |-> {1}] /\ shownTab = 0

PageAtRest ==
    /\ item = "proxies" /\ apiValue = [n \in GlobalNodes |-> Unwritten(item)] /\ streams = {}
    /\ data = apiValue /\ target = GlobalNodes /\ edit = Untouched /\ plan = NoPlan /\ request = Idle /\ used = 0

FormsInit ==
    /\ which \in {"http", "rule", "values", "limits", "pods", "dash", "page"}
    /\ IF which = "http" THEN HttpInit ELSE HttpAtRest
    /\ IF which = "rule" THEN EditInit ELSE FormAtRest /\ EditInit
    /\ IF which = "values" THEN ValuesInit ELSE ValuesAtRest
    /\ IF which = "limits" THEN UserInit ELSE LimitsAtRest
    /\ IF which = "pods" THEN PodsInit ELSE DiscoveryAtRest
    /\ IF which = "dash" THEN DashInit ELSE DashAtRest
    /\ IF which = "page" THEN PageInit ELSE PageAtRest

FormsNext ==
    /\ UNCHANGED which
    /\ \/ which = "http" /\ HttpNext /\ UNCHANGED <<editVars, valueVars, userVars, discoveryVars, dashVars, globalPageVars>>
       \/ which = "rule" /\ EditNext /\ UNCHANGED <<httpVars, valueVars, userVars, discoveryVars, dashVars, globalPageVars>>
       \/ which = "values" /\ ValuesNext /\ UNCHANGED <<httpVars, editVars, userVars, discoveryVars, dashVars, globalPageVars>>
       \/ which = "limits" /\ UserNext /\ UNCHANGED <<httpVars, editVars, valueVars, discoveryVars, dashVars, globalPageVars>>
       \/ which = "pods" /\ DiscoveryNext /\ UNCHANGED <<httpVars, editVars, valueVars, userVars, dashVars, globalPageVars>>
       \/ which = "dash" /\ DashNext /\ UNCHANGED <<httpVars, editVars, valueVars, userVars, discoveryVars, globalPageVars>>
       \/ which = "page" /\ PageNext /\ UNCHANGED <<httpVars, editVars, valueVars, userVars, discoveryVars, dashVars>>

FormsSpec == FormsInit /\ [][FormsNext]_<<which, httpVars, editVars, valueVars, userVars, discoveryVars, dashVars, globalPageVars>>
=============================================================================

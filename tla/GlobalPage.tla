----------------------------- MODULE GlobalPage -----------------------------
(***************************************************************************)
(* The page of the global settings (pages/global.tsx, globalsettings.ts):  *)
(* an administrator picks a node or the group, changes one of the items,   *)
(* has it tried (dry run), and applies it.  The form of an item holds the  *)
(* API value the nodes were read with, and replaces all of it.  Others     *)
(* change the settings meanwhile, and the administrator goes on using the  *)
(* page while an answer is awaited.                                        *)
(*                                                                         *)
(* What applying does on the nodes of a group is in GlobalApply; here all  *)
(* of them take the change or none does.                                   *)
(***************************************************************************)
EXTENDS Naturals, FiniteSets

CONSTANTS
    GlobalNodes,
    MaxUse              \* bound: what is done with the form, and what others change

\* There is a node, or there is no page.
ASSUME PageAssumption == GlobalNodes # {}

VARIABLES
    item,       \* the item that is changed: the times of HTTP, or a list of addresses
    apiValue,   \* rproxy: its API value on each node
    streams,    \* rproxy: the nodes that know the limits of streams
    data,       \* page: the values that were read
    target,     \* page: the nodes of what is picked
    edit,       \* page: the form
    plan,       \* page: the answer to the dry run
    request,    \* the request that is under way
    used        \* how much has been done

globalPageVars == <<item, apiValue, streams, data, target, edit, plan, request, used>>
-----------------------------------------------------------------------------
\* The fields of an item; a list is one field.  A field that is not set is 0; the empty list is a list.
KeysOf(i) == IF i = "timeouts" THEN {"idle", "write_stall"} ELSE {"lines"}
Unwritten(i) == [k \in KeysOf(i) |-> 0]
EmptyList == 3
ApiValues(i) == IF i = "timeouts" THEN [KeysOf(i) -> 0..1] ELSE [KeysOf(i) -> {0, 1, EmptyList}]
TargetChoices == {{n} : n \in GlobalNodes} \union {GlobalNodes}

\* The form as it is before anything is done with it, and none.
Untouched == [mode |-> "keep", keys |-> {}, text |-> Unwritten(item), open |-> FALSE, typed |-> {}, read |-> data]
NoPlan == [there |-> FALSE, values |-> Unwritten(item), mode |-> "keep", ok |-> FALSE, of |-> {}, late |-> FALSE]
Idle == [pc |-> "idle", dry |-> FALSE, plan |-> NoPlan]

PageInit ==
    /\ item \in {"timeouts", "proxies"}
    /\ apiValue \in [GlobalNodes -> ApiValues(item)]
    /\ streams \in {{}, GlobalNodes}
    /\ data = apiValue
    /\ target \in TargetChoices
    /\ edit = Untouched
    /\ plan = NoPlan
    /\ request = Idle
    /\ used = 0

Use == used < MaxUse /\ used' = used + 1
Settled == UNCHANGED <<item, streams>>
-----------------------------------------------------------------------------
\* httpTimeoutKeys: the limits of streams if all know them, and whatever the API value has.
httpTimeoutKeys(v) ==
    {"idle"} \union {k \in KeysOf(item) : v[k] # 0} \union (IF target \subseteq streams THEN {"write_stall"} ELSE {})
\* sameValue of the nodes shown.
differs(d) == \E n \in target, m \in target : d[n] # d[m]

\* toGlobalForm, editOf: the API value if the nodes agree.  An empty list has no lines.
toGlobalForm ==
    LET v == IF differs(data) THEN Unwritten(item) ELSE data[CHOOSE n \in target : TRUE]
    IN  [Untouched EXCEPT !.keys = IF item = "timeouts" THEN httpTimeoutKeys(v) ELSE KeysOf(item),
                          !.text = [k \in KeysOf(item) |-> IF v[k] = EmptyList THEN 0 ELSE v[k]],
                          !.open = TRUE]
editOf == IF edit.open THEN edit ELSE toGlobalForm

\* buildGlobalValue: fields that are empty are not sent, and no lines are the empty list.
buildGlobalValue(e) ==
    [k \in KeysOf(item) |->
        IF e.mode = "clear" \/ k \notin e.keys THEN 0
        ELSE IF item = "proxies" /\ e.text[k] = 0 THEN EmptyList ELSE e.text[k]]
hasChanges == edit.mode # "keep"

\* setEdit: the plan is out of date.
setEdit(e) == edit' = e /\ plan' = NoPlan
ChooseMode(mode) ==
    /\ mode # editOf.mode
    /\ mode = "clear" => \E n \in target : data[n] # Unwritten(item)
    /\ Use /\ setEdit([editOf EXCEPT !.mode = mode])
    /\ Settled /\ UNCHANGED <<apiValue, data, target, request>>
TypeField(k, v) ==
    /\ edit.mode = "set" /\ k \in edit.keys /\ edit.text[k] # v
    /\ Use /\ setEdit([edit EXCEPT !.text[k] = v, !.typed = @ \union {k}])
    /\ Settled /\ UNCHANGED <<apiValue, data, target, request>>

\* What was tried is kept.
PickTargetOnly(t) ==
    /\ t # target
    /\ Use
    /\ target' = t
    /\ request' = [request EXCEPT !.plan.late = TRUE]
    /\ Settled /\ UNCHANGED <<apiValue, data, edit, plan>>
\* The request goes on when another node is picked.
PickTarget(t) ==
    /\ t # target
    /\ Use
    /\ target' = t /\ edit' = Untouched /\ plan' = NoPlan
    /\ request' = [request EXCEPT !.plan.late = TRUE]
    /\ Settled /\ UNCHANGED <<apiValue, data>>
-----------------------------------------------------------------------------
\* The values that are built are those of the plan.
planOk == plan.there /\ plan.ok /\ plan.mode = edit.mode /\ plan.values = buildGlobalValue(edit)

\* send: one request at a time.
SendPage(dry) ==
    /\ request.pc = "idle" /\ hasChanges
    /\ dry \/ planOk
    /\ request' = [pc |-> "sent", dry |-> dry,
                   plan |-> [there |-> TRUE, values |-> buildGlobalValue(edit), mode |-> edit.mode, ok |-> FALSE,
                             of |-> target, late |-> FALSE]]
    /\ Settled /\ UNCHANGED <<apiValue, data, target, edit, plan, used>>

\* The nodes try it, or take it, or refuse it.
Taken == [n \in GlobalNodes |-> IF n \in request.plan.of /\ ~request.dry THEN request.plan.values ELSE apiValue[n]]
Served ==
    /\ request.pc = "sent"
    /\ \/ request' = [request EXCEPT !.pc = "answered", !.plan.ok = TRUE] /\ apiValue' = Taken
       \/ request' = [request EXCEPT !.pc = "answered"] /\ UNCHANGED apiValue
    /\ Settled /\ UNCHANGED <<data, target, edit, plan, used>>

\* The answer is lost, or after an application the settings cannot be read again.
NoAnswer ==
    /\ request.pc = "answered"
    /\ request' = Idle
    /\ Settled /\ UNCHANGED <<apiValue, data, target, edit, plan, used>>

\* The answer to a dry run is the plan.
Planned ==
    /\ request.pc = "answered" /\ request.dry
    /\ plan' = request.plan /\ request' = Idle
    /\ Settled /\ UNCHANGED <<apiValue, data, target, edit, used>>

\* load: after a failure the form stays.
Reload ==
    /\ request.pc = "answered" /\ ~request.dry
    /\ data' = apiValue /\ plan' = NoPlan /\ request' = Idle
    /\ edit' = IF request.plan.ok THEN [Untouched EXCEPT !.read = apiValue] ELSE edit
    /\ Settled /\ UNCHANGED <<apiValue, target, used>>

\* Another administrator clears the item.
Elsewhere(n) ==
    /\ Use
    /\ apiValue[n] # Unwritten(item)
    /\ apiValue' = [apiValue EXCEPT ![n] = Unwritten(item)]
    /\ Settled /\ UNCHANGED <<data, target, edit, plan, request>>

PageNext ==
    \/ \E mode \in {"keep", "set", "clear"} : ChooseMode(mode)
    \/ \E k \in KeysOf(item), v \in {0, 2} : TypeField(k, v)
    \/ \E t \in TargetChoices : PickTarget(t)
    \/ \E dry \in BOOLEAN : SendPage(dry)
    \/ Served \/ NoAnswer \/ Planned \/ Reload
    \/ \E n \in GlobalNodes : Elsewhere(n)

PageSpec == PageInit /\ [][PageNext]_globalPageVars
-----------------------------------------------------------------------------
\* What a field of a node becomes: what was typed, what all the nodes had when the form was opened, or,
\* where they did not agree, nothing.  No lines make an empty list.
KeepsUntyped(e, values) ==
    e.mode = "set" => \A k \in KeysOf(item) \ e.typed :
        \/ \A n \in target : values[k] = e.read[n][k]
        \/ values[k] = 0 /\ differs(e.read)
        \/ values[k] = EmptyList

\* What is applied was tried: the same values, on the same nodes, which all accepted them (but not when
\* another node was picked while the dry run was under way and the same values entered for it); and a
\* field nobody typed keeps its value, never that of another node.
AppliedWasPlanned ==
    [][SendPage(FALSE) =>
          /\ plan.of = target \/ plan.late
          /\ KeepsUntyped(edit, request'.plan.values)]_globalPageVars
=============================================================================

------------------------------ MODULE RuleEdit ------------------------------
(***************************************************************************)
(* A rule on its way through the form that edits it: from the row to the   *)
(* fields (edit.tsx, RuleForm.tsx, v04form.ts), back into a request, over   *)
(* the row as it is by then (mergeEdit) and to rproxy as a PATCH            *)
(* (toRproxyPatch), which is undone when the transaction fails.            *)
(*                                                                         *)
(* What may be edited depends on what the node can do.  The form asks it    *)
(* when it opens, and again when it has learnt which node it is: answers    *)
(* come late, in any order, or not at all.  What may not be edited must be  *)
(* kept.                                                                   *)
(*                                                                         *)
(* A section of a rule (its limits, a timeout, ...) has one of a few        *)
(* values; so has what is typed into its fields.  A rule has one route.     *)
(***************************************************************************)
EXTENDS Integers, FiniteSets

CONSTANTS
    Absent,         \* no rule on the node
    EditSections,   \* the sections that occur
    MaxSteps        \* bound: answers, edits, and steps of others

VARIABLES
    stored,     \* the row of the rule
    runs,       \* the rule as the node runs it
    form,       \* the open form
    steps

editVars == <<stored, runs, form, steps>>
-----------------------------------------------------------------------------
None == "none"      \* undefined, or an empty field
Clear == "clear"    \* {}, '0s', or the default of rproxy: what takes a section away

V04Keys == {"labels", "limits", "bandwidth", "geoip", "outlier_detection", "proxy_protocol",
            "idle_timeout", "half_close_timeout", "connect_timeout"}
Relay == {"idle_timeout", "half_close_timeout"}
Sections == EditSections \intersect (V04Keys \union {"crowdsec", "extra_listen_addrs"})

V04_FEATURE(k) ==
    CASE k = "proxy_protocol" -> "proxy_protocol_in"
      [] k \in Relay -> "tcp_idle_timeout"
      [] k = "connect_timeout" -> "db_connect_timeout"
      [] OTHER -> k

\* The sections a rule can have: shape is tcp, udp, or http (L7, over tcp).
Takes(shape) ==
    {k \in Sections : /\ k \in Relay \union {"connect_timeout"} => shape = "tcp"
                      /\ k = "outlier_detection" => shape # "http"
                      /\ k = "proxy_protocol" => shape # "udp"}

NoRoute == [pass |-> FALSE, src |-> None, up |-> None]
Modes == {"passthrough", "sni", "terminate"}
RelaysAtL4(mode, r) == mode = "sni" \/ (mode = "terminate" /\ r.pass)
TakesUpstream(shape, mode, r) == shape = "tcp" /\ mode = "terminate" /\ ~r.pass

\* checkTls: what parseRule lets into a rule of this kind.
GoodTls(shape, t) ==
    /\ shape = "http" => t.mode # "sni" /\ t.up # "tls"
    /\ t.mode # "terminate" => t.options = None /\ t.domains = None /\ t.up = None
    /\ t.mode = "passthrough" => t.route = NoRoute
    /\ t.route.pass => t.mode = "terminate" /\ shape # "udp"
    /\ shape = "http" => t.route.pass \/ t.route = NoRoute
    /\ t.route.src # None => RelaysAtL4(t.mode, t.route)
    /\ t.route.up # None => TakesUpstream(shape, t.mode, t.route)
    /\ shape = "udp" => t.options = None /\ t.domains = None

NoSections == [k \in Sections |-> None]
\* A rule that has everything it can have, or nothing beyond its kind.
Tls(shape, mode, pass, old) ==
    LET route == [pass |-> pass, src |-> IF RelaysAtL4(mode, [pass |-> pass]) THEN old ELSE None,
                  up |-> IF TakesUpstream(shape, mode, [pass |-> pass]) THEN old ELSE None]
        ends == mode = "terminate" /\ shape # "udp"
    IN  [mode |-> mode, options |-> IF ends THEN old ELSE None, domains |-> IF ends THEN old ELSE None,
         up |-> IF ends /\ old # None THEN (IF shape = "http" \/ pass THEN "settings" ELSE "tls") ELSE None,
         route |-> route]
Rules(shape) ==
    {[shape |-> shape, on |-> TRUE, dist |-> "old", tls |-> Tls(shape, mode, pass, old),
      sec |-> [k \in Sections |-> IF k \in Takes(shape) THEN old ELSE None]] :
        mode \in Modes, pass \in BOOLEAN, old \in {None, "old"}}
-----------------------------------------------------------------------------
(***************************************************************************)
(* The row and the node.  A PATCH says what it does not want any more only  *)
(* for what was there before (v04PatchFields and its like).                *)
(***************************************************************************)
Wire(r) == [r EXCEPT !.on = TRUE]
\* A PATCH made of the new rule alone.
PatchFieldsAlone(after, before) ==
    [k \in {j \in Sections : after[j] # None} |-> after[k]]
PatchFields(after, before) ==
    [k \in {j \in Sections : after[j] # None \/ before[j] # None} |->
        IF after[k] # None THEN after[k] ELSE Clear]

toRproxyPatch(after, before) == [dist |-> after.dist, tls |-> after.tls, sec |-> PatchFields(after.sec, before.sec)]

\* rproxy: what is not in the PATCH stays.
RulePatched(r, p) ==
    [r EXCEPT !.dist = p.dist, !.tls = p.tls,
              !.sec = [k \in Sections |-> IF k \notin DOMAIN p.sec THEN @[k]
                                          ELSE IF p.sec[k] = Clear THEN None ELSE p.sec[k]]]

\* What editForwardingRule does to the node: a rule it lost is added.
Sent(node, after, before) == IF node = Absent THEN Wire(after) ELSE RulePatched(node, toRproxyPatch(after, before))
PatchedBack(node, now, after, before) == IF node = Absent THEN Absent ELSE RulePatched(now, toRproxyPatch(before, after))

\* A transaction that changes the row: the node first, unless the rule is paused, then COMMIT,
\* and back on the node when that fails.
Change(updated, commits) ==
    /\ stored' = IF commits THEN updated ELSE stored
    /\ runs' = IF ~stored.on THEN runs
               ELSE LET now == Sent(runs, updated, stored)
                    IN  IF commits THEN now ELSE PatchedBack(runs, now, updated, stored)
-----------------------------------------------------------------------------
(***************************************************************************)
(* The form: its fields hold texts, and what the rule was when it opened.   *)
(***************************************************************************)
Closed == [open |-> FALSE]
Fields(r) == [dist |-> r.dist, tls |-> r.tls, sec |-> r.sec]

Texts(k) == {None, "new"} \union (IF k \in Relay \union {"connect_timeout"} THEN {"default"} ELSE {})
Normal(text) == IF text = "default" THEN None ELSE text

EditStep == steps < MaxSteps /\ steps' = steps + 1

\* useRule: read once; the features are not known yet (FALLBACK_CAPS).
Open ==
    /\ ~form.open
    /\ form' = [open |-> TRUE, base |-> stored, caps |-> {}, touched |-> {}, fields |-> Fields(stored)]
    /\ UNCHANGED <<stored, runs, steps>>

Http == form.base.shape = "http"
Udp == form.base.shape = "udp"

\* The features that are asked about, as one node or another may have them.
Features == {V04_FEATURE(k) : k \in Sections \intersect V04Keys}
                \union {"sni", "terminate", "tls_options", "route_source_ip", "tls_route_upstream", "acme"}
Answers == {{}, Features} \union {Features \ {f} : f \in Features}

availableTlsModes(caps) == {"passthrough", form.base.tls.mode} \union (caps \intersect Modes)

\* An answer, of whichever request: it replaces what was known, and a TLS mode it does not allow is
\* given up - but the rule's own is always allowed.
CapsArrive(caps) ==
    /\ EditStep
    /\ form.open
    /\ form' = [form EXCEPT !.caps = caps,
                            !.fields.tls.mode = IF @ \in availableTlsModes(caps) THEN @ ELSE "passthrough"]
    /\ UNCHANGED <<stored, runs>>

\* Which fields can be typed into.
Editable(k) ==
    \/ k \notin V04Keys
    \/ /\ V04_FEATURE(k) \in form.caps
       /\ k = "proxy_protocol" => ~Udp
tlsOptionsEditable == ~Udp /\ form.fields.tls.mode = "terminate" /\ "tls_options" \in form.caps
acmeEditable == ~Udp /\ "acme" \in form.caps

Touch(name, fields) ==
    /\ EditStep
    /\ form.open
    /\ form' = [form EXCEPT !.touched = @ \union {name}, !.fields = fields]
    /\ UNCHANGED <<stored, runs>>

TypeDist == Touch("dist", [form.fields EXCEPT !.dist = "new"])

\* The extra addresses and CrowdSec, the timeouts, and the PROXY protocol on the way in.
TypeAdvanced(k, text) ==
    /\ form.open /\ k \in Takes(form.base.shape) /\ text \in Texts(k)
    /\ k \in Relay \union {"connect_timeout", "proxy_protocol", "crowdsec", "extra_listen_addrs"}
    /\ Editable(k)
    /\ Touch(k, [form.fields EXCEPT !.sec[k] = text])

\* LimitsEditor: labels, limits, bandwidth, GeoIP, outlier detection.
TypeLimits(k, text) ==
    /\ form.open /\ k \in Takes(form.base.shape) /\ text \in Texts(k)
    /\ k \in {"labels", "limits", "bandwidth", "geoip", "outlier_detection"}
    /\ Editable(k)
    /\ Touch(k, [form.fields EXCEPT !.sec[k] = text])

TypeMode(mode) ==
    /\ form.open /\ mode \in availableTlsModes(form.caps)
    /\ Touch("mode", [form.fields EXCEPT !.tls.mode = mode])

TypeOptions(text) ==
    /\ form.open /\ tlsOptionsEditable
    /\ Touch("options", [form.fields EXCEPT !.tls.options = text])

TypeDomains ==
    /\ form.open /\ form.fields.tls.mode = "terminate" /\ acmeEditable
    /\ Touch("domains", [form.fields EXCEPT !.tls.domains = "new"])

\* The route's row: each part where the mode takes it; what the node does not know can only be removed.
TypeRoute(text) ==
    /\ form.open /\ form.fields.tls.mode # "passthrough"
    /\ \/ /\ form.fields.tls.mode = "terminate" /\ ~Udp /\ ~Http
          /\ Touch("pass", [form.fields EXCEPT !.tls.route.pass = (text = "new")])
       \/ /\ IF "route_source_ip" \in form.caps THEN RelaysAtL4(form.fields.tls.mode, form.fields.tls.route)
             ELSE text = None
          /\ Touch("src", [form.fields EXCEPT !.tls.route.src = text])
       \/ /\ IF "tls_route_upstream" \in form.caps
             THEN TakesUpstream(form.base.shape, form.fields.tls.mode, form.fields.tls.route)
             ELSE text = None
          /\ Touch("up", [form.fields EXCEPT !.tls.route.up = text])

Type ==
    \/ TypeDist \/ TypeDomains
    \/ \E k \in Sections, text \in {None, "new", "default"} : TypeAdvanced(k, text) \/ TypeLimits(k, text)
    \/ \E mode \in Modes : TypeMode(mode)
    \/ \E text \in {None, "new"} : TypeOptions(text) \/ TypeRoute(text)

\* buildRouteSpec: what the route cannot have is dropped, but only from fields that are shown.
BuildRouteSpec(mode, r) ==
    [pass |-> r.pass /\ mode = "terminate",
     src |-> IF "route_source_ip" \in form.caps /\ ~RelaysAtL4(mode, r) THEN None ELSE r.src,
     up |-> IF "tls_route_upstream" \in form.caps /\ ~TakesUpstream(form.base.shape, mode, r) THEN None ELSE r.up]

\* The options are sent when they can be edited.
BuildTlsShown(t) ==
    [mode |-> t.mode,
     options |-> IF tlsOptionsEditable THEN t.options ELSE None,
     domains |-> IF t.mode # "terminate" THEN None ELSE IF acmeEditable THEN t.domains ELSE form.base.tls.domains,
     up |-> IF t.mode # "terminate" \/ (t.up = "settings" /\ ~Http) THEN None ELSE t.up,
     route |-> IF t.mode = "passthrough" THEN NoRoute ELSE BuildRouteSpec(t.mode, t.route)]

\* buildTls: each mode has its own parts.  Settings of the way on that are not in use are dropped.
BuildTls(t) ==
    [mode |-> t.mode,
     options |-> IF t.mode # "terminate" THEN None
                 ELSE IF tlsOptionsEditable THEN t.options ELSE form.base.tls.options,
     domains |-> IF t.mode # "terminate" THEN None ELSE IF acmeEditable THEN t.domains ELSE form.base.tls.domains,
     up |-> IF t.mode # "terminate" \/ (t.up = "settings" /\ ~Http) THEN None ELSE t.up,
     route |-> IF t.mode = "passthrough" THEN NoRoute ELSE BuildRouteSpec(t.mode, t.route)]

\* buildV04, buildProxyProtocol, buildRelayTimeouts, buildConnectTimeout: what cannot be edited is kept.
Build(k) ==
    IF ~Editable(k) THEN form.base.sec[k]
    ELSE IF k \in V04Keys /\ k \notin Takes(form.base.shape) THEN None
    ELSE Normal(form.fields.sec[k])

\* buildRule: a section without a value is cleared when it can be edited, and else not mentioned.
Body ==
    LET value == [k \in Sections |-> Build(k)]
    IN  [dist |-> form.fields.dist, tls |-> BuildTls(form.fields.tls),
         sec |-> [k \in {j \in Sections : value[j] # None \/ Editable(j)} |-> value[k]]]

\* mergeEdit: over the row as it is now, what the request mentions.
Merged(current, body) ==
    [current EXCEPT !.dist = body.dist, !.tls = body.tls,
                    !.sec = [k \in Sections |-> IF k \in DOMAIN body.sec THEN body.sec[k] ELSE @[k]]]

\* What is typed can be read; what depends on other fields may not fit them.
Complete == GoodTls(form.base.shape, BuildTls(form.fields.tls))

\* handleSubmit, editForwardingRule.  After a failure the form stays as it is.
SaveForm(commits) ==
    /\ form.open /\ Complete
    /\ Change(Merged(stored, Body), commits)
    /\ form' = IF commits THEN Closed ELSE form
    /\ IF commits THEN UNCHANGED steps ELSE EditStep

Leave == form.open /\ form' = Closed /\ UNCHANGED <<stored, runs, steps>>
-----------------------------------------------------------------------------
\* Another administrator changes the rule, in whatever way.
OtherSaves ==
    /\ EditStep
    /\ \E k \in Takes(stored.shape), v \in {None, "others"} :
          Change([stored EXCEPT !.sec[k] = v], TRUE)
    /\ UNCHANGED form

Pause ==
    /\ EditStep
    /\ stored.on
    /\ stored' = [stored EXCEPT !.on = FALSE]
    /\ runs' = Absent
    /\ UNCHANGED form

Resume ==
    /\ EditStep
    /\ ~stored.on
    /\ stored' = [stored EXCEPT !.on = TRUE]
    /\ runs' = Wire(stored)
    /\ UNCHANGED form

\* rproxy restarts without its rules.
Vanish == EditStep /\ runs # Absent /\ runs' = Absent /\ UNCHANGED <<stored, form>>

EditInit ==
    /\ stored \in {r \in UNION {Rules(shape) : shape \in {"tcp", "udp", "http"}} : GoodTls(r.shape, r.tls)}
    /\ runs = Wire(stored)
    /\ form = Closed
    /\ steps = 0

EditNext ==
    \/ Open \/ Type \/ Leave
    \/ \E caps \in Answers : CapsArrive(caps)
    \/ \E commits \in BOOLEAN : SaveForm(commits)
    \/ OtherSaves \/ Pause \/ Resume \/ Vanish

EditSpec == EditInit /\ [][EditNext]_editVars
-----------------------------------------------------------------------------
\* The node runs what the row says, or nothing: every PATCH, its undo, and the addition of a rule the
\* node had lost lead there, whatever the rule had before (toRproxyPatch, toRproxyRule).
RunsWhatIsStored ==
    \/ runs = Absent
    \/ stored.on /\ runs = Wire(stored)

\* The parts of a rule by name, and those that follow from another part.  Settings of the way on
\* mean nothing without TLS there.
Parts(r) ==
    [dist |-> r.dist, mode |-> r.tls.mode, options |-> r.tls.options, domains |-> r.tls.domains,
     up_rule |-> IF r.tls.up = "settings" /\ r.shape # "http" THEN None ELSE r.tls.up,
     pass |-> r.tls.route.pass, src |-> r.tls.route.src, up |-> r.tls.route.up]
Follows(name) ==
    CASE name \in {"src", "up"} -> {"mode", "pass", name}
      [] name \in {"options", "domains", "up_rule", "pass"} -> {"mode", name}
      [] OTHER -> {name}

\* Saving changes what was typed into, and besides only puts back what the form had loaded:
\* whichever features were known then, and whatever others did since.  A pause is not undone.
OnlyWhatWasTouched ==
    [][(form.open /\ form' # form /\ stored' # stored) =>
          /\ stored'.on = stored.on
          /\ \A n \in DOMAIN Parts(stored) :
                \/ Follows(n) \intersect form.touched # {}
                \/ Parts(stored')[n] \in {Parts(stored)[n], Parts(form.base)[n]}
          /\ \A k \in Sections : \/ k \in form.touched
                                 \/ stored'.sec[k] \in {stored.sec[k], form.base.sec[k]}]_editVars
=============================================================================

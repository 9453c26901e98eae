----------------------------- MODULE RuleValues -----------------------------
(***************************************************************************)
(* The values of a rule on their way through the program: what the API     *)
(* makes of a request (v04.ts, tls.ts, overrides.ts), what the row keeps of *)
(* it (optionsJson, parseOptions), what the form shows and builds again     *)
(* (v04form.ts, targets.ts), what an export says and an import reads        *)
(* (settingsdoc.ts), and how a rule on a node is compared with the row and  *)
(* put right (drift.ts, resendOne).  The sections of a rule are independent *)
(* of each other; one of them is followed.                                 *)
(*                                                                         *)
(* An object is a function on the keys it has, a row of fields a record in  *)
(* which a field may be blank.  A result of reading is a set: empty when    *)
(* the value is refused.  Lists whose order is kept are sets here.         *)
(***************************************************************************)
EXTENDS Integers, Sequences

CONSTANT Blank      \* an empty field

VARIABLES
    section,    \* of the rule: its name, and the kind of the rule
    row,        \* its value in the database
    live,       \* its value on the node
    way         \* the last step

valueVars == <<section, row, live, way>>
-----------------------------------------------------------------------------
Object(fields) == [k \in {j \in DOMAIN fields : fields[j] # Blank} |-> fields[k]]
\* A slip of the forms: zero is taken for nothing.
compactTruthy(fields) ==
    LET zero(j) == j = "max_ejected_percent" /\ fields[j] = 0
    IN  [k \in {j \in DOMAIN fields : fields[j] # Blank /\ ~zero(j)} |-> fields[k]]
compact(fields) == Object(fields)
FieldsOf(o, keys) == [k \in keys |-> IF k \in DOMAIN o THEN o[k] ELSE Blank]
Nothing == [k \in {} |-> Blank]
Only(o, keys) == [k \in DOMAIN o \intersect keys |-> o[k]]
If(good, o) == IF good THEN {o} ELSE {}
Has(o, keys) == DOMAIN o \intersect keys # {}
\* intIn
Positive(o, keys) == \A k \in DOMAIN o \intersect keys : o[k] > 0

(***************************************************************************)
(* Texts of a duration, <<n, unit>>.                                       *)
(***************************************************************************)
Units == [ms |-> 1, s |-> 1000, m |-> 60000, h |-> 3600000]
parseDurationMs(t) == t[1] * Units[t[2]]
\* formatMs: in the largest unit it is a multiple of.
formatMs(ms) ==
    IF ms = 0 THEN <<0, "s">>
    ELSE LET u == CHOOSE u \in DOMAIN Units : /\ ms % Units[u] = 0
                                              /\ \A v \in DOMAIN Units : ms % Units[v] = 0 => Units[v] <= Units[u]
         IN  <<ms \div Units[u], u>>
Default == [idle_timeout |-> <<1, "h">>, half_close_timeout |-> <<1, "m">>]

\* normalizeRelayTimeout, normalizeConnectTimeout: only of L4 tcp, and nothing when it is the default.
Timeout(k, t, kind) ==
    LET ms == parseDurationMs(t)
        out == formatMs(ms)
    IN  IF k = "connect_timeout"
        THEN IF ms = 0 THEN {Blank} ELSE If(kind \in {"tcp", "any"} /\ ms \in 100 .. 600000, out)
        ELSE IF kind \in {"tcp", "any"} /\ (ms = 0 \/ ms >= 1000)
             THEN {IF out = Default[k] THEN Blank ELSE out} ELSE {}
Timeouts(o, kind) ==
    IF \E k \in DOMAIN o : Timeout(k, o[k], kind) = {} THEN {}
    ELSE {Object([k \in DOMAIN o |-> CHOOSE t \in Timeout(k, o[k], kind) : TRUE])}
-----------------------------------------------------------------------------
(***************************************************************************)
(* The sections with named fields: what a request may say of them, and what *)
(* is made of it.  A kind is tcp, udp or http; a row is read without        *)
(* knowing whether it is tcp or udp ("any").                               *)
(***************************************************************************)
GoodRate(o) == "average" \in DOMAIN o /\ Positive(o, {"average", "burst"}) /\ ("burst" \in DOMAIN o => o.burst >= o.average)
Rates == {Object(r) : r \in [average : {0, 2, Blank}, period : {"1m", Blank}, burst : {1, 3, Blank}]}

normalizeLimits(o, kind) ==
    LET per == {"prefix", "source_connections", "new_connections", "packets", "max_sources"}
        rates == DOMAIN o \intersect {"new_connections", "packets"}
    IN  If(/\ Positive(o, DOMAIN o \ rates)
           /\ \A k \in rates : GoodRate(o[k])
           /\ "packets" \in rates => kind \notin {"tcp", "http"}
           /\ Has(o, per) => Has(o, {"source_connections"} \union rates), o)

\* Rates below 8 kbps are refused.
normalizeBandwidth(o) ==
    LET per == {"prefix", "source_download"}
        rates == {"upload", "source_download"}
    IN  If(/\ \A k \in DOMAIN o \intersect rates : o[k] >= 8
           /\ "burst" \in DOMAIN o => o.burst \in 1 .. 1048576
           /\ Has(o, per) => Has(o, {"source_download"})
           /\ o # Nothing => Has(o, rates), o)

normalizeGeoip(o) ==
    LET lists == {k \in DOMAIN o \intersect {"allow", "deny", "asns"} : o[k] # {}}
        unknown == IF "unknown" \in DOMAIN o THEN o.unknown ELSE "allow"
    IN  IF lists = {} THEN If(unknown = "allow", Nothing)
        ELSE If({"allow", "deny"} \subseteq lists => o.allow \intersect o.deny = {},
                Only(o, lists \union (IF unknown = "deny" THEN {"unknown"} ELSE {})))

\* In seconds; an ejection starts with 10 when nothing is said.
normalizeL4Outlier(o, kind) ==
    LET first == IF "ejection_time" \in DOMAIN o THEN o.ejection_time ELSE 10
    IN  If(/\ Positive(o, {"consecutive_failures", "ejection_time", "max_ejection_time"})
           /\ "max_ejected_percent" \in DOMAIN o => o.max_ejected_percent \in 0 .. 100
           /\ "max_ejection_time" \in DOMAIN o => o.max_ejection_time >= first
           /\ o # Nothing => kind # "http", o)

normalizeProxyProtocol(o, kind) ==
    IF o = Nothing THEN {o}
    ELSE If(/\ kind # "udp"
            /\ "from" \in DOMAIN o /\ o.from # {} /\ "0.0.0.0/0" \notin o.from,
            [from |-> o.from, required |-> "required" \notin DOMAIN o \/ o.required])

\* A label is refused for its key or its value, which a form would refuse too.
normalizeLabels(o) == {o}

normalizeStartTls(o) ==
    LET smtp == "starttls" \in DOMAIN o /\ o.starttls = "smtp"
        plain == smtp /\ "required" \in DOMAIN o /\ ~o.required
    IN  {IF plain THEN o ELSE Only(o, {"starttls"})}

\* normalizeTargets: a weight of 1 and a backup that is none say nothing.
Target(t) == Only(t, {k \in DOMAIN t : ~(k = "weight" /\ t[k] = 1) /\ ~(k = "backup" /\ ~t[k])})
normalizeTargets(ts) ==
    If(/\ \A i \in DOMAIN ts : Positive(ts[i], {"weight", "max_connections"})
       /\ ts # <<>> => \E i \in DOMAIN ts : "backup" \notin DOMAIN ts[i] \/ ~ts[i].backup,
       [i \in DOMAIN ts |-> Target(ts[i])])
normalizeHealthCheck(h) == If(Positive(h, {"port"}), h)
\* Targets, balance and health check: nothing of it without targets.
checkBalancing(o, kind) ==
    IF o.targets = <<>> THEN "health_check" \notin DOMAIN o
    ELSE (kind = "udp" /\ "health_check" \in DOMAIN o) => "port" \in DOMAIN o.health_check
Balancing(o, kind) ==
    LET ts == IF "targets" \in DOMAIN o THEN o.targets ELSE <<>>
        given == [k \in DOMAIN o \union {"targets"} |-> IF k = "targets" THEN ts ELSE o[k]]
    IN  IF /\ normalizeTargets(ts) # {}
           /\ "health_check" \in DOMAIN o => normalizeHealthCheck(o.health_check) # {}
           /\ kind = "any" \/ checkBalancing(given, kind)
           /\ ts # <<>> => kind # "http"
        THEN {IF ts = <<>> THEN Nothing
              ELSE [k \in {j \in DOMAIN given : ~(j = "balance" /\ given[j] = "round_robin")} |->
                      IF k = "targets" THEN CHOOSE n \in normalizeTargets(ts) : TRUE ELSE o[k]]}
        ELSE {}

\* normalizeExtraListenAddrs: no address twice, nor the main one.
NoRepeat(s) == \A i, j \in DOMAIN s : s[i] = s[j] => i = j
normalizeExtraListenAddrs(s, main) == NoRepeat(s) /\ \A i \in DOMAIN s : s[i] # main
Extra(o) == IF "addrs" \notin DOMAIN o \/ o.addrs = <<>> THEN {Nothing} ELSE If(normalizeExtraListenAddrs(o.addrs, "main"), o)

Multi(o) == "targets" \in DOMAIN o /\ o.targets # <<>>
Balanced == {"targets", "balance", "health_check"}
\* normalizeOverride: targets or another destination, not both.
normalizeOverride(o, kind) ==
    LET multi == Multi(o)
        single == "distAddr" \in DOMAIN o
        dest == IF multi THEN Balancing(Only(o, Balanced), kind) ELSE {Nothing}
        main == IF "srcAddr" \in DOMAIN o THEN o.srcAddr ELSE "main"
        rest == Only(o, {"srcAddr", "extraListenAddrs", "distAddr", "allowFrom"}
                          \union (IF "enabled" \in DOMAIN o /\ ~o.enabled THEN {"enabled"} ELSE {}))
    IN  IF /\ ~(multi /\ single) /\ (multi \/ single => kind # "http")
           /\ "extraListenAddrs" \in DOMAIN o => normalizeExtraListenAddrs(o.extraListenAddrs, main)
           /\ dest # {}
        THEN LET d == CHOOSE d \in dest : TRUE
             IN  {[k \in DOMAIN rest \union DOMAIN d |-> IF k \in DOMAIN d THEN d[k] ELSE rest[k]]}
        ELSE {}
\* The row of an override, and what is read from it: a null in its options says there are no targets.
overrideRow(o) ==
    [src_addr |-> FieldsOf(o, {"srcAddr"}).srcAddr,
     dist_addr |-> IF Multi(o) THEN Blank ELSE FieldsOf(o, {"distAddr"}).distAddr,
     options |-> Only(o, {"allowFrom", "extraListenAddrs", "enabled"} \union (IF Multi(o) THEN Balanced ELSE {}))]
overrideFromRow(r) ==
    LET addrs == Object([srcAddr |-> r.src_addr, distAddr |-> IF Multi(r.options) THEN Blank ELSE r.dist_addr])
    IN  [k \in DOMAIN addrs \union DOMAIN r.options |-> IF k \in DOMAIN addrs THEN addrs[k] ELSE r.options[k]]
\* canon: null, false and what is empty are as good as nothing, at any depth.
Flags == {"required", "pass_host_header", "insecure_skip_verify", "appsec"}
Nested == {"health_check", "outlier_detection", "tls", "middleware", "compress", "crowdsec"}
RECURSIVE canon(_)
canon(o) ==
    LET inner == [k \in DOMAIN o |-> IF k \in Nested THEN canon(o[k]) ELSE o[k]]
    IN  Only(inner, {k \in DOMAIN o : (k \in Flags => inner[k]) /\ (k \in Nested => inner[k] # Nothing)})

\* validateHttp of one service and one middleware: kept as they were given.  An outlier detection
\* with nothing in it is one with the defaults of rproxy; one that looks at nothing is refused.
normalizeHttpOutlier(o) ==
    If(~({"consecutive_5xx", "consecutive_gateway_failures"} \subseteq DOMAIN o
           /\ o.consecutive_5xx = 0 /\ o.consecutive_gateway_failures = 0), o)
normalizeHttp(o) == If("outlier_detection" \in DOMAIN o => normalizeHttpOutlier(o.outlier_detection) # {}, o)
\* cleanHttp of them: TLS in which nothing is filled is none, and the header of the client is the default.
cleanServiceTls(t) == canon(t)
cleanHttp(o) ==
    Only([k \in DOMAIN o |-> IF k = "tls" THEN cleanServiceTls(o[k]) ELSE o[k]],
         {k \in DOMAIN o : (k = "tls" => cleanServiceTls(o[k]) # Nothing) /\ (k = "pass_host_header" => ~o[k])})

\* toSettingsOverride, and settingsOverridesToBody of it.
toSettingsOverride(o) ==
    Only(o, {"srcAddr", "extraListenAddrs", "distAddr", "allowFrom", "enabled"}
              \union (IF "targets" \in DOMAIN o THEN Balanced ELSE {}))
-----------------------------------------------------------------------------
\* What the API makes of a section, and what a row is read as: of a kind, or of "any".
Accept(name, kind, o) ==
    CASE name = "labels" -> normalizeLabels(o)
      [] name = "limits" -> normalizeLimits(o, kind)
      [] name = "bandwidth" -> normalizeBandwidth(o)
      [] name = "geoip" -> normalizeGeoip(o)
      [] name = "outlier_detection" -> normalizeL4Outlier(o, kind)
      [] name = "proxy_protocol" -> normalizeProxyProtocol(o, kind)
      [] name = "timeouts" -> Timeouts(o, kind)
      [] name = "starttls" -> normalizeStartTls(o)
      [] name = "balancing" -> Balancing(o, kind)
      [] name = "extra_listen_addrs" -> Extra(o)
      [] name = "override" -> normalizeOverride(o, kind)
      [] name = "http" -> normalizeHttp(o)

\* Targets as they may be asked for.
SomeTargets ==
    LET first == {Object(t) : t \in [addr : {"a"}, weight : {0, 1, 5, Blank}, backup : {TRUE, FALSE, Blank}, max_connections : {1, Blank}]}
        second == {Object(t) : t \in [addr : {"b"}, weight : {5, Blank}, backup : {TRUE, Blank}]}
    IN  {<<>>} \union {<<t>> : t \in first} \union {<<t, u>> : t \in first, u \in second}
HealthChecks == {Blank, Nothing} \union {Object(h) : h \in [interval : {"5s", Blank}, port : {0, 80}]}
Durations == {Blank, <<0, "s">>, <<500, "ms">>, <<60, "s">>, <<1, "m">>, <<90, "s">>, <<60, "m">>, <<1, "h">>, <<2, "h">>}

\* What is asked for, of each section.
Asked == [
    labels |-> [app : {"a", "", Blank}, constructor : {"a", Blank}],
    limits |-> [max_connections : {0, 1, Blank}, prefix : {0, 24, Blank}, source_connections : {1, Blank},
                new_connections : Rates \union {Blank}, packets : {[average |-> 2], Blank}, max_sources : {1, Blank}],
    bandwidth |-> [upload : {1, 8, Blank}, burst : {0, 64, Blank}, source_download : {8, Blank}, prefix : {24, Blank}],
    geoip |-> [allow : {{}, {"JP"}, Blank}, deny : {{"JP"}, {"US"}, Blank}, asns : {{"AS1"}, Blank}, unknown : {"allow", "deny", Blank}],
    outlier_detection |-> [consecutive_failures : {0, 1, Blank}, ejection_time : {0, 20, Blank},
                           max_ejection_time : {5, 30, Blank}, max_ejected_percent : {0, 50, 101, Blank}],
    proxy_protocol |-> [from : {{}, {"a"}, {"a", "0.0.0.0/0"}, Blank}, required : {TRUE, FALSE, Blank}],
    timeouts |-> [idle_timeout : Durations, half_close_timeout : Durations, connect_timeout : Durations],
    starttls |-> [starttls : {"smtp", "imap"}, required : {TRUE, FALSE, Blank}],
    balancing |-> [targets : SomeTargets, balance : {"round_robin", "failover", Blank}, health_check : HealthChecks],
    extra_listen_addrs |-> [addrs : {Blank, <<>>, <<"b">>, <<"main">>, <<"b", "c">>, <<"b", "b">>}],
    override |-> [srcAddr : {"b", Blank}, extraListenAddrs : {Blank, <<>>, <<"b">>, <<"c">>}, distAddr : {"old", Blank},
                  targets : {Blank, <<[addr |-> "a"]>>, <<[addr |-> "a", weight |-> 5], [addr |-> "b", backup |-> TRUE]>>},
                  balance : {"failover", Blank}, health_check : {Blank, [interval |-> "5s"]},
                  allowFrom : {{}, {"a"}, Blank}, enabled : {FALSE, TRUE, Blank}],
    http |-> [pass_host_header : {TRUE, FALSE, Blank},
              outlier_detection : {Blank, Nothing, [consecutive_5xx |-> 5],
                                   [consecutive_5xx |-> 0, consecutive_gateway_failures |-> 0]},
              tls : {Blank, Nothing, [insecure_skip_verify |-> FALSE], [server_name |-> "a"]},
              middleware : {Blank, [compress |-> Nothing], [crowdsec |-> [appsec |-> FALSE]], [crowdsec |-> [appsec |-> TRUE]]}]]
KindsOf(name) ==
    IF name \in {"limits", "balancing"} THEN {"tcp", "udp"}
    ELSE IF name \in {"outlier_detection", "override"} THEN {"tcp", "http"}
    ELSE IF name = "http" THEN {"http"} ELSE {"tcp"}
ReadAs(kind) == IF kind = "http" THEN "http" ELSE "any"

(***************************************************************************)
(* The forms: every field of the section is shown, and what stays blank is  *)
(* not sent.                                                               *)
(***************************************************************************)
Shown(name, o) == FieldsOf(o, DOMAIN (CHOOSE asked \in Asked[name] : TRUE))
Built(name, kind, o) ==
    LET fields == Shown(name, o)
    IN  CASE name = "limits" -> compact([fields EXCEPT !.packets = IF kind = "udp" THEN @ ELSE Blank])
          [] name = "geoip" -> compact([fields EXCEPT !.unknown = IF @ = Blank THEN "allow" ELSE @])
          [] name = "proxy_protocol" -> IF o = Nothing THEN o ELSE compact([fields EXCEPT !.required = IF @ = Blank THEN TRUE ELSE @])
          [] name = "balancing" -> compact([fields EXCEPT !.balance = IF @ = Blank THEN "round_robin" ELSE @])
          [] name = "override" -> compact([fields EXCEPT !.health_check = Blank])
          [] name = "http" -> cleanHttp(o)
          [] OTHER -> compact(fields)
\* A key that every object of JavaScript has is taken for one given twice.
Inherited == {"constructor"}
FormTakes(name, o) == name = "labels" => DOMAIN o \intersect Inherited = {}

\* Saved by the form, which reads it as the API does, and then by the API.
Saved(name, kind, o) ==
    IF FormTakes(name, o)
    THEN UNION {Accept(name, kind, b) : b \in Accept(name, kind, Built(name, kind, o))}
    ELSE {}

(***************************************************************************)
(* The rule on the node.  rproxy says the timeouts it uses when none are    *)
(* set.                                                                    *)
(***************************************************************************)
Reported(name, o) ==
    IF name # "timeouts" THEN o
    ELSE [k \in DOMAIN o \union DOMAIN Default |->
            IF k \notin DOMAIN o THEN Default[k] ELSE IF o[k][2] = "ms" THEN o[k] ELSE <<(o[k][1] * Units[o[k][2]]) \div 1000, "s">>]
ruleFromStatus(name, kind, o) == CHOOSE r \in Accept(name, kind, Reported(name, o)) : TRUE

ruleDrift(name, kind, stored, o) == canon(stored) # canon(ruleFromStatus(name, kind, o))

\* A PATCH that only says what there is.
PatchOfNew(name, after, before) == after
\* v04PatchFields, remoteFields: a section goes as a whole, and as {} when it was there and is not
\* any more; each timeout is a section of its own.
PatchOf(name, after, before) ==
    IF name = "timeouts"
    THEN [k \in DOMAIN after \union DOMAIN before |->
            IF k \in DOMAIN after THEN after[k] ELSE IF k \in DOMAIN Default THEN Default[k] ELSE <<0, "s">>]
    ELSE after
\* rproxy takes 0 for no connect_timeout of its own, and leaves alone what is not in the PATCH.
Patched(name, kind, o, patch) ==
    IF name = "timeouts"
    THEN LET all == [k \in DOMAIN o \union DOMAIN patch |-> IF k \in DOMAIN patch THEN patch[k] ELSE o[k]]
         IN  CHOOSE r \in Accept(name, kind, all) : TRUE
    ELSE patch
-----------------------------------------------------------------------------
ValuesInit ==
    /\ section \in UNION {{[name |-> n, kind |-> k] : k \in KindsOf(n)} : n \in DOMAIN Asked}
    /\ row \in UNION {Accept(section.name, section.kind, Object(asked)) : asked \in Asked[section.name]}
    /\ live = row
    /\ way = "stored"

Outcome(step, results) ==
    /\ IF results = {} THEN row' = row /\ way' = "refused"
       ELSE row' \in results /\ way' = step
    /\ UNCHANGED <<section, live>>

\* fromRow: from the options of the row, or from the row of an override.
ReadBack ==
    Outcome("read", IF section.name = "override" THEN {overrideFromRow(overrideRow(row))}
                    ELSE Accept(section.name, ReadAs(section.kind), row))
SaveUntouched == Outcome("saved", Saved(section.name, section.kind, row))
\* Written to a file and read from it (toSettingsRule, settingsRuleToBody, parseRule).
ImportBack ==
    LET exported == IF section.name = "override" THEN toSettingsOverride(row) ELSE row
    IN  Outcome("imported", Accept(section.name, section.kind, exported))

\* One side becomes another: an edit the node missed, or a change on the node.  A part of the value
\* is taken away; the HTTP part may become any other.
Others ==
    IF section.name = "http"
    THEN UNION {Accept("http", "http", Object(asked)) : asked \in Asked.http}
    ELSE UNION {Accept(section.name, section.kind, Only(row, keys)) : keys \in SUBSET DOMAIN row}
Forget ==
    /\ row = live /\ section.name \notin {"override", "starttls"}
    /\ \E r \in Others :
          \/ row' = r /\ live' = live
          \/ live' = r /\ row' = row
    /\ way' = "forgotten"
    /\ UNCHANGED section

\* resendOne, for this section.
Resend ==
    /\ section.name \notin {"override", "starttls"}
    /\ IF ruleDrift(section.name, section.kind, row, live)
       THEN LET before == ruleFromStatus(section.name, section.kind, live)
            IN  live' = Patched(section.name, section.kind, live, PatchOf(section.name, row, before)) /\ way' = "modified"
       ELSE live' = live /\ way' = "unchanged"
    /\ UNCHANGED <<section, row>>

ValuesNext == ReadBack \/ SaveUntouched \/ ImportBack \/ Forget \/ Resend
ValuesSpec == ValuesInit /\ [][ValuesNext]_valueVars
-----------------------------------------------------------------------------
\* What the form leaves out of a row when it saves it without an edit.
LeftOutByForm ==
    {k \in DOMAIN row :
        \/ section.name = "override" /\ k = "health_check"
        \/ section.name = "http" /\ k = "tls" /\ row[k] \in {Nothing, [insecure_skip_verify |-> FALSE]}
        \/ section.name = "http" /\ k = "pass_host_header" /\ row[k]}

\* Reading a row, saving the form it opened in, and importing its export change nothing, and are not
\* refused.  The code has three exceptions, all of the form: a label with the key of something every
\* object has cannot be saved, an override loses its health check, and a service loses TLS of its own
\* in which nothing is filled (with it a header setting that is the default).
KeptAsItIs ==
    [][/\ way' = "refused" => ~FormTakes(section.name, row)
       /\ way' \in {"read", "imported"} => row' = row
       /\ way' = "saved" => row' = Only(row, DOMAIN row \ LeftOutByForm)]_valueVars

\* The values that are not told from there being none, though each of them means something: a health
\* check with the defaults of rproxy, a Host header that is not the client's, ejection with the
\* defaults, TLS apart from that of the rule, a middleware with its defaults.
AsGoodAsNone == [
    health_check |-> {Nothing}, pass_host_header |-> {FALSE}, outlier_detection |-> {Nothing},
    tls |-> {Nothing, [insecure_skip_verify |-> FALSE]},
    middleware |-> {[compress |-> Nothing], [crowdsec |-> [appsec |-> FALSE]]}]
TakenForSame(k) ==
    \/ k \in DOMAIN row \intersect DOMAIN live /\ row[k] = live[k]
    \/ k \in DOMAIN AsGoodAsNone /\ \A o \in {row, live} : k \in DOMAIN o => o[k] \in AsGoodAsNone[k]

\* Resending a rule makes the node run exactly what is stored when anything else than the values of
\* AsGoodAsNone differs, and does nothing when nothing does.  Where only these differ, the node goes
\* on with another setting than the one stored, and no resend puts it right.
ResendRepairs ==
    [][/\ way' = "modified" => live' = row /\ live # row
       /\ way' = "unchanged" => \A k \in DOMAIN row \union DOMAIN live : TakenForSame(k)]_valueVars
=============================================================================

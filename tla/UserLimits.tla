----------------------------- MODULE UserLimits -----------------------------
(***************************************************************************)
(* What a user who is no administrator may bring into a rule of theirs      *)
(* (userlimits.ts, usertargets.ts, roles.ts and the checks of [forward].ts): *)
(* destinations, names of files and certificates, sign-in settings and      *)
(* caches.  A request is judged by what it adds: what the rule has already, *)
(* an administrator may have put there.  Meanwhile administrators change    *)
(* the rule, and names resolve to other addresses.                         *)
(*                                                                         *)
(* A rule runs on the nodes of a group; on one of them, Special, it may go  *)
(* to other destinations (an override).  One of the three matters of a rule *)
(* is followed.                                                            *)
(***************************************************************************)
EXTENDS Naturals

CONSTANTS
    GroupNodes, Special,    \* the nodes of the rule, and the one with an override
    Limits,                 \* the settings of the users' role that occur
    Reserved                \* addresses and ports of rproxy and of the UI: protectedFor

VARIABLES
    matter,     \* what of the rule is followed
    limits,     \* the settings
    urule,      \* the rule: a set, empty when it is deleted
    seen,       \* the rule as a request that replaces it has read it
    dns,        \* the addresses of the name that occurs
    by          \* who made the last change

userVars == <<matter, limits, urule, seen, dns, by>>
-----------------------------------------------------------------------------
(***************************************************************************)
(* Destinations.  A side says where connections go: a host, a port, and a   *)
(* port for the health check (0: none).  With a range of listening ports    *)
(* it is a range of ports too.                                             *)
(***************************************************************************)
DestHosts == {"public", "loopback", "name"}
Side(host, check) == [host |-> host, port |-> 1, check |-> check]
Sides == {Side(h, 0) : h \in DestHosts} \union {Side("public", 2)}
Own == {}       \* no override: a set, of at most one side
Span == 0 .. 1

\* destRefs of the rule as a node runs it (effectiveRule).
Dest(where, host, first, last) == [where |-> where, host |-> host, first |-> first, last |-> last]
destRefs(side, span) ==
    {Dest("to", side.host, side.port, side.port + span)}
        \union (IF side.check = 0 THEN {} ELSE {Dest("health_check", side.host, side.check, side.check)})
At(r, node) == IF node = Special THEN r.own \union (IF r.own = Own THEN {r.to} ELSE {}) ELSE {r.to}
RefsAt(r, node) == UNION {destRefs(s, r.span) : s \in At(r, node)}

\* A slip: only the rule itself, not what it becomes on a node.
LocatedBase(r) == {[at |-> <<"rule">>, ref |-> d] : d \in destRefs(r.to, r.span)}
\* locatedDests: those of the rule, and those an override adds.
locatedDests(r) ==
    LET base == destRefs(r.to, r.span)
    IN  {[at |-> <<"rule">>, ref |-> d] : d \in base}
            \union UNION {{[at |-> <<"node", n>>, ref |-> d] : d \in RefsAt(r, n) \ base} : n \in {Special}}

\* The addresses of a host; the special ones need a rule of their own.
resolve(host) == IF host = "name" THEN dns ELSE {host}
special == {"loopback"}
Addresses == {{"public"}, {"loopback"}}

\* nameAllowed, cidrContains, cidrWithin: targets is {} when there is no list of them.
InList(a) == \E t \in limits.targets : a \in t.addresses
ByName(host) == host = "name" /\ \E t \in limits.targets : host \in t.names
\* refusalOf.
Refused(d) ==
    \/ resolve(d.host) = {}
    \/ \E a \in resolve(d.host) :
          \/ \E p \in Reserved : p.address = a /\ p.port \in d.first .. d.last
          \/ a \in special /\ ~InList(a)
          \/ limits.targets # {} /\ ~ByName(d.host) /\ ~InList(a)

DestsPass(next, before) ==
    LET old == UNION {locatedDests(b) : b \in before}
    IN  \A d \in locatedDests(next) \ old : ~Refused(d.ref)
-----------------------------------------------------------------------------
(***************************************************************************)
(* Names: of a file, of the certificates "mine" and "other", and of a       *)
(* sign-in (oidc).  Assigned prefixes replace the common ones; without      *)
(* either every certificate is allowed.                                    *)
(***************************************************************************)
Names == {"file", "mine", "other", "oidc"}
Certs == {"mine", "other"}
certPrefixesFor == IF limits.bySub = {} /\ limits.byRole = {}
                   THEN IF limits.certs = {} THEN Certs ELSE limits.certs
                   ELSE UNION (limits.bySub \union limits.byRole)
certAllowed(c) == c \in certPrefixesFor
NamesPass(next, before) ==
    \A n \in next \ UNION before : n \in Certs /\ certAllowed(n)
-----------------------------------------------------------------------------
(***************************************************************************)
(* A cache: shared between users or not, its size, and the routes it is     *)
(* used on.  A shared one stays as it is, where it is; places are dropped   *)
(* freely.                                                                 *)
(***************************************************************************)
Places == SUBSET {"one", "two"}
Caches == {[is |-> {}, at |-> p] : p \in {{}}}
            \union {[is |-> {c}, at |-> p] : c \in [shared : BOOLEAN, size : 1 .. 2], p \in Places}
CachePass(next, before) ==
    \A c \in next.is :
        LET same == \E b \in before : c \in b.is
        IN  IF c.shared THEN same /\ \A b \in before : next.at \subseteq b.at
            ELSE same \/ c.size <= limits.cache
-----------------------------------------------------------------------------
Contents == CASE matter = "destinations" -> [to : Sides, span : Span, own : {Own} \union {{s} : s \in Sides}]
              [] matter = "names" -> SUBSET Names
              [] matter = "cache" -> Caches

\* checkUserRule: before holds the rule as it was, or nothing.
UserPass(next, before) ==
    CASE matter = "destinations" -> DestsPass(next, before)
      [] matter = "names" -> NamesPass(next, before)
      [] matter = "cache" -> CachePass(next, before)

\* checkNodes, nodesAllowed: a change of the rule needs all its nodes, an override one.
Allowed(nodes) == limits.nodes = {} \/ nodes \subseteq limits.nodes

UserInit ==
    /\ matter \in {"destinations", "names", "cache"}
    /\ limits \in Limits
    /\ dns \in Addresses
    /\ urule \in {{c} : c \in Contents}
    /\ seen = {}
    /\ by = "admin"

Written(new, actor) == urule' = {new} /\ by' = actor

\* addForwardingRule: all of a new rule is judged.
UserAdds(new) ==
    /\ urule = {} /\ Allowed(GroupNodes)
    /\ matter = "destinations" => new.own = Own
    /\ UserPass(new, {})
    /\ Written(new, "user")
    /\ UNCHANGED <<matter, limits, seen, dns>>

\* editForwardingRule: judged with the row locked.  The range and the overrides stay.
UserEdits(new) ==
    /\ Allowed(GroupNodes)
    /\ \E r \in urule :
          /\ matter = "destinations" => new.span = r.span /\ new.own = r.own
          /\ UserPass(new, {r})
    /\ Written(new, "user")
    /\ UNCHANGED <<matter, limits, seen, dns>>

\* changeOverride: only the override of this node is looked at.
UserOverrides(own) ==
    /\ matter = "destinations" /\ Allowed({Special})
    /\ \E r \in urule :
          LET new == [r EXCEPT !.own = own]
          IN  UserPass(new, {r}) /\ Written(new, "user")
    /\ UNCHANGED <<matter, limits, seen, dns>>

\* replaceForwardingRule: what the new rule adds is judged by the rule as it was read, before it is
\* deleted and added.
UserReads ==
    /\ seen = {} /\ Allowed(GroupNodes)
    /\ seen' = urule /\ by' = "admin"
    /\ UNCHANGED <<matter, limits, urule, dns>>
UserReplaces(new) ==
    /\ seen # {} /\ urule # {}
    /\ UserPass(new, seen)
    /\ seen' = {}
    /\ Written(new, "user")
    /\ UNCHANGED <<matter, limits, dns>>

\* An administrator changes one thing of it, to whatever they like, deletes it or adds it.
AdminEdits ==
    /\ \/ \E r \in urule :
             IF matter = "destinations"
             THEN \/ \E s \in Sides : Written([r EXCEPT !.to = s], "admin")
                  \/ \E own \in {Own} \union {{s} : s \in Sides} : Written([r EXCEPT !.own = own], "admin")
                  \/ \E n \in Span : Written([r EXCEPT !.span = n], "admin")
             ELSE \E new \in Contents : Written(new, "admin")
       \/ urule' = {} /\ by' = "admin"
    /\ UNCHANGED <<matter, limits, seen, dns>>

\* Who answers for the name changes the answer.
Resolved(addresses) ==
    /\ matter = "destinations" /\ dns' = addresses /\ by' = "admin"
    /\ UNCHANGED <<matter, limits, urule, seen>>

UserNext ==
    \/ UserReads \/ AdminEdits
    \/ \E new \in Contents : UserEdits(new) \/ UserReplaces(new) \/ UserAdds(new)
    \/ \E own \in {Own} \union {{s} : s \in Sides} : UserOverrides(own)
    \/ \E addresses \in Addresses : Resolved(addresses)

UserSpec == UserInit /\ [][UserNext]_userVars
-----------------------------------------------------------------------------
\* What the rule was for the one who changes it: as it is, or as it was read.
Before == IF seen # {} /\ seen' = {} THEN seen ELSE urule

\* Where a user makes a node send connections is allowed them there and then, or the rule sent them
\* there before, on that node or as a rule (userlimits.ts:191).  What a user brings in else is
\* allowed, or was there: a certificate or a cache, and a shared cache on no further route
\* (userlimits.ts:132).
UsersAddWhatIsAllowed ==
    [][by' = "user" => \A new \in urule' :
          CASE matter = "destinations" ->
                 \A n \in GroupNodes : \A d \in RefsAt(new, n) :
                    ~Refused(d) \/ \E b \in Before : d \in RefsAt(b, n) \union destRefs(b.to, b.span)
            [] matter = "names" -> new \subseteq (certPrefixesFor \intersect Certs) \union UNION Before
            [] matter = "cache" ->
                 \A c \in new.is :
                    \/ ~c.shared /\ c.size <= limits.cache
                    \/ \E b \in Before : c \in b.is /\ (c.shared => new.at \subseteq b.at)]_userVars
=============================================================================

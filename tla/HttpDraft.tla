----------------------------- MODULE HttpDraft -----------------------------
(***************************************************************************)
(* The HTTP part of a rule while it is edited (components/HttpEditor.tsx), *)
(* what the form and the API accept of it (validateHttp), and what is sent *)
(* of it (cleanHttp).  Routes, services and middlewares refer to each other *)
(* by name, and the editor changes the names.                              *)
(*                                                                         *)
(* A name is a number, the free one being the smallest (uniqueName).  A URL *)
(* is only https, http or incomplete.  The TLS, the health check and the   *)
(* stickiness of a service are unset, there with nothing in them, or filled *)
(* (a path, a cookie, any field of the TLS).  The other fields that nothing *)
(* refers to (names and matches of routes, timeouts of services, numbers    *)
(* and lists of a middleware) are one flag: are they as they should be?    *)
(***************************************************************************)
EXTENDS Integers, FiniteSets, SequencesExt


CONSTANTS
    MaxNames,       \* bound: names of services and of middlewares
    MaxEdits        \* bound: edits of one draft

ASSUME HttpAssumption == MaxNames \in Nat

VARIABLES
    draft,          \* HttpRules
    edits,          \* how many edits were made
    renamed         \* history: was the last edit the renaming of a service or a middleware?

httpVars == <<draft, edits, renamed>>
-----------------------------------------------------------------------------
Unset == 0          \* undefined
HttpNames == 1 .. MaxNames
Free(of) == HttpNames \ DOMAIN of
UniqueName(of) == CHOOSE n \in Free(of) : \A m \in Free(of) : n <= m

Kinds == {"redirect", "headers", "gate", "sign_in", "oidc", "cache", "mirror", "errors"}
ServerKinds == {"headers"}
Gates == {"gate", "sign_in", "oidc"}
Route(service) == [service |-> service, to |-> "none", list |-> <<>>, good |-> TRUE]
Template(kind) == [kind |-> kind, service |-> Unset, shares |-> {}, good |-> TRUE]
Server(goes) == [goes |-> goes, list |-> <<>>]
Blocks == {"tls", "health_check", "sticky"}
Fills == {"unset", "empty", "filled"}
NoBlocks == [b \in Blocks |-> "unset"]
Service(goes) == [servers |-> <<Server(goes)>>, options |-> {}, blocks |-> NoBlocks]
NoDefault == [service |-> Unset, status |-> Unset]

EmptyHttp == [routes |-> <<Route(1)>>, services |-> [n \in {1} |-> Service("http")],
              mws |-> [n \in {} |-> {}], default |-> NoDefault]
RedirectHttp == [routes |-> <<[Route(Unset) EXCEPT !.list = <<1>>]>>, services |-> [n \in {} |-> {}],
                 mws |-> [n \in {1} |-> Template("redirect")], default |-> NoDefault]
\* A rule that was saved before: a mirror, a server with a middleware of its own, a default, and what
\* the API takes as it is given: TLS with nothing in it, stickiness without a cookie.
StoredHttp ==
    [routes |-> <<[Route(1) EXCEPT !.list = <<1>>]>>,
     services |-> [n \in {1, 2} |-> [servers |-> <<[goes |-> "http", list |-> IF n = 1 THEN <<2>> ELSE <<>>]>>,
                                     options |-> {},
                                     blocks |-> [NoBlocks EXCEPT ![IF n = 1 THEN "tls" ELSE "sticky"] = "empty"]]],
     mws |-> [n \in {1, 2} |-> IF n = 1 THEN [Template("mirror") EXCEPT !.service = 2] ELSE Template("headers")],
     default |-> [service |-> 2, status |-> 404]]
-----------------------------------------------------------------------------
(***************************************************************************)
(* validateHttp: the form before it sends, the API before it stores.       *)
(***************************************************************************)
KindOf(d, n) == IF n \in DOMAIN d.mws THEN d.mws[n].kind ELSE "none"

GoodServer(d, s) ==
    /\ s.goes # "incomplete"
    /\ s.goes = "status" => s.list = <<>>
    /\ \A n \in ToSet(s.list) : KindOf(d, n) \in ServerKinds

GoodService(d, s) ==
    /\ s.servers # <<>>
    /\ "wrong" \notin s.options
    /\ \A r \in ToSet(s.servers) :
          /\ GoodServer(d, r)
          /\ "h2" \in s.options => r.goes # "http"
    /\ s.blocks["health_check"] # "empty"
    /\ (s.blocks["health_check"] # "unset" \/ s.blocks["sticky"] # "unset") =>
          \E r \in ToSet(s.servers) : r.goes # "status"

\* checkMiddlewareConfig: the service of a mirror is looked up, that of an errors page is not.
GoodMiddleware(d, m) == m.good /\ (m.kind = "mirror" => m.service \in DOMAIN d.services)

\* checkCacheRoute: no second cache and no gate behind a cache, and before it only what it may share.
GoodCache(d, r) ==
    LET kinds == [i \in DOMAIN r.list |-> KindOf(d, r.list[i])]
    IN  \A at \in DOMAIN kinds : kinds[at] = "cache" =>
          /\ \A i \in DOMAIN kinds : i > at => kinds[i] \notin Gates \union {"cache"}
          /\ \A i \in DOMAIN kinds : i < at =>
                /\ kinds[i] \in {"sign_in", "oidc"} => "after_auth" \in d.mws[r.list[at]].shares
                /\ kinds[i] = "oidc" => "credentials" \in d.mws[r.list[at]].shares

GoodRoute(d, r) ==
    /\ r.good
    /\ r.service = Unset \/ r.to = "none"
    /\ r.service # Unset => r.service \in DOMAIN d.services
    /\ r.to # "incomplete"
    /\ ToSet(r.list) \subseteq DOMAIN d.mws
    /\ GoodCache(d, r)
    /\ (r.service = Unset /\ r.to = "none") => \E n \in ToSet(r.list) : KindOf(d, n) = "redirect"

Valid(d) ==
    /\ \A n \in DOMAIN d.services : GoodService(d, d.services[n])
    /\ \A n \in DOMAIN d.mws : GoodMiddleware(d, d.mws[n])
    /\ \A r \in ToSet(d.routes) : GoodRoute(d, r)
    /\ d.default.service # Unset => d.default.service \in DOMAIN d.services
    /\ d.routes # <<>> \/ d.default.service # Unset
-----------------------------------------------------------------------------
(***************************************************************************)
(* cleanHttp: what is sent leaves out what means the same when it is unset. *)
(***************************************************************************)
CleanServer(s) == IF s.goes = "status" THEN Server("status") ELSE s
CleanBlocks(blocks) == [b \in Blocks |-> IF blocks[b] = "empty" THEN "unset" ELSE blocks[b]]
CleanService(s) == [s EXCEPT !.servers = [k \in DOMAIN @ |-> CleanServer(@[k])], !.blocks = CleanBlocks(@)]
CleanRoute(r) == [r EXCEPT !.to = IF r.service # Unset THEN "none" ELSE @]
\* A saved rule without a default, as a reader of cleanHttp might expect 404 to say nothing.
CleanDefaultPlain(e) == IF e.status \in {Unset, 404} THEN NoDefault ELSE e

CleanDefault(e) ==
    IF e.service # Unset
    THEN [service |-> e.service, status |-> IF e.status = Unset THEN 404 ELSE e.status]
    ELSE [service |-> Unset, status |-> IF e.status = 404 THEN Unset ELSE e.status]

Clean(d) ==
    [routes |-> [i \in DOMAIN d.routes |-> CleanRoute(d.routes[i])],
     services |-> [n \in DOMAIN d.services |-> CleanService(d.services[n])],
     mws |-> d.mws,
     default |-> CleanDefault(d.default)]

-----------------------------------------------------------------------------
(***************************************************************************)
(* The edits.                                                              *)
(***************************************************************************)
Becomes(d) == draft' = d /\ renamed' = FALSE

\* move: two neighbours change places.
Moved(s, i) == [s EXCEPT ![i] = s[i + 1], ![i + 1] = s[i]]

AddRoute ==
    /\ Len(draft.routes) < 2
    /\ \E n \in IF DOMAIN draft.services = {} THEN {Unset} ELSE DOMAIN draft.services :
          Becomes([draft EXCEPT !.routes = Append(@, Route(n))])

MoveRoute == \E i \in 1 .. Len(draft.routes) - 1 : Becomes([draft EXCEPT !.routes = Moved(@, i)])

RemoveRoute == \E i \in DOMAIN draft.routes : Becomes([draft EXCEPT !.routes = RemoveAt(@, i)])

\* The fields of a route: where it goes (one of three ways), its name and match, its middlewares.
Targets(r) ==
    {[r EXCEPT !.service = Unset, !.to = "none"], [r EXCEPT !.good = ~@]}
        \union {[r EXCEPT !.service = n, !.to = "none"] : n \in DOMAIN draft.services}
        \union {[r EXCEPT !.service = Unset, !.to = IF @ = "none" THEN "incomplete" ELSE "http"]}

Listed(list) ==
    {Append(list, n) : n \in {m \in DOMAIN draft.mws : m \notin ToSet(list)}}
        \union {RemoveAt(list, k) : k \in DOMAIN list}
        \union {Moved(list, k) : k \in 1 .. Len(list) - 1}

EditRoute ==
    \E i \in DOMAIN draft.routes :
        \E r \in Targets(draft.routes[i]) \union {[draft.routes[i] EXCEPT !.list = l] : l \in Listed(draft.routes[i].list)} :
            Becomes([draft EXCEPT !.routes[i] = r])

AddService ==
    /\ Free(draft.services) # {}
    /\ Becomes([draft EXCEPT !.services =
          [n \in DOMAIN @ \union {UniqueName(@)} |-> IF n \in DOMAIN @ THEN @[n] ELSE Service("incomplete")]])

\* The servers of a service: URL or status, their own middlewares, and how many there are.
Servers(list) ==
    {[list EXCEPT ![k].goes = g] : k \in {j \in DOMAIN list : list[j].goes # "status"},
                                   g \in {"http", "https", "incomplete"}}
        \union {[list EXCEPT ![k] = IF @.goes = "status" THEN Server("incomplete") ELSE Server("status")] : k \in DOMAIN list}
        \union (UNION {{[list EXCEPT ![k].list = l] :
                           l \in {j \in Listed(list[k].list) : \A n \in ToSet(j) \ ToSet(list[k].list) :
                                     KindOf(draft, n) \in ServerKinds}} :
                       k \in {j \in DOMAIN list : list[j].goes # "status"}})
        \union {RemoveAt(list, k) : k \in DOMAIN list}
        \union (IF Len(list) < 2 THEN {Append(list, Server("incomplete"))} ELSE {})

EditServer ==
    \E n \in DOMAIN draft.services : \E s \in Servers(draft.services[n].servers) :
        Becomes([draft EXCEPT !.services[n].servers = s])

\* Its own TLS is switched on before anything is in it; a path or a cookie that is cleared takes
\* the health check or the stickiness with it.
EditService ==
    \E n \in DOMAIN draft.services :
        \/ \E o \in {"h2", "wrong"} : Becomes([draft EXCEPT !.services[n].options = (@ \ {o}) \union ({o} \ @)])
        \/ \E f \in Fills : Becomes([draft EXCEPT !.services[n].blocks["tls"] = f])
        \/ \E b \in Blocks \ {"tls"}, f \in Fills \ {"empty"} : Becomes([draft EXCEPT !.services[n].blocks[b] = f])

AddMiddleware ==
    /\ Free(draft.mws) # {}
    /\ \E k \in Kinds : Becomes([draft EXCEPT !.mws =
          [n \in DOMAIN @ \union {UniqueName(@)} |-> IF n \in DOMAIN @ THEN @[n] ELSE Template(k)]])

\* Its kind, which starts anew from the template, or a field of its configuration.
EditMiddleware ==
    \E n \in DOMAIN draft.mws :
        \/ Becomes([draft EXCEPT !.mws[n].good = ~@])
        \/ \E k \in Kinds : Becomes([draft EXCEPT !.mws[n] = Template(k)])
        \/ /\ draft.mws[n].kind \in {"mirror", "errors"}
           /\ \E s \in DOMAIN draft.services : Becomes([draft EXCEPT !.mws[n].service = s])
        \/ /\ draft.mws[n].kind = "cache"
           /\ \E s \in {"after_auth", "credentials"} :
                 Becomes([draft EXCEPT !.mws[n].shares = (@ \ {s}) \union ({s} \ @)])

EditDefault ==
    \/ \E s \in DOMAIN draft.services \union {Unset} : Becomes([draft EXCEPT !.default.service = s])
    \/ /\ draft.default.service = Unset
       /\ \E s \in {Unset, 404, 503} : Becomes([draft EXCEPT !.default.status = s])
-----------------------------------------------------------------------------
(***************************************************************************)
(* Names: taken by hand, and carried to every place that refers to them -   *)
(* except the service of an errors page.                                    *)
(***************************************************************************)
To(n, a, b) == IF n = a THEN b ELSE n
Renamed(of, a, b) == [n \in (DOMAIN of \ {a}) \union {b} |-> of[IF n = b THEN a ELSE n]]
\* The names of a list without one of them, and with one that was changed, or taken out (Unset).
Unlisted(list, a) ==
    LET kept == {k \in DOMAIN list : list[k] # a}
        nth(i) == CHOOSE k \in kept : Cardinality({j \in kept : j <= k}) = i
    IN  [i \in 1 .. Cardinality(kept) |-> list[nth(i)]]
Relisted(list, a, b) == IF b = Unset THEN Unlisted(list, a) ELSE [k \in DOMAIN list |-> To(list[k], a, b)]
\* The middlewares of routes or of servers; the services of routes; the services of mirrors.
ListsChanged(rows, a, b) == [k \in DOMAIN rows |-> [rows[k] EXCEPT !.list = Relisted(@, a, b)]]
ServersMapped(services, a, b) ==
    [n \in DOMAIN services |-> [services[n] EXCEPT !.servers = ListsChanged(services[n].servers, a, b)]]
Followed(routes, a, b) == [i \in DOMAIN routes |-> [routes[i] EXCEPT !.service = To(@, a, b)]]
MirrorsRenamed(mws, a, b) ==
    [n \in DOMAIN mws |-> IF mws[n].kind = "mirror" THEN [mws[n] EXCEPT !.service = To(@, a, b)] ELSE mws[n]]

\* The routes and the default are what one sees of a service; the mirrors are easily left out.
RenameServiceShort ==
    \E a \in DOMAIN draft.services, b \in Free(draft.services) :
        /\ draft' = [draft EXCEPT !.services = Renamed(@, a, b), !.routes = Followed(@, a, b),
                                 !.default.service = To(@, a, b)]
        /\ renamed' = TRUE

RenameService ==
    \E a \in DOMAIN draft.services, b \in Free(draft.services) :
        /\ draft' = [draft EXCEPT !.services = Renamed(@, a, b), !.mws = MirrorsRenamed(@, a, b),
                                 !.routes = Followed(@, a, b), !.default.service = To(@, a, b)]
        /\ renamed' = TRUE

RemoveService ==
    \E a \in DOMAIN draft.services :
        Becomes([draft EXCEPT !.services = [n \in DOMAIN @ \ {a} |-> @[n]],
                              !.routes = Followed(@, a, Unset), !.default.service = To(@, a, Unset)])

RenameMiddleware ==
    \E a \in DOMAIN draft.mws, b \in Free(draft.mws) :
        /\ draft' = [draft EXCEPT !.mws = Renamed(@, a, b), !.services = ServersMapped(@, a, b),
                                 !.routes = ListsChanged(@, a, b)]
        /\ renamed' = TRUE

RemoveMiddleware ==
    \E a \in DOMAIN draft.mws :
        Becomes([draft EXCEPT !.mws = [n \in DOMAIN @ \ {a} |-> @[n]], !.services = ServersMapped(@, a, Unset),
                              !.routes = ListsChanged(@, a, Unset)])
-----------------------------------------------------------------------------
HttpInit ==
    /\ draft \in {EmptyHttp, RedirectHttp, StoredHttp}
    /\ edits = 0
    /\ renamed = FALSE

Edit ==
    \/ AddRoute \/ MoveRoute \/ RemoveRoute \/ EditRoute
    \/ AddService \/ EditServer \/ EditService \/ RenameService \/ RemoveService
    \/ AddMiddleware \/ EditMiddleware \/ RenameMiddleware \/ RemoveMiddleware
    \/ EditDefault

HttpNext == edits < MaxEdits /\ edits' = edits + 1 /\ Edit

HttpSpec == HttpInit /\ [][HttpNext]_httpVars
-----------------------------------------------------------------------------
(***************************************************************************)
(* What a draft does, whatever its names are.  DoesApart leaves out what an *)
(* errors page takes from a service of one of the names given.             *)
(***************************************************************************)
ServiceDoes(d, n) ==
    {[options |-> s.options, blocks |-> s.blocks,
      servers |-> [k \in DOMAIN s.servers |->
          [goes |-> s.servers[k].goes,
           kinds |-> [j \in DOMAIN s.servers[k].list |-> KindOf(d, s.servers[k].list[j])]]]] :
        s \in {d.services[m] : m \in DOMAIN d.services \intersect {n}}}

MiddlewareDoes(d, n, names) ==
    [kind |-> KindOf(d, n),
     good |-> n \in DOMAIN d.mws /\ d.mws[n].good,
     shares |-> IF n \in DOMAIN d.mws THEN d.mws[n].shares ELSE {},
     mirrors |-> IF KindOf(d, n) = "mirror" THEN ServiceDoes(d, d.mws[n].service) ELSE {},
     errors |-> IF KindOf(d, n) = "errors" /\ d.mws[n].service \notin names
                THEN ServiceDoes(d, d.mws[n].service) ELSE {}]

DoesApart(d, names) ==
    [routes |-> [i \in DOMAIN d.routes |->
        [good |-> d.routes[i].good,
         service |-> ServiceDoes(d, d.routes[i].service), to |-> d.routes[i].to,
         list |-> [k \in DOMAIN d.routes[i].list |-> MiddlewareDoes(d, d.routes[i].list[k], names)]]],
     default |-> [service |-> ServiceDoes(d, d.default.service),
                  status |-> IF d.default.status = Unset THEN 404 ELSE d.default.status]]

Does(d) == DoesApart(d, {})

\* A mirror may be left with the name of a service that was removed; a new service of that name is
\* then its service.
MirrorsFound(d) ==
    \A m \in DOMAIN d.mws : d.mws[m].kind = "mirror" => d.mws[m].service \in DOMAIN d.services \union {Unset}

\* The names that services have in one of two drafts only: where one is renamed, the old and the new.
NamesChanged(d, e) ==
    (DOMAIN d.services \union DOMAIN e.services) \ (DOMAIN d.services \intersect DOMAIN e.services)

\* A name is only a name: renaming a service or a middleware changes nothing of what the routes and
\* the default do - their services, those of the mirrors, the middlewares of routes and of servers -
\* with one exception: renameService leaves the service of an errors page as it was, so a page that
\* named the old name loses its service, and one left with the new name gets one.
RenameChangesNothing ==
    [][(renamed' /\ MirrorsFound(draft)) =>
          DoesApart(draft', NamesChanged(draft, draft')) = DoesApart(draft, NamesChanged(draft, draft'))]_httpVars

\* A service without what has nothing in it.
OnlyFilled(s) == [s EXCEPT !.blocks = [b \in Blocks |-> IF s.blocks[b] = "filled" THEN "filled" ELSE "unset"]]
WithoutEmpty(d) == [d EXCEPT !.services = [n \in DOMAIN @ |-> OnlyFilled(@[n])]]

\* What the form lets through is what the API takes and stores: the draft is checked before it is
\* cleaned, and the API checks and keeps the cleaned one.  That one is accepted too, saved again
\* without an edit it stays as it is, and it does the same, with one exception: TLS of its own that
\* was switched on with nothing filled in, and stickiness without a cookie, are left out, so that
\* the service has the TLS of the rule again.  Nothing else of such a service is lost with them.
SentIsWhatWasChecked ==
    Valid(draft) => /\ Valid(Clean(draft))
                    /\ Does(Clean(draft)) = Does(WithoutEmpty(draft))
                    /\ Clean(Clean(draft)) = Clean(draft)
=============================================================================

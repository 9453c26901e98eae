------------------------------ MODULE Session ------------------------------
(***************************************************************************)
(* Sign-in with Keycloak: the session is a cookie in the browser, checked  *)
(* and rewritten by every request.  The roles in it are as old as the last *)
(* refresh; checkSession decides when to ask Keycloak again, for how long  *)
(* to go on without an answer, and when to give up.  One UI process serves *)
(* several requests of one browser at a time: each carries the cookie the  *)
(* browser had when it was sent, the refresh is awaited in between, and    *)
(* the answers, each with a new cookie, arrive in any order or not at all. *)
(* sharedRefresher joins refreshes with the same refresh token.            *)
(*                                                                         *)
(* Time is in whole units (Tick).  Keycloak is external: it keeps refresh  *)
(* tokens alive until the user is disabled or the session ended, and, when *)
(* SingleUse, until they are used once.  got and real in a cookie are      *)
(* history: when Keycloak gave these roles, and when the user last really  *)
(* authenticated; kc.changed is when the roles last changed.               *)
(***************************************************************************)
EXTENDS Naturals

CONSTANTS
    Requests,   \* requests of one browser that may be under way at once
    Roles,
    MaxAge,     \* RPROXY_UI_SESSION_MAX_AGE
    Interval,   \* RPROXY_UI_ROLE_REFRESH_SECS (0: never ask)
    Grace,      \* UNAVAILABLE_GRACE_INTERVALS
    Retry,      \* UNAVAILABLE_RETRY_SECS
    Share,      \* SHARE_MS
    Timeout,    \* KEYCLOAK_TIMEOUT_MS
    Outages,    \* Keycloak may be out of reach
    SingleUse,  \* Keycloak's "Revoke Refresh Token"
    Horizon,    \* bound: the last moment looked at
    MaxTokens,  \* bound: the refresh tokens Keycloak issues
    NoCookie, NoRole

ASSUME SessionAssumption ==
    /\ MaxAge \in Nat /\ Interval \in Nat /\ Grace \in Nat \ {0} /\ Retry \in Nat \ {0}
    /\ Share \in Nat /\ Timeout \in Nat /\ Horizon \in Nat /\ MaxTokens \in Nat
    /\ Outages \in BOOLEAN /\ SingleUse \in BOOLEAN
    /\ Timeout <= Share
    /\ NoRole \notin Roles

VARIABLES
    now,
    cookie,     \* the browser's session cookie
    req,        \* the requests
    inflight,   \* sharedRefresher's map: per refresh token the call and its answer
    kc          \* Keycloak: role of the user, last authentication, refresh tokens

vars == <<now, cookie, req, inflight, kc>>
-----------------------------------------------------------------------------
Tokens == 1..MaxTokens
NoToken == 0

\* retryAt 0 stands for a cookie without one.
Cookies == [auth : Nat, rolesAt : Nat, retryAt : Nat, role : Roles,
            rt : Tokens \union {NoToken}, got : Nat, real : Nat]

Reasons == {"none", "expired", "norefresh", "refused", "unavailable"}
Idle == [phase |-> "idle", c |-> NoCookie, at |-> 0,
         out |-> NoCookie, why |-> "none"]

RequestStates == [phase : {"idle", "sent", "asking", "replied"},
                  c : Cookies \union {NoCookie}, at : Nat,
                  out : Cookies \union {NoCookie}, why : Reasons]

Calls == [kind : {"none", "pending", "ok", "refused"}, at : Nat, role : Roles \union {NoRole},
          rt : Tokens \union {NoToken}, got : Nat]
NoCall == [kind |-> "none", at |-> 0, role |-> NoRole, rt |-> NoToken, got |-> 0]
Unavailable == [NoCall EXCEPT !.kind = "unavailable"]

\* A request that Keycloak's answer, or no question to it, lets through with
\* cookie c, and one that checkSession ends with SessionInvalid: NextAuth then
\* deletes the cookie.
Pass(q, c) == [q EXCEPT !.phase = "replied", !.out = c]
Invalid(q, why) == [q EXCEPT !.phase = "replied", !.why = why]

\* checkSession before the question.  q.at is its now.
Expired(q) == q.at >= q.c.auth + MaxAge
Due(q) == Interval > 0 /\ q.at >= q.c.rolesAt + Interval /\ q.at >= q.c.retryAt

\* Mutant: the grace is counted from the last question that was to be repeated.
GraceOverRetry(q) ==
    q.at >= (IF q.c.retryAt = 0 THEN q.c.rolesAt ELSE q.c.retryAt) + Interval * Grace

\* checkSession after the answer a.
GraceOver(q) == q.at >= q.c.rolesAt + Interval * Grace
Finish(q, a) ==
    CASE a.kind = "ok" ->
           Pass(q, [q.c EXCEPT !.role = a.role, !.rolesAt = q.at, !.retryAt = 0, !.got = a.got,
                               !.rt = IF a.rt = NoToken THEN @ ELSE a.rt])
      [] a.kind = "refused" -> Invalid(q, "refused")
      [] a.kind = "unavailable" ->
           IF GraceOver(q) THEN Invalid(q, "unavailable")
           ELSE Pass(q, [q.c EXCEPT !.retryAt = q.at + Retry])

\* Mutant: only refreshes that are still under way are shared.
SharedPending == [t \in Tokens |-> IF inflight[t].kind # "pending" THEN NoCall ELSE inflight[t]]

\* What sharedRefresher still shares: every call drops the older answers first.
Shared == [t \in Tokens |-> IF now > inflight[t].at + Share THEN NoCall ELSE inflight[t]]

KeycloakStates == [role : Roles, changed : Nat, sso : BOOLEAN, auth : Nat,
                   status : [Tokens -> {"unissued", "alive", "used", "lost", "ended"}],
                   used : [Tokens -> Nat]]
Unissued == {t \in Tokens : kc.status[t] = "unissued"}
NewToken == CHOOSE t \in Unissued : TRUE
-----------------------------------------------------------------------------
Init ==
    /\ now = 0
    /\ cookie = NoCookie
    /\ req = [r \in Requests |-> Idle]
    /\ inflight = [t \in Tokens |-> NoCall]
    /\ \E role \in Roles :
         kc = [role |-> role, changed |-> 0, sso |-> FALSE, auth |-> 0,
               status |-> [t \in Tokens |-> "unissued"], used |-> [t \in Tokens |-> 0]]

\* Mutant: the session is counted from the sign-in, silent or not.
SignInNow ==
    /\ cookie = NoCookie
    /\ Unissued # {}
    /\ LET auth == IF kc.sso /\ now < kc.auth + MaxAge THEN kc.auth ELSE now IN
       /\ kc' = [kc EXCEPT !.sso = TRUE, !.auth = auth, !.status[NewToken] = "alive"]
       /\ cookie' = [auth |-> now, rolesAt |-> now, retryAt |-> 0, role |-> kc.role,
                     rt |-> NewToken, got |-> now, real |-> auth]
    /\ UNCHANGED <<now, req, inflight>>

\* Sign-in, with a refresh token or (if the client has none) without.  max_age
\* makes Keycloak ask for the password again when its own session is as old as
\* MaxAge; auth_time in the ID token says when it last did.
SignIn ==
    /\ cookie = NoCookie
    /\ Unissued # {}
    /\ \E rt \in {NewToken, NoToken} :
       LET auth == IF kc.sso /\ now < kc.auth + MaxAge THEN kc.auth ELSE now IN
       /\ kc' = [kc EXCEPT !.sso = TRUE, !.auth = auth,
                           !.status[NewToken] = "alive"]
       /\ cookie' = [auth |-> auth, rolesAt |-> now, retryAt |-> 0, role |-> kc.role,
                     rt |-> rt, got |-> now, real |-> auth]
    /\ UNCHANGED <<now, req, inflight>>

\* The browser sends a request, and the UI starts on it.
Send(r) ==
    /\ req[r].phase = "idle" /\ cookie # NoCookie
    /\ req' = [req EXCEPT ![r] = [Idle EXCEPT !.phase = "sent", !.c = cookie]]
    /\ UNCHANGED <<now, cookie, inflight, kc>>

\* checkSession up to the refresh: too old, not due, or without a token to ask
\* with; a question already answered or on its way (sharedRefresher); a new one.
Check(r) ==
    /\ req[r].phase = "sent"
    /\ LET q == [req[r] EXCEPT !.at = now] IN
       \/ /\ Expired(q)
          /\ req' = [req EXCEPT ![r] = Invalid(q, "expired")]
          /\ UNCHANGED inflight
       \/ /\ ~Expired(q) /\ ~Due(q)
          /\ req' = [req EXCEPT ![r] = Pass(q, q.c)]
          /\ UNCHANGED inflight
       \/ /\ ~Expired(q) /\ Due(q) /\ q.c.rt = NoToken
          /\ req' = [req EXCEPT ![r] = Invalid(q, "norefresh")]
          /\ UNCHANGED inflight
       \/ /\ ~Expired(q) /\ Due(q) /\ q.c.rt # NoToken
          /\ CASE Shared[q.c.rt].kind = "none" ->
                    /\ req' = [req EXCEPT ![r] = [q EXCEPT !.phase = "asking"]]
                    /\ inflight' = [Shared EXCEPT ![q.c.rt] = [NoCall EXCEPT !.kind = "pending", !.at = now]]
               [] Shared[q.c.rt].kind = "pending" ->
                    /\ req' = [req EXCEPT ![r] = [q EXCEPT !.phase = "asking"]]
                    /\ inflight' = Shared
               [] OTHER ->
                    /\ req' = [req EXCEPT ![r] = Finish(q, Shared[q.c.rt])]
                    /\ inflight' = Shared
    /\ UNCHANGED <<now, cookie, kc>>

\* Mutant: no answer is remembered as an answer.
SettleUnavailable(t, a) ==
    /\ req' = [r \in Requests |-> IF req[r].phase = "asking" /\ req[r].c.rt = t
                                  THEN Finish(req[r], a) ELSE req[r]]
    /\ inflight' = [inflight EXCEPT ![t] = [a EXCEPT !.at = inflight[t].at]]
    /\ UNCHANGED <<now, cookie>>

\* The answer a to the refresh with token t: every request that waits for it
\* goes on at once, and no answer at all is forgotten.
Settle(t, a) ==
    /\ req' = [r \in Requests |-> IF req[r].phase = "asking" /\ req[r].c.rt = t
                                  THEN Finish(req[r], a) ELSE req[r]]
    /\ inflight' = [inflight EXCEPT ![t] = IF a.kind = "unavailable" THEN NoCall
                                           ELSE [a EXCEPT !.at = inflight[t].at]]
    /\ UNCHANGED <<now, cookie>>

\* Keycloak takes the token; "lost" when its answer does not arrive.
Spent(t, how) == IF SingleUse
                 THEN [kc EXCEPT !.status[t] = how, !.used[t] = now]
                 ELSE kc

\* Keycloak accepts the token and may send a new one (always, when SingleUse).
KeycloakGives(t) ==
    /\ inflight[t].kind = "pending" /\ kc.status[t] = "alive"
    /\ \/ /\ ~SingleUse
          /\ UNCHANGED kc
          /\ Settle(t, [kind |-> "ok", at |-> 0, role |-> kc.role, rt |-> NoToken, got |-> now])
       \/ /\ Unissued # {}
          /\ kc' = [Spent(t, "used") EXCEPT !.status[NewToken] = "alive"]
          /\ Settle(t, [kind |-> "ok", at |-> 0, role |-> kc.role, rt |-> NewToken, got |-> now])

KeycloakRefuses(t) ==
    /\ inflight[t].kind = "pending" /\ kc.status[t] \in {"used", "lost", "ended"}
    /\ UNCHANGED kc
    /\ Settle(t, [NoCall EXCEPT !.kind = "refused"])

\* No answer within Timeout, a 5xx, an unreadable one: Keycloak may have taken
\* the token all the same.
KeycloakUnavailable(t) ==
    /\ Outages
    /\ inflight[t].kind = "pending"
    /\ \/ UNCHANGED kc
       \/ kc.status[t] = "alive" /\ kc' = Spent(t, "lost")
    /\ Settle(t, Unavailable)

\* An answer reaches the browser, which takes over its cookie or drops its own.
Deliver(r) ==
    /\ req[r].phase = "replied"
    /\ cookie' = req[r].out
    /\ req' = [req EXCEPT ![r] = Idle]
    /\ UNCHANGED <<now, inflight, kc>>

\* An answer is lost, or the browser has left the page.
Lose(r) ==
    /\ req[r].phase = "replied"
    /\ req' = [req EXCEPT ![r] = Idle]
    /\ UNCHANGED <<now, cookie, inflight, kc>>

Ended == [kc EXCEPT !.sso = FALSE,
                    !.status = [t \in Tokens |-> IF @[t] = "unissued" THEN @[t] ELSE "ended"]]

\* Sign-out ends Keycloak's session too (keycloakLogout), unless that fails.
SignOut ==
    /\ cookie # NoCookie
    /\ cookie' = NoCookie
    /\ kc' = Ended \/ UNCHANGED kc
    /\ UNCHANGED <<now, req, inflight>>

\* An administrator of Keycloak ends the user's session, or changes the roles.
Revoke ==
    /\ kc.sso
    /\ kc' = Ended
    /\ UNCHANGED <<now, cookie, req, inflight>>

ChangeRole ==
    /\ \E role \in Roles \ {kc.role} : kc' = [kc EXCEPT !.role = role, !.changed = now]
    /\ UNCHANGED <<now, cookie, req, inflight>>

\* Time passes, but no refresh takes longer than its timeout.
Tick ==
    /\ now < Horizon
    /\ \A t \in Tokens : inflight[t].kind = "pending" => now < inflight[t].at + Timeout
    /\ now' = now + 1
    /\ UNCHANGED <<cookie, req, inflight, kc>>

Next ==
    \/ SignIn \/ SignOut \/ Revoke \/ ChangeRole \/ Tick
    \/ \E r \in Requests : Send(r) \/ Check(r) \/ Deliver(r) \/ Lose(r)
    \/ \E t \in Tokens : KeycloakGives(t) \/ KeycloakRefuses(t) \/ KeycloakUnavailable(t)

Spec == Init /\ [][Next]_vars
-----------------------------------------------------------------------------
TypeOK ==
    /\ now \in 0..Horizon
    /\ cookie \in Cookies \union {NoCookie}
    /\ req \in [Requests -> RequestStates]
    /\ inflight \in [Tokens -> Calls]
    /\ kc \in KeycloakStates

\* A request that was served, with the cookie it leaves behind.
Served(r) == req[r].phase = "replied" /\ req[r].out # NoCookie

\* How old the roles of a served request may be: without outages one interval,
\* and with them until the first question at or after Grace intervals, which
\* the retry may put off; plus the time an answer is shared.
RoleLimit == (IF Outages THEN Interval * Grace + Retry - 1 ELSE Interval) + Share

\* No request is served with roles that Keycloak gave RoleLimit ago or earlier,
\* nor with a role changed there so long ago, whatever the order in which answers
\* and their cookies arrive (checkSession, sharedRefresher).
RoleAge ==
    Interval > 0 => \A r \in Requests : Served(r) =>
        /\ req[r].at < req[r].out.got + RoleLimit
        /\ req[r].out.role # kc.role => req[r].at < kc.changed + RoleLimit

\* No cookie outlives the authentication it goes back to, however often it is
\* renewed and however often the user silently signs in again.
SessionEnds ==
    \A r \in Requests : Served(r) => req[r].at < req[r].out.real + MaxAge

\* By then the answer to the one use of token t is no longer shared.
Forgotten(t, at) == at + Timeout > kc.used[t] + Share

\* With refresh tokens that work once, a user whose session goes on in Keycloak
\* is refused only when an old cookie comes back after the answer to its token
\* is no longer shared: simultaneous and slightly late requests are not refused.
\* The one other way is an answer of Keycloak that got lost with the new token.
SharedAnswer ==
    \A r \in Requests :
        /\ req[r].phase = "replied" /\ req[r].why = "refused"
        => \/ kc.status[req[r].c.rt] \in {"ended", "lost"}
           \/ Forgotten(req[r].c.rt, req[r].at)

\* The inductive invariant of the proofs.
\* A cookie in the browser or on its way: no time in it lies ahead, its roles
\* are at most Share older than rolesAt says, and retryAt was set in the grace;
\* a role that is not the user's any more was given before it changed.
CookieOk(c) ==
    /\ c.role # kc.role => c.got <= kc.changed
    /\ c.rolesAt <= now /\ c.got <= now /\ c.rolesAt <= c.got + Share
    /\ c.real = c.auth
    /\ c.retryAt = 0 \/ (Outages /\ c.retryAt + 1 <= c.rolesAt + Interval * Grace + Retry)

\* A shared answer came after its question, and no question is open too long.
CallOk(a) ==
    /\ a.kind = "pending" => now <= a.at + Timeout
    /\ a.kind = "ok" => a.at <= a.got /\ a.got <= now /\ a.role \in Roles
    /\ a.kind = "ok" /\ a.role # kc.role => a.got <= kc.changed
    /\ a.at <= now

\* A used token was used within Timeout of the question whose answer is shared,
\* and no other question is asked with it while that is so.
TokenOk(t) ==
    LET a == inflight[t]
    IN  /\ a.kind = "refused" => kc.status[t] \in {"used", "lost", "ended"}
        /\ kc.status[t] = "used" =>
             /\ a.kind = "none" => Forgotten(t, now)
             /\ a.kind \in {"pending", "refused"} => Forgotten(t, a.at)
             /\ a.kind = "ok" => kc.used[t] <= a.at + Timeout

\* A request that asks waits for a call that is still open, and was due; one
\* that was served was not too old, and asked if it was due.
RequestOk(q) ==
    /\ q.phase # "idle" => q.c \in Cookies /\ CookieOk(q.c)
    /\ q.out # NoCookie => CookieOk(q.out)
    /\ q.phase \in {"sent", "asking"} => q.out = NoCookie /\ q.why = "none"
    /\ q.at <= now
    /\ q.phase = "asking" =>
         /\ q.c.rt \in Tokens
         /\ inflight[q.c.rt].kind = "pending"
         /\ q.at <= inflight[q.c.rt].at + Share
         /\ inflight[q.c.rt].at <= q.at
         /\ ~Expired(q)
    /\ q.phase = "replied" /\ q.out # NoCookie =>
         /\ q.at < q.out.auth + MaxAge
         /\ Interval > 0 => q.at < q.out.rolesAt + Interval \/ q.at < q.out.retryAt
    /\ q.phase = "replied" /\ q.why = "refused" =>
         /\ q.c.rt \in Tokens
         /\ \/ kc.status[q.c.rt] \in {"ended", "lost"}
            \/ kc.status[q.c.rt] = "used" /\ Forgotten(q.c.rt, q.at)

IInv ==
    /\ TypeOK
    /\ cookie # NoCookie => CookieOk(cookie)
    /\ kc.auth <= now
    /\ \A t \in Tokens : CallOk(inflight[t]) /\ TokenOk(t)
    /\ \A r \in Requests : RequestOk(req[r])

\* README.md:265: "最後に確かめてから間隔の 3 回分（既定 15 分）を過ぎたらセッションを無効にする"
\* (past 3 intervals since the last confirmation the session is ended).
GraceKept ==
    Interval > 0 => \A r \in Requests :
        Served(r) => req[r].at <= req[r].out.rolesAt + Interval * Grace

\* README.md:195: "Keycloak でロールを外すと、遅くともその間隔のあとで反映される" (a
\* role removed in Keycloak takes effect after that interval at the latest).
RoleTakenAway ==
    (Interval > 0 /\ ~Outages) => \A r \in Requests :
        Served(r) /\ req[r].out.role # kc.role => req[r].at <= kc.changed + Interval
=============================================================================

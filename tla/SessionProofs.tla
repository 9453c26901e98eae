--------------------------- MODULE SessionProofs ---------------------------
(***************************************************************************)
(* The inductive invariant of Session, and what follows from it: how old   *)
(* the roles of a served request can be, that sessions end, and when a     *)
(* user whose session goes on is refused.                                  *)
(*                                                                         *)
(* UserLimits: what a request of a limited user adds to what was there is  *)
(* what the rights of that user allow, at the base and at every node.      *)
(***************************************************************************)
EXTENDS Session, UserLimits, TLAPS

\* A refusal is due: the session ended, an answer got lost, or the answer to the
\* one use of the token was no longer shared when the request asked.
RefusalDue(q) ==
    /\ q.c.rt \in Tokens
    /\ \/ kc.status[q.c.rt] \in {"ended", "lost"}
       \/ kc.status[q.c.rt] = "used" /\ Forgotten(q.c.rt, q.at)

\* An open question, as Finish finds it.
Asked(q) ==
    /\ q \in RequestStates
    /\ q.c \in Cookies /\ CookieOk(q.c)
    /\ q.out = NoCookie /\ q.why = "none"
    /\ q.at <= now
    /\ ~Expired(q)

\* What RequestOk says of a request that is not asking.
Answered(q) ==
    /\ q \in RequestStates
    /\ q.phase = "replied"
    /\ q.c \in Cookies /\ CookieOk(q.c)
    /\ q.out # NoCookie => CookieOk(q.out)
    /\ q.at <= now
    /\ q.out # NoCookie =>
         /\ q.at < q.out.auth + MaxAge
         /\ Interval > 0 => q.at < q.out.rolesAt + Interval \/ q.at < q.out.retryAt
    /\ q.why = "refused" => RefusalDue(q)

\* Grace intervals are at least one.
LEMMA GraceIntervals ==
    /\ Interval * Grace \in Nat
    /\ Interval * Grace >= Interval
<1>1. Interval \in Nat /\ Grace \in Nat /\ Grace >= 1  BY SessionAssumption
<1>2. Interval * Grace \in Nat  BY <1>1
<1>3. PICK g \in Nat : Grace = g + 1
  <2>1. Grace - 1 \in Nat /\ Grace = (Grace - 1) + 1  BY <1>1
  <2> QED  BY <2>1
<1>4. Interval * (g + 1) = Interval * g + Interval  BY <1>1
<1>5. Interval * g \in Nat  BY <1>1
<1> QED  BY <1>1, <1>2, <1>3, <1>4, <1>5

\* Passing a request on with a good cookie answers it.
LEMMA PassAnswers ==
    ASSUME now \in Nat,
           NEW q \in RequestStates, q.c \in Cookies, CookieOk(q.c), q.at <= now,
           q.why = "none",
           NEW c \in Cookies, CookieOk(c), q.at < c.auth + MaxAge,
           Interval > 0 => q.at < c.rolesAt + Interval \/ q.at < c.retryAt
    PROVE  Answered(Pass(q, c))
<1> DEFINE p == Pass(q, c)
<1>1. p \in RequestStates  BY DEF Pass, RequestStates
<1>2. p.phase = "replied" /\ p.c = q.c /\ p.out = c /\ p.at = q.at /\ p.why = "none"
  BY DEF Pass, RequestStates
<1> HIDE DEF p
<1> QED  BY <1>1, <1>2 DEF Answered, p

\* Ending a session answers the request.
LEMMA InvalidAnswers ==
    ASSUME now \in Nat,
           NEW q \in RequestStates, q.c \in Cookies, CookieOk(q.c), q.at <= now,
           q.out = NoCookie,
           NEW why \in Reasons, why = "refused" => RefusalDue(q)
    PROVE  Answered(Invalid(q, why))
<1> DEFINE p == Invalid(q, why)
<1>1. p \in RequestStates  BY DEF Invalid, RequestStates
<1>2. p.phase = "replied" /\ p.c = q.c /\ p.out = NoCookie /\ p.at = q.at /\ p.why = why
  BY DEF Invalid, RequestStates
<1> HIDE DEF p
<1> QED  BY <1>1, <1>2 DEF Answered, RefusalDue, p

\* An answer to a refresh, as Settle and sharedRefresher hand it to Finish.
Answers == [kind : {"ok", "refused", "unavailable"}, at : Nat, role : Roles \union {NoRole},
               rt : Tokens \union {NoToken}, got : Nat]
GoodAnswer(q, a) ==
    /\ a \in Answers
    /\ a.kind = "ok" => a.role \in Roles /\ a.got <= now /\ q.at <= a.got + Share
                       /\ (a.role # kc.role => a.got <= kc.changed)
    /\ a.kind = "refused" => RefusalDue(q)
    /\ a.kind = "unavailable" => Outages

\* checkSession answers every request it asked for, and leaves a good cookie.
LEMMA FinishAnswers ==
    ASSUME now \in Nat, NEW q, Asked(q), NEW a, GoodAnswer(q, a)
    PROVE  Answered(Finish(q, a))
<1>0. /\ q \in RequestStates /\ q.c \in Cookies /\ CookieOk(q.c) /\ q.out = NoCookie
      /\ q.why = "none" /\ q.at <= now /\ q.at \in Nat /\ q.at < q.c.auth + MaxAge
      /\ q.c.auth \in Nat /\ q.c.rolesAt \in Nat /\ q.c.got \in Nat
  BY SessionAssumption DEF Asked, RequestStates, Cookies, Expired
<1>1. CASE a.kind = "ok"
  <2> DEFINE c == [q.c EXCEPT !.role = a.role, !.rolesAt = q.at, !.retryAt = 0, !.got = a.got,
                              !.rt = IF a.rt = NoToken THEN @ ELSE a.rt]
  <2>1. Finish(q, a) = Pass(q, c)  BY <1>1 DEF Finish
  <2>2. c \in Cookies
    BY <1>0, <1>1 DEF GoodAnswer, Answers, Cookies
  <2>3. c.rolesAt = q.at /\ c.retryAt = 0 /\ c.got = a.got /\ c.auth = q.c.auth /\ c.real = q.c.real
        /\ c.role = a.role
    BY <1>0 DEF Cookies
  <2>4. a.got \in Nat /\ a.got <= now /\ q.at <= a.got + Share
        /\ (a.role # kc.role => a.got <= kc.changed)
    BY <1>1 DEF GoodAnswer, Answers
  <2> HIDE DEF c
  <2>5. CookieOk(c)
    BY <1>0, <2>3, <2>4 DEF CookieOk
  <2>6. Interval > 0 => q.at < c.rolesAt + Interval
    BY <1>0, <2>3, SessionAssumption
  <2> QED  BY <1>0, <2>1, <2>2, <2>3, <2>5, <2>6, PassAnswers
<1>2. CASE a.kind = "refused"
  <2>1. Finish(q, a) = Invalid(q, "refused")  BY <1>2 DEF Finish
  <2> QED  BY <1>0, <1>2, <2>1, InvalidAnswers DEF Reasons, GoodAnswer
<1>3. CASE a.kind = "unavailable" /\ GraceOver(q)
  <2>1. Finish(q, a) = Invalid(q, "unavailable")  BY <1>3 DEF Finish
  <2> QED  BY <1>0, <2>1, InvalidAnswers DEF Reasons
<1>4. CASE a.kind = "unavailable" /\ ~GraceOver(q)
  <2> DEFINE c == [q.c EXCEPT !.retryAt = q.at + Retry]
  <2>1. Finish(q, a) = Pass(q, c)  BY <1>4 DEF Finish
  <2>2. c \in Cookies
    BY <1>0, SessionAssumption DEF Cookies
  <2>3. c.rolesAt = q.c.rolesAt /\ c.retryAt = q.at + Retry /\ c.got = q.c.got
        /\ c.auth = q.c.auth /\ c.real = q.c.real /\ c.role = q.c.role
    BY <1>0 DEF Cookies
  <2>4. Outages /\ q.at < q.c.rolesAt + Interval * Grace
    BY <1>0, <1>4, GraceIntervals DEF GoodAnswer, GraceOver
  <2> HIDE DEF c
  <2>5. Retry \in Nat /\ Retry > 0  BY SessionAssumption
  <2>6. CookieOk(c)
    <3>1. q.at + Retry + 1 <= q.c.rolesAt + Interval * Grace + Retry
      BY <1>0, <2>4, <2>5, GraceIntervals
    <3> QED  BY <1>0, <2>3, <2>4, <3>1 DEF CookieOk
  <2>7. q.at < c.retryAt  BY <1>0, <2>3, <2>5
  <2> QED  BY <1>0, <2>1, <2>2, <2>3, <2>6, <2>7, PassAnswers
<1> QED  BY <1>1, <1>2, <1>3, <1>4 DEF GoodAnswer, Answers

\* An answered request satisfies RequestOk, whatever is in flight.
LEMMA AnsweredOk ==
    ASSUME NEW q, Answered(q)
    PROVE  q \in RequestStates /\ RequestOk(q)
BY DEF Answered, RequestOk, RefusalDue

-----------------------------------------------------------------------------
\* The invariant holds at the start.
LEMMA InitIInv == Init => IInv
<1> SUFFICES ASSUME Init PROVE IInv  OBVIOUS
<1>1. Idle \in RequestStates  BY DEF Idle, RequestStates, Reasons
<1>2. NoCall \in Calls  BY DEF Calls, NoCall
<1>3. TypeOK
  <2>1. now \in 0..Horizon  BY SessionAssumption DEF Init
  <2>2. kc \in KeycloakStates
    BY DEF Init, KeycloakStates
  <2> QED  BY <1>1, <1>2, <2>1, <2>2 DEF Init, TypeOK
<1>4. kc.auth <= now  BY DEF Init
<1>5. ASSUME NEW t \in Tokens PROVE CallOk(inflight[t])
  BY DEF Init, CallOk, NoCall
<1>6. ASSUME NEW r \in Requests PROVE RequestOk(req[r])
  BY DEF Init, RequestOk, Idle
<1>7. ASSUME NEW t \in Tokens PROVE TokenOk(t)
  BY DEF Init, TokenOk, NoCall
<1> QED  BY <1>3, <1>4, <1>5, <1>6, <1>7 DEF Init, IInv

\* What a step does to Keycloak, as far as cookies, calls and refusals are
\* concerned: a role changes now or not at all, a token that is used was used
\* before or was alive, and one that is gone stays gone.
Onward ==
    /\ UNCHANGED now
    /\ kc' \in KeycloakStates
    /\ (kc'.role = kc.role /\ kc'.changed = kc.changed) \/ kc'.changed = now
    /\ \A t \in Tokens :
         /\ kc.status[t] \in {"ended", "lost"} => kc'.status[t] \in {"ended", "lost"}
         /\ kc.status[t] = "used" =>
              \/ kc'.status[t] = "ended"
              \/ kc'.status[t] = "used" /\ kc'.used[t] = kc.used[t]

\* A step that uses no token either.
NoneUsed ==
    \A t \in Tokens : kc'.status[t] = "used" => kc.status[t] = "used"

\* A step outside Keycloak uses no token up.
LEMMA SameKeycloak ==
    ASSUME IInv, UNCHANGED <<now, kc>>
    PROVE  Onward /\ NoneUsed
BY DEF IInv, TypeOK, Onward, NoneUsed

\* Cookies, calls and refusals that were right stay right.
LEMMA CookieStays ==
    ASSUME Onward, NEW CONSTANT c, CookieOk(c)
    PROVE  CookieOk(c)'
<1>1. c.role # kc'.role => c.got <= kc'.changed
  BY DEF Onward, CookieOk
<1> QED  BY <1>1 DEF Onward, CookieOk

\* The same for an answer of Keycloak on its way,
LEMMA CallStays ==
    ASSUME Onward, NEW CONSTANT a, CallOk(a)
    PROVE  CallOk(a)'
<1>1. a.kind = "ok" /\ a.role # kc'.role => a.got <= kc'.changed
  BY DEF Onward, CallOk
<1> QED  BY <1>1 DEF Onward, CallOk

\* for a refusal,
LEMMA RefusalStays ==
    ASSUME Onward, NEW CONSTANT q, RefusalDue(q)
    PROVE  RefusalDue(q)'
BY DEF Onward, RefusalDue, Forgotten

\* for what is known of a token nobody has answered for since,
LEMMA TokenStays ==
    ASSUME IInv, Onward, NoneUsed, NEW t \in Tokens, inflight'[t] = inflight[t]
    PROVE  TokenOk(t)'
<1>1. TokenOk(t) /\ CallOk(inflight[t])  BY DEF IInv
<1>2. PICK a : a = inflight[t]  OBVIOUS
<1>3. a.kind = "refused" => kc'.status[t] \in {"used", "lost", "ended"}
  BY <1>1, <1>2 DEF TokenOk, Onward
<1>4. kc'.status[t] = "used" => kc.status[t] = "used" /\ kc'.used[t] = kc.used[t]
  BY DEF Onward, NoneUsed
<1> QED  BY <1>1, <1>2, <1>3, <1>4 DEF TokenOk, Forgotten, Onward

\* for an answer that has left the server,
LEMMA AnsweredStays ==
    ASSUME Onward, NEW CONSTANT q, Answered(q)
    PROVE  Answered(q)'
<1>1. CookieOk(q.c)'  BY CookieStays DEF Answered
<1>2. (q.out # NoCookie => CookieOk(q.out))'  BY CookieStays DEF Answered
<1>3. q.why = "refused" => RefusalDue(q)'  BY RefusalStays DEF Answered
<1> QED  BY <1>1, <1>2, <1>3 DEF Answered, Onward

\* and for a request that is still in it.
LEMMA RequestStays ==
    ASSUME Onward, UNCHANGED inflight, NEW CONSTANT q, RequestOk(q)
    PROVE  RequestOk(q)'
<1>1. q.phase # "idle" => q.c \in Cookies /\ CookieOk(q.c)'
  BY CookieStays DEF RequestOk
<1>2. (q.out # NoCookie => CookieOk(q.out))'  BY CookieStays DEF RequestOk
<1>3. q.phase = "replied" /\ q.why = "refused" => RefusalDue(q)'
  BY RefusalStays DEF RequestOk, RefusalDue
<1> QED  BY <1>1, <1>2, <1>3 DEF RequestOk, RefusalDue, Onward, Expired

\* A step of Keycloak or the browser with the requests and calls as they were,
\* or with one request that is right too.
LEMMA QuietStep ==
    ASSUME IInv, Onward, NoneUsed, UNCHANGED inflight, kc'.auth <= now,
           cookie' \in Cookies \union {NoCookie}, cookie' # NoCookie => CookieOk(cookie)',
           req' \in [Requests -> RequestStates],
           \A s \in Requests : req'[s] = req[s] \/ RequestOk(req'[s])
    PROVE  IInv'
<1>1. TypeOK'  BY DEF IInv, TypeOK, Onward
<1>2. ASSUME NEW s \in Requests PROVE RequestOk(req[s])'
  <2>1. PICK p : p = req'[s]  OBVIOUS
  <2>2. RequestOk(p)  BY <2>1 DEF IInv
  <2> QED  BY <2>1, <2>2, RequestStays
<1>3. ASSUME NEW t \in Tokens PROVE CallOk(inflight[t])'
  <2>1. PICK a : a = inflight[t]  OBVIOUS
  <2> QED  BY <2>1, CallStays DEF IInv
<1>4. ASSUME NEW t \in Tokens PROVE TokenOk(t)'
  BY TokenStays
<1> QED  BY <1>1, <1>2, <1>3, <1>4 DEF IInv, Onward

\* A request that is not asking and not answered is one the browser sent.
LEMMA SendStep ==
    ASSUME IInv, NEW r \in Requests, Send(r)
    PROVE  IInv'
<1>1. PICK c : c = cookie  OBVIOUS
<1>2. c \in Cookies /\ CookieOk(c) /\ now \in Nat
  BY <1>1, SessionAssumption DEF Send, IInv, TypeOK
<1> DEFINE q == [Idle EXCEPT !.phase = "sent", !.c = c]
<1>3. q \in RequestStates  BY <1>2 DEF Idle, RequestStates, Reasons
<1>4. q.phase = "sent" /\ q.c = c /\ q.out = NoCookie /\ q.at = 0 /\ q.why = "none"
  BY DEF Idle
<1> HIDE DEF q
<1>5. RequestOk(q)  BY <1>2, <1>4 DEF RequestOk
<1>6. req' = [req EXCEPT ![r] = q]  BY <1>1 DEF Send, q
<1>7. req' \in [Requests -> RequestStates]
      /\ \A s \in Requests : req'[s] = req[s] \/ RequestOk(req'[s])
  BY <1>3, <1>5, <1>6 DEF IInv, TypeOK
<1>8. UNCHANGED <<now, cookie, inflight, kc>>  BY DEF Send
<1>9. CookieOk(cookie)'
  BY <1>1, <1>2, <1>8, SameKeycloak, CookieStays
<1> QED  BY <1>7, <1>8, <1>9, SameKeycloak, QuietStep DEF IInv, TypeOK

\* An answer leaves its request idle, and its cookie is a good one.
LEMMA DeliverStep ==
    ASSUME IInv, NEW r \in Requests, Deliver(r) \/ Lose(r)
    PROVE  IInv'
<1>1. Idle \in RequestStates /\ RequestOk(Idle)
  BY SessionAssumption DEF Idle, RequestStates, Reasons, RequestOk, IInv, TypeOK
<1>2. req' = [req EXCEPT ![r] = Idle] /\ UNCHANGED <<now, inflight, kc>>
  BY DEF Deliver, Lose
<1>3. PICK c : c = cookie'  OBVIOUS
<1>4. c \in Cookies \union {NoCookie} /\ (c # NoCookie => CookieOk(c))
  BY <1>3 DEF Deliver, Lose, IInv, TypeOK, RequestStates, RequestOk
<1>5. cookie' # NoCookie => CookieOk(cookie)'
  BY <1>2, <1>3, <1>4, SameKeycloak, CookieStays
<1>6. req' \in [Requests -> RequestStates]
      /\ \A s \in Requests : req'[s] = req[s] \/ RequestOk(req'[s])
  BY <1>1, <1>2 DEF IInv, TypeOK
<1> QED  BY <1>2, <1>3, <1>4, <1>5, <1>6, SameKeycloak, QuietStep DEF IInv

\* What happens at Keycloak or in the browser alone.
LEMMA OutsideStep ==
    ASSUME IInv, SignOut \/ Revoke \/ ChangeRole
    PROVE  IInv'
<1>1. UNCHANGED <<now, req, inflight>>  BY DEF SignOut, Revoke, ChangeRole
<1>2. cookie' = cookie \/ cookie' = NoCookie  BY DEF SignOut, Revoke, ChangeRole
<1>3. kc' = kc \/ kc' = Ended
      \/ \E role \in Roles : kc' = [kc EXCEPT !.role = role, !.changed = now]
  BY DEF SignOut, Revoke, ChangeRole
<1>4. now \in Nat /\ kc \in KeycloakStates
  BY SessionAssumption DEF IInv, TypeOK
<1>5. Onward /\ NoneUsed /\ kc'.auth = kc.auth
  <2>1. CASE kc' = kc  BY <1>1, <2>1, SameKeycloak
  <2>2. CASE kc' = Ended
    <3>1. kc' \in KeycloakStates
      BY <1>4, <2>2 DEF Ended, KeycloakStates
    <3>2. kc'.auth = kc.auth /\ kc'.role = kc.role /\ kc'.changed = kc.changed
          /\ \A t \in Tokens : kc'.status[t] \in {"unissued", "ended"}
                               /\ (kc.status[t] # "unissued" => kc'.status[t] = "ended")
      BY <1>4, <2>2 DEF Ended, KeycloakStates
    <3> QED  BY <1>1, <3>1, <3>2 DEF Onward, NoneUsed
  <2>3. CASE \E role \in Roles : kc' = [kc EXCEPT !.role = role, !.changed = now]
    <3>1. kc' \in KeycloakStates
      BY <1>4, <2>3 DEF KeycloakStates
    <3>2. kc'.auth = kc.auth /\ kc'.changed = now
          /\ kc'.status = kc.status /\ kc'.used = kc.used
      BY <1>4, <2>3 DEF KeycloakStates
    <3> QED  BY <1>1, <3>1, <3>2 DEF Onward, NoneUsed
  <2> QED  BY <1>3, <2>1, <2>2, <2>3
<1>6. cookie' # NoCookie => CookieOk(cookie)'
  <2>1. PICK c : c = cookie'  OBVIOUS
  <2> QED  BY <1>2, <1>5, <2>1, CookieStays DEF IInv
<1> QED  BY <1>1, <1>2, <1>5, <1>6, QuietStep DEF IInv, TypeOK

\* A sign-in makes a cookie that is as old as Keycloak's authentication.
LEMMA SignInStep ==
    ASSUME IInv, SignIn
    PROVE  IInv'
<1>1. UNCHANGED <<now, req, inflight>>  BY DEF SignIn
<1>2. PICK rt \in {NewToken, NoToken} :
        LET auth == IF kc.sso /\ now < kc.auth + MaxAge THEN kc.auth ELSE now IN
        /\ kc' = [kc EXCEPT !.sso = TRUE, !.auth = auth, !.status[NewToken] = "alive"]
        /\ cookie' = [auth |-> auth, rolesAt |-> now, retryAt |-> 0, role |-> kc.role,
                      rt |-> rt, got |-> now, real |-> auth]
  BY DEF SignIn
<1> DEFINE auth == IF kc.sso /\ now < kc.auth + MaxAge THEN kc.auth ELSE now
<1>3. NewToken \in Tokens
  <2>1. Unissued \subseteq Tokens /\ Unissued # {}  BY DEF SignIn, Unissued
  <2> QED  BY <2>1 DEF NewToken
<1>4. now \in Nat /\ kc.auth <= now /\ Share \in Nat
      /\ kc \in KeycloakStates
  BY SessionAssumption DEF IInv, TypeOK
<1>5. auth \in Nat /\ auth <= now  BY <1>4 DEF KeycloakStates
<1> HIDE DEF auth
<1>6. kc' = [kc EXCEPT !.sso = TRUE, !.auth = auth, !.status[NewToken] = "alive"]
      /\ cookie' = [auth |-> auth, rolesAt |-> now, retryAt |-> 0, role |-> kc.role,
                    rt |-> rt, got |-> now, real |-> auth]
  BY <1>2 DEF auth
<1>7. kc.status[NewToken] = "unissued"
  <2>1. \E t \in Unissued : TRUE  BY DEF SignIn
  <2>2. NewToken \in Unissued  BY <2>1 DEF NewToken
  <2> QED  BY <2>2 DEF Unissued
<1>8. kc' \in KeycloakStates
      /\ kc'.auth = auth /\ kc'.role = kc.role /\ kc'.changed = kc.changed /\ kc'.used = kc.used
      /\ \A t \in Tokens : kc'.status[t] = IF t = NewToken THEN "alive" ELSE kc.status[t]
  BY <1>3, <1>4, <1>5, <1>6 DEF KeycloakStates
<1>9. Onward /\ NoneUsed
  BY <1>1, <1>7, <1>8 DEF Onward, NoneUsed
<1>10. cookie' \in Cookies /\ CookieOk(cookie)'
  <2>1. cookie' \in Cookies
    BY <1>3, <1>4, <1>5, <1>6 DEF Cookies, KeycloakStates
  <2>2. cookie'.role = kc'.role /\ cookie'.rolesAt = now /\ cookie'.got = now
        /\ cookie'.real = cookie'.auth /\ cookie'.retryAt = 0
    BY <1>6, <1>8
  <2> QED  BY <1>1, <1>4, <2>1, <2>2 DEF CookieOk
<1> QED  BY <1>1, <1>5, <1>8, <1>9, <1>10, QuietStep DEF IInv, TypeOK

\* What an asking request needs of the calls.
Waits(q) ==
    /\ inflight[q.c.rt].kind = "pending"
    /\ q.at <= inflight[q.c.rt].at + Share
    /\ inflight[q.c.rt].at <= q.at

\* A call added or forgotten, with the requests that are asking keeping theirs.
LEMMA CallsStep ==
    ASSUME IInv, Onward, UNCHANGED cookie, kc'.auth = kc.auth,
           inflight' \in [Tokens -> Calls],
           \A t \in Tokens : CallOk(inflight'[t]), \A t \in Tokens : TokenOk(t)',
           req' \in [Requests -> RequestStates],
           \A s \in Requests :
             \/ Answered(req'[s])
             \/ req'[s] = req[s] /\ (req[s].phase = "asking" => Waits(req[s])')
             \/ /\ req'[s].phase = "asking"
                /\ Asked(req'[s]) /\ req'[s].c.rt \in Tokens
                /\ Waits(req[s])'
    PROVE  IInv'
<1>1. TypeOK'  BY DEF IInv, TypeOK, Onward
<1>2. ASSUME NEW s \in Requests PROVE RequestOk(req[s])'
  <2>1. PICK p : p = req'[s]  OBVIOUS
  <2>2. CASE Answered(p)
    <3>1. Answered(p)'  BY <2>2, AnsweredStays
    <3> QED  BY <2>1, <3>1, AnsweredOk DEF Answered, RequestOk, RefusalDue
  <2>3. CASE p = req[s] /\ (p.phase = "asking" => Waits(p)')
    <3>1. RequestOk(p)  BY <2>3 DEF IInv
    <3>2. p.phase # "idle" => p.c \in Cookies /\ CookieOk(p.c)'
      BY <3>1, CookieStays DEF RequestOk
    <3>3. (p.out # NoCookie => CookieOk(p.out))'  BY <3>1, CookieStays DEF RequestOk
    <3>4. p.phase = "replied" /\ p.why = "refused" => RefusalDue(p)'
      BY <3>1, RefusalStays DEF RequestOk, RefusalDue
    <3>5. RequestOk(p)'
      BY <2>3, <3>1, <3>2, <3>3, <3>4 DEF RequestOk, RefusalDue, Onward, Expired, Waits
    <3> QED  BY <2>1, <3>5
  <2>4. CASE p.phase = "asking" /\ Asked(p) /\ p.c.rt \in Tokens /\ Waits(p)'
    <3>1. CookieOk(p.c)'  BY <2>4, CookieStays DEF Asked
    <3>2. RequestOk(p)'
      BY <2>4, <3>1 DEF Asked, RequestOk, Waits, Onward, Expired
    <3> QED  BY <2>1, <3>2
  <2> QED  BY <2>1, <2>2, <2>3, <2>4
<1>3. ASSUME NEW t \in Tokens PROVE CallOk(inflight[t])'
  <2>1. PICK a : a = inflight'[t]  OBVIOUS
  <2>2. CallOk(a)'  BY <2>1, CallStays
  <2> QED  BY <2>1, <2>2
<1>4. (cookie # NoCookie => CookieOk(cookie))'
  <2>1. PICK c : c = cookie  OBVIOUS
  <2> QED  BY <2>1, CookieStays DEF IInv
<1>5. kc'.auth <= now'  BY DEF IInv, Onward
<1> QED  BY <1>1, <1>2, <1>3, <1>4, <1>5 DEF IInv

\* What is still shared are calls, good ones, and every open one; the answer to
\* the use of a token is dropped no earlier than Share after the question.
LEMMA SharedCalls ==
    ASSUME IInv
    PROVE  /\ Shared \in [Tokens -> Calls]
           /\ \A t \in Tokens :
                /\ CallOk(Shared[t])
                /\ inflight[t].kind = "pending" => Shared[t] = inflight[t]
                /\ Shared[t].kind # "none" => Shared[t] = inflight[t] /\ now <= Shared[t].at + Share
                /\ Shared[t].kind = "none" /\ kc.status[t] = "used" => Forgotten(t, now)
<1>1. NoCall \in Calls  BY DEF Calls, NoCall
<1>2. now \in Nat /\ Share \in Nat /\ Timeout \in Nat /\ Timeout <= Share
      /\ inflight \in [Tokens -> Calls]
  BY SessionAssumption DEF IInv, TypeOK
<1>3. CallOk(NoCall)  BY <1>2 DEF CallOk, NoCall
<1>4. ASSUME NEW t \in Tokens
      PROVE  /\ CallOk(inflight[t]) /\ inflight[t].at \in Nat
             /\ inflight[t].kind = "pending" => now <= inflight[t].at + Share
  <2>1. CallOk(inflight[t])  BY DEF IInv
  <2>2. inflight[t].at \in Nat  BY <1>2 DEF Calls
  <2> QED  BY <1>2, <2>1, <2>2 DEF CallOk
<1>5. NoCall.kind = "none"  BY DEF NoCall
<1>6. ASSUME NEW t \in Tokens, Shared[t].kind = "none", kc.status[t] = "used"
      PROVE  Forgotten(t, now)
  <2>1. PICK a, u : a = inflight[t] /\ u = kc.used[t]  OBVIOUS
  <2>2. TokenOk(t)  BY DEF IInv
  <2>3. a \in Calls /\ a.at \in Nat /\ u \in Nat /\ a.at <= now
    BY <1>2, <1>4, <2>1 DEF Calls, CallOk, IInv, TypeOK, KeycloakStates
  <2>4. CASE a.kind = "none"
    BY <1>6, <2>1, <2>2, <2>4 DEF TokenOk
  <2>5. CASE a.kind # "none"
    <3>1. now > a.at + Share /\ a.kind # "pending"
      BY <1>2, <1>4, <1>6, <2>1, <2>3, <2>5 DEF Shared
    <3>2. a.kind \in {"ok", "refused"}  BY <2>3, <2>5, <3>1 DEF Calls
    <3>3. (a.kind = "refused" => a.at + Timeout > u + Share)
          /\ (a.kind = "ok" => u <= a.at + Timeout)
      BY <1>6, <2>1, <2>2 DEF TokenOk, Forgotten
    <3> QED  BY <1>2, <2>1, <2>3, <3>1, <3>2, <3>3 DEF Forgotten
  <2> QED  BY <2>4, <2>5
<1> QED  BY <1>1, <1>2, <1>3, <1>4, <1>5, <1>6 DEF Shared

\* Dropping what is no longer shared keeps the tokens right.
LEMMA SharedTokens ==
    ASSUME IInv, UNCHANGED <<now, kc>>, NEW t \in Tokens, inflight'[t] = Shared[t]
    PROVE  TokenOk(t)'
<1>1. CASE Shared[t].kind = "none"
  BY <1>1, SharedCalls DEF TokenOk, Forgotten
<1>2. CASE Shared[t].kind # "none"
  <2>1. inflight'[t] = inflight[t]  BY <1>2, SharedCalls
  <2> QED  BY <2>1, SameKeycloak, TokenStays
<1> QED  BY <1>1, <1>2

\* checkSession answers at once, or joins a call, or opens one.
LEMMA CheckStep ==
    ASSUME IInv, NEW r \in Requests, Check(r)
    PROVE  IInv'
<1> DEFINE Q == [req[r] EXCEPT !.at = now]
<1>1. PICK q : q = Q  OBVIOUS
<1>2. now \in Nat /\ req[r] \in RequestStates /\ RequestOk(req[r]) /\ req[r].phase = "sent"
      /\ req \in [Requests -> RequestStates] /\ inflight \in [Tokens -> Calls]
      /\ Share \in Nat /\ MaxAge \in Nat /\ Interval \in Nat
  BY SessionAssumption DEF IInv, TypeOK, Check
<1>3. q \in RequestStates /\ q.at = now /\ q.c = req[r].c /\ q.out = NoCookie /\ q.phase = "sent"
      /\ q.why = "none"
  BY <1>1, <1>2 DEF RequestStates, RequestOk
<1>4. q.c \in Cookies /\ CookieOk(q.c)  BY <1>2, <1>3 DEF RequestOk
<1>5. q.c.auth \in Nat /\ q.c.rolesAt \in Nat /\ q.c.retryAt \in Nat /\ q.c.rt \in Tokens \union {NoToken}
  BY <1>4 DEF Cookies
<1>6. UNCHANGED <<now, cookie, kc>> /\ Onward /\ NoneUsed
  BY SameKeycloak DEF Check
<1>7. ASSUME NEW p, Answered(p), req' = [req EXCEPT ![r] = p],
             inflight' = inflight \/ inflight' = Shared
      PROVE  IInv'
  <2>1. inflight' \in [Tokens -> Calls] /\ \A t \in Tokens : CallOk(inflight'[t])
    BY <1>2, <1>7, SharedCalls DEF IInv
  <2>0. \A t \in Tokens : TokenOk(t)'
    BY <1>6, <1>7, SharedTokens, TokenStays
  <2>2. req' \in [Requests -> RequestStates]  BY <1>2, <1>7 DEF Answered
  <2>3. ASSUME NEW s \in Requests
        PROVE  \/ Answered(req'[s])
               \/ req'[s] = req[s] /\ (req[s].phase = "asking" => Waits(req[s])')
    <3>1. CASE s = r  BY <1>2, <1>7, <3>1
    <3>2. CASE s # r
      <4>1. req'[s] = req[s]  BY <1>2, <1>7, <3>2
      <4>2. RequestOk(req[s])  BY DEF IInv
      <4>3. req[s].phase = "asking" => inflight'[req[s].c.rt] = inflight[req[s].c.rt]
        BY <1>7, <4>2, SharedCalls DEF RequestOk
      <4> QED  BY <4>1, <4>2, <4>3 DEF RequestOk, Waits
    <3> QED  BY <3>1, <3>2
  <2> QED  BY <1>6, <2>0, <2>1, <2>2, <2>3, CallsStep
<1>8. ASSUME ~Expired(q), q.c.rt # NoToken,
             req' = [req EXCEPT ![r] = [q EXCEPT !.phase = "asking"]],
             inflight' \in [Tokens -> Calls], \A t \in Tokens : CallOk(inflight'[t]),
             \A t \in Tokens : TokenOk(t)',
             inflight'[q.c.rt].kind = "pending", now <= inflight'[q.c.rt].at + Share,
             inflight'[q.c.rt].at <= now,
             \A t \in Tokens : t # q.c.rt => inflight'[t] = Shared[t],
             inflight[q.c.rt].kind = "pending" => inflight'[q.c.rt] = inflight[q.c.rt]
      PROVE  IInv'
  <2> DEFINE P == [q EXCEPT !.phase = "asking"]
  <2>1. PICK p : p = P  OBVIOUS
  <2>2. p \in RequestStates /\ p.at = now /\ p.c = q.c /\ p.out = NoCookie /\ p.phase = "asking"
        /\ p.why = "none"
    BY <1>3, <2>1 DEF RequestStates
  <2>3. Asked(p) /\ p.c.rt \in Tokens
    BY <1>2, <1>3, <1>4, <1>5, <1>8, <2>2 DEF Asked, Expired
  <2>4. req' \in [Requests -> RequestStates]  BY <1>2, <1>8, <2>1, <2>2
  <2>5. ASSUME NEW s \in Requests
        PROVE  \/ req'[s] = req[s] /\ (req[s].phase = "asking" => Waits(req[s])')
               \/ /\ req'[s].phase = "asking"
                  /\ Asked(req'[s]) /\ req'[s].c.rt \in Tokens
                  /\ Waits(req[s])'
    <3>1. CASE s = r
      <4>1. req'[s] = p  BY <1>2, <1>8, <2>1, <3>1
      <4> QED  BY <1>6, <1>8, <2>2, <2>3, <4>1 DEF Waits
    <3>2. CASE s # r
      <4>1. req'[s] = req[s]  BY <1>2, <1>8, <3>2
      <4>2. RequestOk(req[s])  BY DEF IInv
      <4>3. req[s].phase = "asking" => inflight'[req[s].c.rt] = inflight[req[s].c.rt]
        BY <1>8, <4>2, SharedCalls DEF RequestOk
      <4> QED  BY <4>1, <4>2, <4>3 DEF RequestOk, Waits
    <3> QED  BY <3>1, <3>2
  <2> QED  BY <1>6, <1>8, <2>4, <2>5, CallsStep
<1>9. CASE Expired(q)
  <2>1. Answered(Invalid(q, "expired"))
    BY <1>2, <1>3, <1>4, InvalidAnswers DEF Reasons
  <2>2. req' = [req EXCEPT ![r] = Invalid(q, "expired")] /\ inflight' = inflight
    BY <1>1, <1>9 DEF Check
  <2> QED  BY <1>7, <2>1, <2>2
<1>10. CASE ~Expired(q) /\ ~Due(q)
  <2>1. q.at < q.c.auth + MaxAge
        /\ (Interval > 0 => q.at < q.c.rolesAt + Interval \/ q.at < q.c.retryAt)
    BY <1>2, <1>3, <1>5, <1>10 DEF Expired, Due
  <2>2. Answered(Pass(q, q.c))
    BY <1>2, <1>3, <1>4, <2>1, PassAnswers
  <2>3. req' = [req EXCEPT ![r] = Pass(q, q.c)] /\ inflight' = inflight
    BY <1>1, <1>10 DEF Check
  <2> QED  BY <1>7, <2>2, <2>3
<1>11. CASE ~Expired(q) /\ Due(q) /\ q.c.rt = NoToken
  <2>1. Answered(Invalid(q, "norefresh"))
    BY <1>2, <1>3, <1>4, InvalidAnswers DEF Reasons
  <2>2. req' = [req EXCEPT ![r] = Invalid(q, "norefresh")] /\ inflight' = inflight
    BY <1>1, <1>11 DEF Check
  <2> QED  BY <1>7, <2>1, <2>2
<1>12. CASE ~Expired(q) /\ Due(q) /\ q.c.rt # NoToken
  <2>0. q.c.rt \in Tokens  BY <1>5, <1>12
  <2>1. CASE Shared[q.c.rt].kind = "none"
    <3> DEFINE open == [NoCall EXCEPT !.kind = "pending", !.at = now]
    <3>1. req' = [req EXCEPT ![r] = [q EXCEPT !.phase = "asking"]]
          /\ inflight' = [Shared EXCEPT ![q.c.rt] = open]
      BY <1>1, <1>12, <2>1 DEF Check
    <3>2. open \in Calls /\ open.kind = "pending" /\ open.at = now
      BY <1>2 DEF Calls, NoCall
    <3> HIDE DEF open
    <3>3. CallOk(open)
      BY <1>2, <3>2, SessionAssumption DEF CallOk
    <3>4. inflight' \in [Tokens -> Calls] /\ \A t \in Tokens : CallOk(inflight'[t])
      BY <3>1, <3>2, <3>3, SharedCalls
    <3>5. inflight'[q.c.rt] = open /\ \A t \in Tokens : t # q.c.rt => inflight'[t] = Shared[t]
      BY <2>0, <3>1, SharedCalls
    <3>6. inflight[q.c.rt].kind # "pending"
      BY <2>0, <2>1, SharedCalls
    <3>7. now <= inflight'[q.c.rt].at + Share /\ inflight'[q.c.rt].at <= now
      BY <1>2, <3>2, <3>5
    <3>8. ASSUME NEW t \in Tokens PROVE TokenOk(t)'
      <4>1. CASE t = q.c.rt
        <5>1. inflight'[t].kind = "pending" /\ inflight'[t].at = now
          BY <3>2, <3>5, <4>1
        <5>2. kc.status[t] = "used" => Forgotten(t, now)
          BY <2>0, <2>1, <4>1, SharedCalls
        <5> QED  BY <1>6, <5>1, <5>2 DEF TokenOk, Forgotten
      <4>2. CASE t # q.c.rt
        BY <1>6, <3>5, <4>2, SharedTokens
      <4> QED  BY <4>1, <4>2
    <3> QED  BY <1>8, <1>12, <3>1, <3>2, <3>4, <3>5, <3>6, <3>7, <3>8
  <2>2. CASE Shared[q.c.rt].kind = "pending"
    <3>1. req' = [req EXCEPT ![r] = [q EXCEPT !.phase = "asking"]] /\ inflight' = Shared
      BY <1>1, <1>12, <2>2 DEF Check
    <3>2. Shared[q.c.rt] = inflight[q.c.rt] /\ now <= Shared[q.c.rt].at + Share
      BY <2>0, <2>2, SharedCalls
    <3>3. Shared[q.c.rt].at <= now
      BY <2>0, SharedCalls DEF CallOk
    <3>4. \A t \in Tokens : TokenOk(t)'
      BY <1>6, <3>1, SharedTokens
    <3> QED  BY <1>8, <1>12, <2>2, <3>1, <3>2, <3>3, <3>4, SharedCalls
  <2>3. CASE Shared[q.c.rt].kind \notin {"none", "pending"}
    <3>1. PICK a : a = Shared[q.c.rt]  OBVIOUS
    <3>2. req' = [req EXCEPT ![r] = Finish(q, a)] /\ inflight' = Shared
      BY <1>1, <1>12, <2>3, <3>1 DEF Check
    <3>3. a \in Calls /\ CallOk(a) /\ now <= a.at + Share /\ a.kind \in {"ok", "refused"}
      BY <2>0, <2>3, <3>1, SharedCalls DEF Calls
    <3>7. a.kind = "refused" => RefusalDue(q)
      <4> SUFFICES ASSUME a.kind = "refused" PROVE RefusalDue(q)  OBVIOUS
      <4>1. PICK t, u : t = q.c.rt /\ u = kc.used[t]  OBVIOUS
      <4>2. inflight[t] = a /\ TokenOk(t)
        BY <2>0, <2>3, <3>1, <4>1, SharedCalls DEF IInv
      <4>3. kc.status[t] \in {"used", "lost", "ended"}
            /\ (kc.status[t] = "used" => a.at + Timeout > u + Share)
        BY <4>1, <4>2 DEF TokenOk, Forgotten
      <4>4. a.at \in Nat /\ a.at <= now /\ u \in Nat /\ Timeout \in Nat
        BY <2>0, <3>3, <4>1, SessionAssumption DEF Calls, CallOk, IInv, TypeOK, KeycloakStates
      <4>5. kc.status[t] = "used" => now + Timeout > u + Share
        BY <1>2, <4>3, <4>4
      <4> QED  BY <1>3, <2>0, <4>1, <4>3, <4>5 DEF RefusalDue, Forgotten
    <3>4. GoodAnswer(q, a)
      BY <1>2, <1>3, <3>3, <3>7 DEF GoodAnswer, Answers, Calls, CallOk
    <3>5. Asked(q)
      BY <1>2, <1>3, <1>4, <1>12 DEF Asked
    <3>6. Answered(Finish(q, a))
      BY <1>2, <3>4, <3>5, FinishAnswers
    <3> QED  BY <1>7, <3>2, <3>6
  <2> QED  BY <2>1, <2>2, <2>3
<1> QED  BY <1>9, <1>10, <1>11, <1>12

\* Keycloak's answer finishes every request that waits for it.
LEMMA SettleStep ==
    ASSUME IInv, NEW t \in Tokens, inflight[t].kind = "pending",
           NEW a \in Answers, a.kind = "ok" => a.role = kc.role /\ a.got = now,
           a.kind = "unavailable" => Outages,
           a.kind = "refused" => kc.status[t] \in {"used", "lost", "ended"},
           Settle(t, a), Onward, kc'.auth = kc.auth,
           \A u \in Tokens : kc'.status[u] = "used" =>
             \/ u = t /\ a.kind = "ok" /\ kc.status[u] = "alive" /\ kc'.used[u] = now
             \/ (u = t => a.kind # "ok") /\ kc.status[u] = "used"
    PROVE  IInv'
<1>1. now \in Nat /\ Share \in Nat /\ inflight \in [Tokens -> Calls] /\ Timeout \in Nat
      /\ req \in [Requests -> RequestStates] /\ kc \in KeycloakStates
  BY SessionAssumption DEF IInv, TypeOK
<1>2. CallOk(inflight[t]) /\ inflight[t].at \in Nat /\ inflight[t].at <= now
      /\ now <= inflight[t].at + Timeout
  BY <1>1 DEF IInv, Calls, CallOk
<1>3. inflight' = [inflight EXCEPT ![t] = IF a.kind = "unavailable" THEN NoCall
                                         ELSE [a EXCEPT !.at = inflight[t].at]]
      /\ req' = [r \in Requests |-> IF req[r].phase = "asking" /\ req[r].c.rt = t
                                    THEN Finish(req[r], a) ELSE req[r]]
  BY DEF Settle
<1>4. PICK b : b = IF a.kind = "unavailable" THEN NoCall ELSE [a EXCEPT !.at = inflight[t].at]
  OBVIOUS
<1>5. /\ b \in Calls /\ CallOk(b)
      /\ a.kind = "unavailable" => b.kind = "none"
      /\ a.kind # "unavailable" => b.kind = a.kind /\ b.at = inflight[t].at
  <2>1. CASE a.kind = "unavailable"
    BY <1>1, <1>4, <2>1 DEF Calls, NoCall, CallOk
  <2>2. CASE a.kind # "unavailable"
    <3>1. b \in Calls /\ b.kind = a.kind /\ b.at = inflight[t].at /\ b.got = a.got /\ b.role = a.role
      BY <1>2, <1>4, <2>2 DEF Calls, Answers
    <3>2. a.kind # "pending" /\ kc.role \in Roles  BY <1>1 DEF Answers, KeycloakStates
    <3> QED  BY <1>1, <1>2, <2>2, <3>1, <3>2 DEF CallOk
  <2> QED  BY <2>1, <2>2
<1>6. inflight' \in [Tokens -> Calls] /\ \A u \in Tokens : CallOk(inflight'[u])
  BY <1>1, <1>3, <1>4, <1>5 DEF IInv
<1>7. ASSUME NEW u \in Tokens PROVE TokenOk(u)'
  <2>1. CASE u # t
    <3>1. inflight'[u] = inflight[u]  BY <1>1, <1>3, <2>1
    <3>2. TokenOk(u)  BY DEF IInv
    <3>3. kc'.status[u] = "used" => kc.status[u] = "used" /\ kc'.used[u] = kc.used[u]
      BY <2>1 DEF Onward
    <3>4. inflight'[u].kind = "refused" => kc'.status[u] \in {"used", "lost", "ended"}
      BY <3>1, <3>2 DEF TokenOk, Onward
    <3> QED  BY <3>1, <3>2, <3>3, <3>4 DEF TokenOk, Forgotten, Onward
  <2>2. CASE u = t
    <3>1. inflight'[t] = b  BY <1>1, <1>3, <1>4
    <3>2. kc.status[t] = "used" => Forgotten(t, inflight[t].at)
      BY DEF IInv, TokenOk
    <3>3. kc.status[t] = "used" => Forgotten(t, now)
      BY <1>1, <1>2, <3>2 DEF Forgotten, KeycloakStates
    <3>4. CASE kc'.status[t] # "used"
      BY <1>5, <2>2, <3>1, <3>4 DEF TokenOk, Onward, Answers
    <3>5. CASE kc'.status[t] = "used" /\ a.kind = "ok"
      <4>1. kc'.used[t] = now /\ b.kind = "ok" /\ b.at = inflight[t].at
        BY <1>5, <3>5
      <4> QED  BY <1>1, <1>2, <2>2, <3>1, <3>5, <4>1 DEF TokenOk
    <3>6. CASE kc'.status[t] = "used" /\ a.kind # "ok"
      <4>1. kc.status[t] = "used" /\ kc'.used[t] = kc.used[t]
        BY <3>6 DEF Onward
      <4>2. b.kind \in {"none", "refused"}  BY <1>5, <3>6 DEF Answers
      <4>3. b.kind = "refused" => b.at = inflight[t].at  BY <1>5
      <4>4. (b.kind = "refused" => b.at + Timeout > kc'.used[t] + Share)
            /\ now + Timeout > kc'.used[t] + Share
        BY <3>2, <3>3, <4>1, <4>3 DEF Forgotten
      <4> QED  BY <2>2, <3>1, <3>6, <4>2, <4>4 DEF TokenOk, Forgotten, Onward
    <3> QED  BY <3>4, <3>5, <3>6
  <2> QED  BY <2>1, <2>2
<1>8. ASSUME NEW s \in Requests
      PROVE  \/ Answered(req'[s])
             \/ req'[s] = req[s] /\ (req[s].phase = "asking" => Waits(req[s])')
  <2>1. PICK q : q = req[s]  OBVIOUS
  <2>2. q \in RequestStates /\ RequestOk(q)  BY <1>1, <2>1 DEF IInv
  <2>3. CASE q.phase = "asking" /\ q.c.rt = t
    <3>1. Asked(q)  BY <2>2, <2>3 DEF Asked, RequestOk
    <3>2. q.at \in Nat /\ q.at <= now /\ inflight[t].at <= q.at
      BY <2>2, <2>3 DEF RequestStates, RequestOk
    <3>3. a.kind = "refused" => RefusalDue(q)
      <4>1. kc.status[t] = "used" => Forgotten(t, inflight[t].at)
        BY DEF IInv, TokenOk
      <4>2. kc.status[t] = "used" => Forgotten(t, q.at)
        BY <1>1, <1>2, <3>2, <4>1 DEF Forgotten, KeycloakStates
      <4> QED  BY <2>3, <4>2 DEF RefusalDue
    <3>4. GoodAnswer(q, a)  BY <1>1, <3>2, <3>3 DEF GoodAnswer, KeycloakStates
    <3>5. Answered(Finish(q, a))  BY <1>1, <3>1, <3>4, FinishAnswers
    <3> QED  BY <1>3, <2>1, <2>3, <3>5
  <2>4. CASE ~(q.phase = "asking" /\ q.c.rt = t)
    <3>1. req'[s] = req[s]  BY <1>3, <2>1, <2>4
    <3>2. q.phase = "asking" => inflight'[q.c.rt] = inflight[q.c.rt]
      BY <1>1, <1>3, <2>2, <2>4 DEF RequestOk
    <3> QED  BY <2>1, <2>2, <3>1, <3>2 DEF RequestOk, Waits
  <2> QED  BY <2>3, <2>4
<1>9. req' \in [Requests -> RequestStates]
  <2>1. ASSUME NEW s \in Requests PROVE req'[s] \in RequestStates
    BY <1>1, <1>8 DEF Answered
  <2> QED  BY <1>3, <2>1
<1>10. UNCHANGED cookie  BY DEF Settle
<1> QED  BY <1>6, <1>7, <1>8, <1>9, <1>10, CallsStep

\* A token that is used, or lost with its answer, was alive.
LEMMA SpentOk ==
    ASSUME IInv, NEW t \in Tokens, NEW how \in {"used", "lost"}, kc.status[t] = "alive"
    PROVE  /\ Spent(t, how) \in KeycloakStates
           /\ Spent(t, how).auth = kc.auth /\ Spent(t, how).role = kc.role
           /\ Spent(t, how).changed = kc.changed
           /\ \A u \in Tokens :
                \/ Spent(t, how).status[u] = kc.status[u] /\ Spent(t, how).used[u] = kc.used[u]
                \/ u = t /\ Spent(t, how).status[u] = how /\ Spent(t, how).used[u] = now
<1>1. now \in Nat /\ kc \in KeycloakStates  BY SessionAssumption DEF IInv, TypeOK
<1> QED  BY <1>1 DEF KeycloakStates, Spent

\* Keycloak gives roles, refuses, or does not answer.
LEMMA KeycloakStep ==
    ASSUME IInv, NEW t \in Tokens,
           KeycloakGives(t) \/ KeycloakRefuses(t) \/ KeycloakUnavailable(t)
    PROVE  IInv'
<1>1. UNCHANGED now /\ now \in Nat /\ kc \in KeycloakStates /\ kc.role \in Roles
      /\ inflight[t].kind = "pending"
  BY SessionAssumption
     DEF IInv, TypeOK, KeycloakStates, KeycloakGives, KeycloakRefuses, KeycloakUnavailable, Settle
<1>2. CASE KeycloakGives(t)
  <2>0. kc.status[t] = "alive"  BY <1>2 DEF KeycloakGives
  <2>1. PICK rt \in Tokens \union {NoToken} :
           /\ Onward /\ kc'.auth = kc.auth
           /\ \A u \in Tokens : kc'.status[u] = "used" =>
                \/ u = t /\ kc.status[u] = "alive" /\ kc'.used[u] = now
                \/ u # t /\ kc.status[u] = "used"
           /\ Settle(t, [kind |-> "ok", at |-> 0, role |-> kc.role, rt |-> rt, got |-> now])
    <3>1. CASE /\ UNCHANGED kc
               /\ Settle(t, [kind |-> "ok", at |-> 0, role |-> kc.role, rt |-> NoToken, got |-> now])
      BY <1>1, <2>0, <3>1, SameKeycloak
    <3>2. CASE /\ Unissued # {}
               /\ kc' = [Spent(t, "used") EXCEPT !.status[NewToken] = "alive"]
               /\ Settle(t, [kind |-> "ok", at |-> 0, role |-> kc.role, rt |-> NewToken, got |-> now])
      <4>1. NewToken \in Tokens /\ kc.status[NewToken] = "unissued"
        <5>1. \E u \in Unissued : TRUE  BY <3>2
        <5>2. NewToken \in Unissued  BY <5>1 DEF NewToken
        <5> QED  BY <5>2 DEF Unissued
      <4>2. PICK spent : spent = Spent(t, "used")  OBVIOUS
      <4>3. /\ spent \in KeycloakStates
            /\ spent.auth = kc.auth /\ spent.role = kc.role /\ spent.changed = kc.changed
            /\ \A u \in Tokens :
                 \/ spent.status[u] = kc.status[u] /\ spent.used[u] = kc.used[u]
                 \/ u = t /\ spent.status[u] = "used" /\ spent.used[u] = now
        BY <2>0, <4>2, SpentOk
      <4>4. /\ kc' \in KeycloakStates
            /\ kc'.auth = kc.auth /\ kc'.role = kc.role /\ kc'.changed = kc.changed
            /\ kc'.used = spent.used
            /\ \A u \in Tokens : kc'.status[u] = IF u = NewToken THEN "alive" ELSE spent.status[u]
        BY <3>2, <4>1, <4>2, <4>3 DEF KeycloakStates
      <4>5. Onward
        BY <1>1, <2>0, <4>1, <4>3, <4>4 DEF Onward
      <4>6. ASSUME NEW u \in Tokens, kc'.status[u] = "used"
            PROVE  \/ u = t /\ kc.status[u] = "alive" /\ kc'.used[u] = now
                   \/ u # t /\ kc.status[u] = "used"
        BY <2>0, <4>3, <4>4, <4>6
      <4> QED  BY <3>2, <4>1, <4>4, <4>5, <4>6
    <3> QED  BY <1>2, <3>1, <3>2 DEF KeycloakGives
  <2>2. PICK a : a = [kind |-> "ok", at |-> 0, role |-> kc.role, rt |-> rt, got |-> now]
    OBVIOUS
  <2>3. a \in Answers /\ a.kind = "ok" /\ a.role = kc.role /\ a.got = now
    BY <1>1, <2>2 DEF Answers
  <2> QED  BY <1>1, <2>1, <2>2, <2>3, SettleStep
<1>3. CASE KeycloakRefuses(t)
  <2>1. PICK a : a = [NoCall EXCEPT !.kind = "refused"]  OBVIOUS
  <2>2. a \in Answers /\ a.kind = "refused"
    BY <2>1 DEF Answers, NoCall
  <2>3. UNCHANGED kc /\ Settle(t, a) /\ kc.status[t] \in {"used", "lost", "ended"}
    BY <1>3, <2>1 DEF KeycloakRefuses
  <2>4. Onward /\ NoneUsed  BY <1>1, <2>3, SameKeycloak
  <2> QED  BY <1>1, <2>2, <2>3, <2>4, SettleStep DEF NoneUsed
<1>4. CASE KeycloakUnavailable(t)
  <2>1. Unavailable \in Answers /\ Unavailable.kind = "unavailable"
    BY DEF Answers, NoCall, Unavailable
  <2>2. Onward /\ NoneUsed /\ kc'.auth = kc.auth
    <3>1. CASE UNCHANGED kc  BY <1>1, <3>1, SameKeycloak
    <3>2. CASE kc.status[t] = "alive" /\ kc' = Spent(t, "lost")
      BY <1>1, <3>2, SpentOk DEF Onward, NoneUsed
    <3> QED  BY <1>4, <3>1, <3>2 DEF KeycloakUnavailable
  <2>3. Settle(t, Unavailable) /\ Outages  BY <1>4 DEF KeycloakUnavailable
  <2> QED  BY <1>1, <2>1, <2>2, <2>3, SettleStep DEF NoneUsed
<1> QED  BY <1>2, <1>3, <1>4

\* Time passes: open calls stay within their timeout.
LEMMA TickStep ==
    ASSUME IInv, Tick
    PROVE  IInv'
<1>1. now \in Nat /\ now' = now + 1 /\ UNCHANGED <<cookie, req, inflight, kc>>
      /\ now' \in 0..Horizon
  BY SessionAssumption DEF IInv, TypeOK, Tick
<1>2. \A c \in Cookies : CookieOk(c) => CookieOk(c)'
  BY <1>1 DEF CookieOk, Cookies
<1>3. TypeOK'  BY <1>1 DEF IInv, TypeOK
<1>4. ASSUME NEW t \in Tokens PROVE CallOk(inflight[t])'
  <2>1. CallOk(inflight[t]) /\ inflight[t].at \in Nat /\ inflight[t].got \in Nat
    BY DEF IInv, TypeOK, Calls
  <2>2. inflight[t].kind = "pending" => now < inflight[t].at + Timeout
    BY DEF Tick
  <2> QED  BY <1>1, <2>1, <2>2, SessionAssumption DEF CallOk
<1>8. ASSUME NEW t \in Tokens PROVE TokenOk(t)'
  <2>1. PICK a, u : a = inflight[t] /\ u = kc.used[t]  OBVIOUS
  <2>2. TokenOk(t) /\ a \in Calls /\ u \in Nat
    BY <2>1 DEF IInv, TypeOK, KeycloakStates
  <2>3. Timeout \in Nat /\ Share \in Nat  BY SessionAssumption
  <2>4. now + Timeout > u + Share => now + 1 + Timeout > u + Share
    BY <1>1, <2>2, <2>3
  <2> QED  BY <1>1, <2>1, <2>2, <2>4 DEF TokenOk, Forgotten
<1>5. ASSUME NEW s \in Requests PROVE RequestOk(req[s])'
  <2>1. PICK q : q = req[s]  OBVIOUS
  <2>2. q \in RequestStates /\ RequestOk(q)  BY <2>1 DEF IInv, TypeOK
  <2>3. q.out # NoCookie => q.out \in Cookies  BY <2>2 DEF RequestStates
  <2>4. q.at \in Nat /\ q.at <= now  BY <2>2 DEF RequestStates, RequestOk
  <2>5. q.at <= now'  BY <1>1, <2>4
  <2> QED  BY <1>1, <1>2, <2>1, <2>2, <2>3, <2>5 DEF RequestOk, Expired, Forgotten
<1>6. (cookie # NoCookie => CookieOk(cookie))'
  BY <1>1, <1>2 DEF IInv, TypeOK
<1>7. kc'.auth <= now'
  BY <1>1 DEF IInv, TypeOK, KeycloakStates
<1> QED  BY <1>3, <1>4, <1>5, <1>6, <1>7, <1>8 DEF IInv
-----------------------------------------------------------------------------
\* Every step keeps the invariant.
LEMMA NextIInv == IInv /\ [Next]_vars => IInv'
<1> SUFFICES ASSUME IInv, [Next]_vars PROVE IInv'  OBVIOUS
<1>1. CASE SignIn  BY <1>1, SignInStep
<1>2. CASE SignOut \/ Revoke \/ ChangeRole  BY <1>2, OutsideStep
<1>3. CASE Tick  BY <1>3, TickStep
<1>4. ASSUME NEW r \in Requests, Send(r) PROVE IInv'  BY <1>4, SendStep
<1>5. ASSUME NEW r \in Requests, Check(r) PROVE IInv'  BY <1>5, CheckStep
<1>6. ASSUME NEW r \in Requests, Deliver(r) \/ Lose(r) PROVE IInv'  BY <1>6, DeliverStep
<1>7. ASSUME NEW t \in Tokens,
             KeycloakGives(t) \/ KeycloakRefuses(t) \/ KeycloakUnavailable(t)
      PROVE  IInv'
  BY <1>7, KeycloakStep
<1>8. CASE UNCHANGED vars
  <2>1. UNCHANGED <<now, cookie, req, inflight, kc>>  BY <1>8 DEF vars
  <2>2. PICK c : c = cookie  OBVIOUS
  <2>3. cookie' # NoCookie => CookieOk(cookie)'
    BY <2>1, <2>2, SameKeycloak, CookieStays DEF IInv
  <2> QED  BY <2>1, <2>3, SameKeycloak, QuietStep DEF IInv, TypeOK
<1> QED  BY <1>1, <1>2, <1>3, <1>4, <1>5, <1>6, <1>7, <1>8 DEF Next

\* The invariant of Session, for any interval, grace, timeouts and any number
\* of requests at once.
THEOREM SessionInductive == Spec => []IInv
BY InitIInv, NextIInv, PTL DEF Spec

\* A served request: what RequestOk and the types say of it.
LEMMA ServedRequest ==
    ASSUME IInv, NEW r \in Requests, Served(r)
    PROVE  /\ req[r].at \in Nat
           /\ req[r].out \in Cookies /\ CookieOk(req[r].out)
           /\ req[r].at < req[r].out.auth + MaxAge
           /\ Interval > 0 => \/ req[r].at < req[r].out.rolesAt + Interval
                              \/ req[r].at < req[r].out.retryAt
<1>1. req[r] \in RequestStates /\ RequestOk(req[r])  BY DEF IInv, TypeOK
<1> QED  BY <1>1 DEF Served, RequestStates, RequestOk

\* At moment at, RoleLimit has not passed since moment t, if it has not since
\* the last question that rolesAt stands for was asked, with t shared.
LEMMA WithinLimit ==
    ASSUME IInv, Interval > 0, NEW c \in Cookies, CookieOk(c), NEW at \in Nat,
           at < c.rolesAt + Interval \/ at < c.retryAt
    PROVE  at < c.got + RoleLimit /\ RoleLimit \in Nat
<1>1. /\ c.rolesAt \in Nat /\ c.got \in Nat /\ c.retryAt \in Nat
      /\ Interval \in Nat /\ Share \in Nat /\ Retry \in Nat /\ Retry > 0
  BY SessionAssumption DEF Cookies
<1>2. c.rolesAt <= c.got + Share  BY DEF CookieOk
<1>3. RoleLimit \in Nat /\ RoleLimit >= Interval + Share
  BY <1>1, GraceIntervals DEF RoleLimit
<1>4. CASE at < c.rolesAt + Interval
  <2>1. at < c.got + Share + Interval  BY <1>1, <1>2, <1>4
  <2> QED  BY <1>1, <1>3, <2>1
<1>5. CASE at < c.retryAt
  <2>1. Outages /\ c.retryAt + 1 <= c.rolesAt + Interval * Grace + Retry
    BY <1>1, <1>5 DEF CookieOk
  <2>2. RoleLimit = Interval * Grace + Retry - 1 + Share  BY <2>1 DEF RoleLimit
  <2>3. at < c.got + (Interval * Grace + Retry - 1 + Share)
    BY <1>1, <1>2, <1>5, <2>1, GraceIntervals
  <2> QED  BY <1>3, <2>2, <2>3
<1> QED  BY <1>4, <1>5

\* The roles a request is served with are younger than RoleLimit, and a role
\* that was changed at Keycloak counts no longer than that: checkSession asks in
\* time, gives up in time, and shares answers only for a while.
THEOREM RolesAreFresh == Spec => []RoleAge
<1>1. IInv => RoleAge
  <2> SUFFICES ASSUME IInv, Interval > 0, NEW r \in Requests, Served(r)
               PROVE  /\ req[r].at < req[r].out.got + RoleLimit
                      /\ req[r].out.role # kc.role => req[r].at < kc.changed + RoleLimit
    BY DEF RoleAge
  <2>1. PICK at, c : at = req[r].at /\ c = req[r].out  OBVIOUS
  <2>2. /\ at \in Nat /\ c \in Cookies /\ CookieOk(c)
        /\ at < c.rolesAt + Interval \/ at < c.retryAt
    BY <2>1, ServedRequest
  <2>3. at < c.got + RoleLimit /\ RoleLimit \in Nat  BY <2>2, WithinLimit
  <2>4. c.got \in Nat /\ kc.changed \in Nat
    BY <2>2 DEF Cookies, IInv, TypeOK, KeycloakStates
  <2>5. c.role # kc.role => c.got <= kc.changed  BY <2>2 DEF CookieOk
  <2> QED  BY <2>1, <2>2, <2>3, <2>4, <2>5
<1> QED  BY <1>1, SessionInductive, PTL

\* Requests that share the answer to a token that works once, those that come up
\* to Share - Timeout after its use among them, are not refused by it.
THEOREM RefusalsAreLate == Spec => []SharedAnswer
<1>1. IInv => SharedAnswer
  <2> SUFFICES ASSUME IInv, NEW r \in Requests,
                      req[r].phase = "replied", req[r].why = "refused"
               PROVE  \/ kc.status[req[r].c.rt] \in {"ended", "lost"}
                      \/ Forgotten(req[r].c.rt, req[r].at)
    BY DEF SharedAnswer
  <2>1. RequestOk(req[r])  BY DEF IInv
  <2> QED  BY <2>1 DEF RequestOk
<1> QED  BY <1>1, SessionInductive, PTL

\* No session outlives the authentication it goes back to.
THEOREM SessionsEnd == Spec => []SessionEnds
<1>1. IInv => SessionEnds
  BY ServedRequest DEF SessionEnds, CookieOk
<1> QED  BY <1>1, SessionInductive, PTL

(***************************************************************************)
(* The rights of a user.  One request has one matter, the same at every    *)
(* step, and what a pass adds to the rules is what that matter brings.     *)
(***************************************************************************)

\* A destination where the rule runs is judged as the rule's or as the override's.
LEMMA DestsJudged ==
    ASSUME NEW new, NEW before, DestsPass(new, before), NEW n, NEW d \in RefsAt(new, n)
    PROVE  ~Refused(d) \/ \E b \in before : d \in RefsAt(b, n) \union destRefs(b.to, b.span)
<1> SUFFICES ASSUME Refused(d)
             PROVE  \E b \in before : d \in RefsAt(b, n) \union destRefs(b.to, b.span)
  OBVIOUS
<1>1. \A b : locatedDests(b) =
                {[at |-> <<"rule">>, ref |-> e] : e \in destRefs(b.to, b.span)}
                  \union {[at |-> <<"node", Special>>, ref |-> e] : e \in RefsAt(b, Special) \ destRefs(b.to, b.span)}
  BY DEF locatedDests
<1>2. CASE d \in destRefs(new.to, new.span)
  <2>1. PICK x : x = [at |-> <<"rule">>, ref |-> d]
    OBVIOUS
  <2>2. x \in locatedDests(new)
    BY <1>1, <1>2, <2>1
  <2>3. PICK b \in before : x \in locatedDests(b)
    BY <2>1, <2>2 DEF DestsPass
  <2>4. d \in destRefs(b.to, b.span)
    BY <1>1, <2>1, <2>3
  <2>5. QED
    BY <2>4
<1>3. CASE d \notin destRefs(new.to, new.span)
  <2>1. n = Special
    BY <1>3 DEF RefsAt, At
  <2>2. PICK x : x = [at |-> <<"node", Special>>, ref |-> d]
    OBVIOUS
  <2>3. x \in locatedDests(new)
    BY <1>1, <1>3, <2>1, <2>2
  <2>4. PICK b \in before : x \in locatedDests(b)
    BY <2>2, <2>3 DEF DestsPass
  <2>5. d \in RefsAt(b, n)
    BY <1>1, <2>1, <2>2, <2>4
  <2>6. QED
    BY <2>5
<1>4. QED
  BY <1>2, <1>3

\* What passes is what users may bring in, by the rule as it was.
Brings(new, before) ==
    CASE matter = "destinations" ->
           \A n \in GroupNodes : \A d \in RefsAt(new, n) :
              ~Refused(d) \/ \E b \in before : d \in RefsAt(b, n) \union destRefs(b.to, b.span)
      [] matter = "names" -> new \subseteq (certPrefixesFor \intersect Certs) \union UNION before
      [] matter = "cache" ->
           \A c \in new.is :
              \/ ~c.shared /\ c.size <= limits.cache
              \/ \E b \in before : c \in b.is /\ (c.shared => new.at \subseteq b.at)
Matters3 == {"destinations", "names", "cache"}

\* What a pass brings is what its matter allows: the checks of the API, one by one.
LEMMA PassBrings ==
    ASSUME matter \in Matters3, NEW new, NEW before, UserPass(new, before)
    PROVE  Brings(new, before)
<1>1. CASE matter = "destinations"
  BY <1>1, DestsJudged DEF UserPass, Brings
<1>2. CASE matter = "names"
  BY <1>2 DEF UserPass, Brings, NamesPass, certAllowed
<1>3. CASE matter = "cache"
  <2>1. CachePass(new, before)
    BY <1>3 DEF UserPass
  <2>2. ASSUME NEW c \in new.is
        PROVE  \/ ~c.shared /\ c.size <= limits.cache
               \/ \E b \in before : c \in b.is /\ (c.shared => new.at \subseteq b.at)
    BY <2>1, Zenon DEF CachePass
  <2>3. QED
    BY <1>3, <2>2 DEF Brings
<1>4. QED
  BY <1>1, <1>2, <1>3 DEF Matters3

\* One matter of the rule is followed.
LEMMA OneMatter == UserSpec => [](matter \in Matters3)
<1>1. UserInit => matter \in Matters3
  BY DEF UserInit, Matters3
<1>2. matter \in Matters3 /\ [UserNext]_userVars => (matter \in Matters3)'
  BY DEF UserNext, userVars, UserReads, AdminEdits, UserEdits, UserReplaces, UserAdds, UserOverrides, Resolved, Written
<1>3. QED
  BY <1>1, <1>2, PTL DEF UserSpec

\* More of what was there allows no less.
LEMMA BringsMore ==
    ASSUME matter \in Matters3, NEW new, NEW before, NEW more, before \subseteq more, Brings(new, before)
    PROVE  Brings(new, more)
<1>1. CASE matter = "destinations"
  BY <1>1 DEF Brings
<1>2. CASE matter = "names"
  BY <1>2 DEF Brings
<1>3. CASE matter = "cache"
  BY <1>3 DEF Brings
<1>4. QED
  BY <1>1, <1>2, <1>3 DEF Matters3

\* A change by a user brings in what has passed.
LEMMA UserStep ==
    ASSUME matter \in Matters3, UserNext, by' = "user", NEW new \in urule'
    PROVE  Brings(new, Before)
<1>1. PICK c : UserEdits(c) \/ UserReplaces(c) \/ UserAdds(c) \/ UserOverrides(c)
  BY DEF UserNext, UserReads, AdminEdits, Written, Resolved
<1>2. urule' = {new}
  BY <1>1 DEF UserEdits, UserReplaces, UserAdds, UserOverrides, Written
<1>3. \E before : before \subseteq Before /\ UserPass(new, before)
  <2>1. CASE UserEdits(c)
    BY <1>2, <2>1 DEF UserEdits, Written, Before
  <2>2. CASE UserReplaces(c)
    BY <1>2, <2>2 DEF UserReplaces, Written, Before
  <2>3. CASE UserAdds(c)
    BY <1>2, <2>3 DEF UserAdds, Written, Before
  <2>4. CASE UserOverrides(c)
    <3>1. PICK r \in urule : UserPass([r EXCEPT !.own = c], {r}) /\ Written([r EXCEPT !.own = c], "user")
      BY <2>4 DEF UserOverrides
    <3>2. new = [r EXCEPT !.own = c]
      BY <1>2, <3>1, Zenon DEF Written
    <3>3. r \in Before
      BY <2>4 DEF UserOverrides, Before
    <3>4. QED
      BY <3>1, <3>2, <3>3
  <2>5. QED
    BY <1>1, <2>1, <2>2, <2>3, <2>4
<1>4. QED
  BY <1>3, PassBrings, BringsMore

\* Users bring in what is allowed there and then, or was there before, whatever nodes, settings and
\* reserved addresses there are.
THEOREM UsersBringAllowed == UserSpec => UsersAddWhatIsAllowed
<1>1. ASSUME matter \in Matters3, [UserNext]_userVars
      PROVE  [by' = "user" => \A new \in urule' : Brings(new, Before)]_userVars
  BY <1>1, UserStep
<1>2. QED
  BY <1>1, OneMatter, PTL DEF UserSpec, UsersAddWhatIsAllowed, Brings
=============================================================================

------------------------------ MODULE MCSignIn ------------------------------
(* Two instances of Session in one run, one of which moves: the one this    *)
(* module extends has one request at a time and roles that change, S two    *)
(* requests at once.                                                        *)
EXTENDS MCSession

CONSTANTS r1, r2, member

VARIABLES nowS, cookieS, reqS, inflightS, kcS

varsS == <<nowS, cookieS, reqS, inflightS, kcS>>

S == INSTANCE Session WITH
       Requests <- {r1, r2}, Roles <- {member}, MaxAge <- 4, Horizon <- 4,
       now <- nowS, cookie <- cookieS, req <- reqS, inflight <- inflightS, kc <- kcS

AtRest == now = 0 /\ cookie = NoCookie /\ req = [r \in Requests |-> Idle] /\ Unissued = Tokens
AtRestS == nowS = 0 /\ cookieS = NoCookie /\ reqS = [r \in {r1, r2} |-> Idle] /\ S!Unissued = Tokens

SignInInit == Init /\ S!Init

SignInNext ==
    \/ AtRestS /\ UNCHANGED varsS /\ Next
    \/ AtRest /\ UNCHANGED vars /\ S!Next

SignInSpec == SignInInit /\ [][SignInNext]_<<vars, varsS>>

\* The inductive invariant, with changing roles and with simultaneous requests.
BothInv == IInv /\ S!IInv

\* The simultaneous requests are alike, and so are the roles.
SignInSymmetry == {f @@ g : f \in Permutations({r1, r2}), g \in Permutations(Roles)}
=============================================================================

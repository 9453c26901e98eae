------------------------------ MODULE Lockout ------------------------------
(***************************************************************************)
(* Counting the wrong tokens of a source (tokenauth.ts, class Lockout).    *)
(* MaxAttempts may be wrong within Secs seconds of the first; after that   *)
(* wrong tokens are answered 429 for Secs seconds (lockoutOptions gives    *)
(* both the same length).  Only MaxEntries sources are remembered, those   *)
(* whose entry was changed last.                                           *)
(*                                                                         *)
(* History, for as long as a source is remembered: its 401 answers, each   *)
(* with its number in the window and when that began, until when it was    *)
(* told to wait, and who was counted since it was.                         *)
(***************************************************************************)
EXTENDS Naturals, Sequences, FiniteSets

CONSTANTS Sources, MaxAttempts, Secs, MaxEntries,
          LastSecond   \* bound: the last second looked at

ASSUME LockoutAssumption ==
    MaxAttempts \in Nat \ {0} /\ Secs \in Nat \ {0} /\ MaxEntries \in Nat \ {0} /\ LastSecond \in Nat

VARIABLES
    clock,
    order,      \* the keys of the map, the oldest first
    seen,       \* its values
    wrong, told, others

lockVars == <<clock, order, seen, wrong, told, others>>

Times == 0..LastSecond
Entries == [first : Times, count : 0..MaxAttempts + 1, until : 0..LastSecond + Secs]
NewEntry(t) == [first |-> t, count |-> 0, until |-> 0]
-----------------------------------------------------------------------------
LockInit ==
    /\ clock = 0
    /\ order = <<>>
    /\ seen = [s \in Sources |-> NewEntry(0)]
    /\ wrong = [s \in Sources |-> {}]
    /\ told = [s \in Sources |-> 0]
    /\ others = [s \in Sources |-> {}]

Known(s) == \E i \in DOMAIN order : order[i] = s
LockedOut(s) == Known(s) /\ seen[s].until > clock

\* Mutant: a window begins anew with every wrong token.
EntrySlides(s) ==
    IF ~Known(s) \/ clock - seen[s].first >= Secs \/ seen[s].until # 0
    THEN NewEntry(clock) ELSE [seen[s] EXCEPT !.count = IF seen[s].first < clock THEN 0 ELSE @,
                                           !.first = clock]

\* The entry a wrong token is counted in: a new one when there is none, when
\* its window is over, or when the source was locked out before.
Entry(s) ==
    IF ~Known(s) \/ clock - seen[s].first >= Secs \/ seen[s].until # 0
    THEN NewEntry(clock) ELSE seen[s]

\* Mutant: a source that is counted again keeps its place.
RememberInPlace(s) ==
    LET full == IF Known(s) THEN order ELSE Append(order, s)
    IN  IF Len(full) > MaxEntries THEN Tail(full) ELSE full

\* remember: s goes to the end of the map; beyond MaxEntries the oldest goes.
Place(s) == CHOOSE i \in DOMAIN order : order[i] = s
Deleted(s) == SubSeq(order, 1, Place(s) - 1) \o SubSeq(order, Place(s) + 1, Len(order))
Remember(s) ==
    LET full == Append(IF Known(s) THEN Deleted(s) ELSE order, s)
    IN  IF Len(full) > MaxEntries THEN Tail(full) ELSE full

\* Mutant: the lock ends with the window of the first wrong token.
WaitWindow(s, e) == e.first + Secs

Wait(s, e) == clock + Secs

\* failed, of a source that is not locked out: 401, or 429 when that is one too many.
Wrong(s) ==
    LET e == Entry(s)
        over == e.count + 1 > MaxAttempts
        gone == {x \in Sources : Known(x) /\ \A i \in DOMAIN Remember(s) : Remember(s)[i] # x}
    IN  /\ ~LockedOut(s)
        /\ order' = Remember(s)
        /\ seen' = [seen EXCEPT ![s] = [e EXCEPT !.count = @ + 1,
                                            !.until = IF over THEN Wait(s, e) ELSE 0]]
        /\ wrong' = [x \in Sources |->
             IF x \in gone THEN {}
             ELSE IF x = s /\ ~over
                  THEN wrong[x] \union {[first |-> e.first, nth |-> e.count + 1, at |-> clock]} ELSE wrong[x]]
        /\ told' = [x \in Sources |-> IF x \in gone THEN 0
                                      ELSE IF x = s /\ over THEN clock + Secs ELSE told[x]]
        /\ others' = [x \in Sources |-> IF x = s THEN {} ELSE others[x] \union {s}]
        /\ UNCHANGED clock

LockTick ==
    /\ clock < LastSecond
    /\ clock' = clock + 1
    /\ UNCHANGED <<order, seen, wrong, told, others>>

LockNext == LockTick \/ \E s \in Sources : Wrong(s)

LockSpec == LockInit /\ [][LockNext]_lockVars
-----------------------------------------------------------------------------
LockTypeOK ==
    /\ clock \in Times
    /\ order \in Seq(Sources)
    /\ seen \in [Sources -> Entries]
    /\ wrong \in [Sources -> SUBSET [first : Times, nth : 1..MaxAttempts, at : Times]]
    /\ told \in [Sources -> 0..LastSecond + Secs]
    /\ others \in [Sources -> SUBSET Sources]

\* The 401 answers of s in the Secs seconds from t.
WrongAnswers(s, t) == Cardinality({a \in wrong[s] : t <= a.at /\ a.at < t + Secs})

\* A source that is told to wait gets no other answer before that time, and
\* within any Secs seconds it is answered 401 less than twice MaxAttempts times:
\* at the end of a window and in the next (tokenauth.ts:318-333).
WrongAnswersBounded ==
    \A s \in Sources :
        /\ told[s] > clock => LockedOut(s)
        /\ \A t \in Times : WrongAnswers(s, t) < 2 * MaxAttempts

\* A source, locked out or not, is only forgotten after MaxEntries others have
\* been counted since it was (tokenauth.ts:292).
ForgottenLast ==
    [][\A s \in Sources : Known(s) /\ ~Known(s)' => Cardinality(others'[s]) >= MaxEntries]_lockVars
=============================================================================

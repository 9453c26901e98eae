------------------------------ MODULE Migrate ------------------------------
(***************************************************************************)
(* Bringing the database up to date (db/migrate.mjs): the Job of the chart *)
(* and an operator may run it at the same time.  A run takes a named lock, *)
(* reads what schema_migrations records, and then carries out and records  *)
(* one migration after the other, without a transaction.  A new database   *)
(* gets schema.sql instead, and an old one, migrated by hand, is taken     *)
(* over from the number given with --baseline, which is taken to be right. *)
(* A run may be cut off anywhere: its connection, and the lock, are gone.  *)
(***************************************************************************)
EXTENDS Naturals

CONSTANTS
    Runs,
    NoRun,
    Last,           \* migrations 1..Last
    SKIP,           \* those that are recorded without being carried out
    Once            \* those that fail when they are in effect already

Files == 1..Last

ASSUME MigrateAssumption ==
    /\ Last \in Nat
    /\ SKIP \subseteq Files /\ Once \subseteq Files
    /\ NoRun \notin Runs

VARIABLES
    effect,     \* migrations in effect; {} when there is no forward_rules
    recorded,   \* schema_migrations: number and method
    hand,       \* what was migrated by hand, up to this number; 0 for a new database
    locked,     \* who holds the lock
    mig,        \* the runs: where they are, their --baseline, and the steps to go
    cut,        \* history: was a run cut off while it changed something?
    twice       \* history: was a migration carried out that was in effect?

migrateVars == <<effect, recorded, hand, locked, mig, cut, twice>>
-----------------------------------------------------------------------------
NoBaseline == Last + 1
Methods == {"schema", "baseline", "skipped", "applied"}
Steps == [Files -> Methods \union {"none"}]
NoSteps == [f \in Files |-> "none"]
Pending(p) == {f \in Files : mig[p].steps[f] # "none"}
Following(p) == CHOOSE f \in Pending(p) : \A g \in Pending(p) : f <= g

MigrateInit ==
    /\ hand \in 0..Last
    /\ effect = 1..hand \ SKIP
    /\ recorded = NoSteps
    /\ locked = NoRun
    /\ mig = [p \in Runs |-> [pc |-> "idle", baseline |-> NoBaseline, steps |-> NoSteps]]
    /\ cut = FALSE
    /\ twice = FALSE

\* main, to GET_LOCK.
Start(p, baseline) ==
    /\ mig[p].pc = "idle"
    /\ mig' = [mig EXCEPT ![p] = [pc |-> "lock", baseline |-> baseline, steps |-> NoSteps]]
    /\ UNCHANGED <<effect, recorded, hand, locked, cut, twice>>

\* Mutant: the answer of GET_LOCK is not looked at.
GetLockAnyway(p) ==
    /\ mig[p].pc = "lock"
    /\ locked' = p
    /\ mig' = [mig EXCEPT ![p].pc = "plan"]
    /\ UNCHANGED <<effect, recorded, hand, cut, twice>>

GetLock(p) ==
    /\ mig[p].pc = "lock"
    /\ locked = NoRun
    /\ locked' = p
    /\ mig' = [mig EXCEPT ![p].pc = "plan"]
    /\ UNCHANGED <<effect, recorded, hand, cut, twice>>

\* It does not wait longer than --lock-timeout.
LockTimeout(p) ==
    /\ mig[p].pc = "lock"
    /\ locked # NoRun
    /\ mig' = [mig EXCEPT ![p].pc = "idle"]
    /\ UNCHANGED <<effect, recorded, hand, locked, cut, twice>>

\* Mutant: off by one.
MethodBefore(f, baseline) ==
    IF f <= baseline + 1 THEN "baseline" ELSE IF f \in SKIP THEN "skipped" ELSE "applied"

\* planMigrations.
Method(f, baseline) ==
    IF f <= baseline THEN "baseline" ELSE IF f \in SKIP THEN "skipped" ELSE "applied"

NewDatabase == recorded = NoSteps /\ effect = {}
NoPlan(baseline) == recorded = NoSteps /\ effect # {} /\ baseline = NoBaseline

Planned(baseline) ==
    [f \in Files |->
       IF NewDatabase THEN "schema"
       ELSE IF recorded = NoSteps THEN Method(f, baseline)
       ELSE IF recorded[f] # "none" THEN "none" ELSE Method(f, 0)]

Plan(p) ==
    /\ mig[p].pc = "plan"
    /\ IF NoPlan(mig[p].baseline)
       THEN mig' = [mig EXCEPT ![p].pc = "unlock"]
       ELSE mig' = [mig EXCEPT ![p].pc = IF NewDatabase THEN "schema" ELSE "run",
                               ![p].steps = Planned(mig[p].baseline)]
    /\ UNCHANGED <<effect, recorded, hand, locked, cut, twice>>

Schema(p) ==
    /\ mig[p].pc = "schema"
    /\ effect' = Files \ SKIP
    /\ mig' = [mig EXCEPT ![p].pc = "run"]
    /\ UNCHANGED <<recorded, hand, locked, cut, twice>>

\* The SQL of the next migration; one that fails ends the run.
Apply(p) ==
    LET f == Following(p) IN
    /\ mig[p].pc = "run" /\ Pending(p) # {}
    /\ IF mig[p].steps[f] # "applied"
       THEN mig' = [mig EXCEPT ![p].pc = "record"] /\ UNCHANGED <<effect, twice>>
       ELSE /\ mig' = [mig EXCEPT ![p].pc = IF f \in Once \intersect effect THEN "unlock" ELSE "record"]
            /\ effect' = effect \union {f}
            /\ twice' = (twice \/ f \in effect)
    /\ UNCHANGED <<recorded, hand, locked, cut>>

Record(p) ==
    LET f == Following(p) IN
    /\ mig[p].pc = "record"
    /\ recorded' = [recorded EXCEPT ![f] = mig[p].steps[f]]
    /\ mig' = [mig EXCEPT ![p].pc = "run", ![p].steps[f] = "none"]
    /\ UNCHANGED <<effect, hand, locked, cut, twice>>

\* Nothing is left to apply; the rights of the users, which are set alike each
\* time, are left out.
Over(p) ==
    /\ mig[p].pc = "run" /\ Pending(p) = {}
    /\ mig' = [mig EXCEPT ![p].pc = "unlock"]
    /\ UNCHANGED <<effect, recorded, hand, locked, cut, twice>>

Release(p) ==
    /\ mig[p].pc = "unlock"
    /\ locked' = NoRun
    /\ mig' = [mig EXCEPT ![p].pc = "idle"]
    /\ UNCHANGED <<effect, recorded, hand, cut, twice>>

\* The process or its connection ends; of what it was doing, a part may be done.
Cut(p) ==
    /\ mig[p].pc \in {"plan", "schema", "run", "record", "unlock"}
    /\ mig' = [mig EXCEPT ![p].pc = "idle"]
    /\ locked' = NoRun
    /\ cut' = (cut \/ mig[p].pc \in {"schema", "run", "record"})
    /\ \/ UNCHANGED effect
       \/ mig[p].pc = "schema" /\ \E part \in SUBSET (Files \ SKIP) : effect' = part
    /\ UNCHANGED <<recorded, hand, twice>>

MigrateNext ==
    \E p \in Runs :
        \/ \E baseline \in {NoBaseline, hand} : Start(p, baseline)
        \/ GetLock(p) \/ LockTimeout(p) \/ Plan(p) \/ Schema(p) \/ Apply(p) \/ Record(p)
        \/ Over(p) \/ Release(p) \/ Cut(p)

MigrateSpec == MigrateInit /\ [][MigrateNext]_migrateVars
-----------------------------------------------------------------------------
\* What is recorded as done is in effect, whatever was cut off: nothing is left
\* out for good (migrate.mjs:8).
RecordedIsThere ==
    \A f \in Files \ SKIP : recorded[f] # "none" => f \in effect

\* However many run at once, and however often: unless one was cut off, no
\* migration is carried out twice (db/README.md:43).
NothingTwice == twice => cut
=============================================================================

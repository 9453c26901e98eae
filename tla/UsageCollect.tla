---------------------------- MODULE UsageCollect ----------------------------
(***************************************************************************)
(* Collecting how much traffic each rule has carried.  rproxy counts per   *)
(* rule since the rule was started (counters_since, whole seconds) and     *)
(* forgets on a restart.  Every UI process has a timer run: with the named *)
(* lock it reads who owns which key, asks the node for its counters, and   *)
(* in one transaction adds what is new since the last sample to the sums   *)
(* and replaces the samples.  Lock and transaction share one connection,   *)
(* so that a lost connection loses both.                                   *)
(*                                                                         *)
(* One node: a run handles its nodes one after another, each with its own  *)
(* samples and transaction.  One number stands for the three counters, and *)
(* the sums of all hours and days are one.  All clocks agree.              *)
(*                                                                         *)
(* The fields epoch and whole, and counted, held and later are history:    *)
(* which start of a rule a count belongs to, whether all of it is to be    *)
(* added, what was added, and who has had a key since the listing of the   *)
(* last saved run, and since that of the run under way.                    *)
(***************************************************************************)
EXTENDS Naturals

CONSTANTS
    Procs,
    Keys,
    Owners,     \* who can own a rule of the UI
    Nobody,     \* the attribution of keys without a rule of the UI
    NoRule, NoSample, Nil,
    Horizon,    \* bound: the last second looked at
    MaxEvents   \* bound: changes of rules, units of traffic, and faults

Epochs == 0..MaxEvents
Counters == [since : 0..Horizon, bytes : Nat, epoch : Epochs]
Samples == [since : 0..Horizon, bytes : Nat, at : 0..Horizon, epoch : Epochs,
            whole : BOOLEAN]

ASSUME UsageAssumption ==
    /\ Nobody \notin Owners /\ Nil \notin Procs
    /\ NoRule \notin Counters /\ NoSample \notin Samples
    /\ Horizon \in Nat /\ MaxEvents \in Nat

VARIABLES
    now,
    owner,      \* forward_rules: who owns the rule of a key
    rule,       \* rproxy: the running rules and their counters
    sample,     \* usage_counters
    usage,      \* usage_hourly and usage_daily, per key and attribution
    named,      \* who holds GET_LOCK('rproxy_ui_usage')
    run,        \* the runs under way
    events,
    counted, held, later

history == <<counted, held, later>>
vars == <<now, owner, rule, sample, usage, named, run, events, history>>
-----------------------------------------------------------------------------
Attributions == Owners \union {Nobody}
Listings == [Keys -> Counters \union {NoRule}]
RunStates == [pc : {"idle", "lock", "attrs", "list", "save", "end", "lost"}, at : 0..Horizon,
              attrs : [Keys -> Attributions], seen : Listings]

Holding == {"attrs", "list", "save", "end"}
Resting == [pc |-> "idle", at |-> 0, attrs |-> [k \in Keys |-> Nobody],
            seen |-> [k \in Keys |-> NoRule]]

Event == events < MaxEvents /\ events' = events + 1
Quiet == UNCHANGED events
-----------------------------------------------------------------------------
\* usageDelta.  fresh: without a sample, only a rule that started after the
\* last run is counted in full (lastRunAt is the latest sampled_at of the node).
Sampled == {k \in Keys : sample[k] # NoSample}
Fresh(c) == Sampled # {} /\ \A k \in Sampled : c.since >= sample[k].at
SameEpoch(k, c) == sample[k].since = c.since

\* Mutant: a rule of the same second as the last run is taken for an old one.
DeltaLate(k, c) ==
    IF sample[k] = NoSample
    THEN IF Sampled # {} /\ \A j \in Sampled : c.since > sample[j].at THEN c.bytes ELSE 0
    ELSE IF SameEpoch(k, c) /\ c.bytes >= sample[k].bytes
         THEN c.bytes - sample[k].bytes ELSE c.bytes

Delta(k, c) ==
    IF sample[k] = NoSample
    THEN IF Fresh(c) THEN c.bytes ELSE 0
    ELSE IF SameEpoch(k, c) /\ c.bytes >= sample[k].bytes
         THEN c.bytes - sample[k].bytes ELSE c.bytes

\* History: is all that c has carried to be counted?  Not of a rule that was
\* there when nothing was sampled yet, and not when a rule began in the same
\* second as the one before it.
Whole(k, c) ==
    IF sample[k] = NoSample THEN Sampled # {}
    ELSE IF sample[k].epoch = c.epoch THEN sample[k].whole ELSE ~SameEpoch(k, c)
-----------------------------------------------------------------------------
Init ==
    /\ now = 0
    /\ rule \in [Keys -> {NoRule} \union [since : {0}, bytes : {1}, epoch : {0}]]
    /\ \E who \in [Keys -> Attributions] :
         owner = [k \in Keys |-> IF rule[k] = NoRule THEN Nobody ELSE who[k]]
    /\ sample = [k \in Keys |-> NoSample]
    /\ usage = [k \in Keys |-> [o \in Attributions |-> 0]]
    /\ named = Nil
    /\ run = [p \in Procs |-> Resting]
    /\ events = 0
    /\ counted = [k \in Keys |-> [e \in Epochs |-> 0]]
    /\ held = [k \in Keys |-> {owner[k]}]
    /\ later = held

\* The timer of p: not while its last run goes on.
Begin(p) ==
    /\ run[p].pc = "idle"
    /\ run' = [run EXCEPT ![p] = [Resting EXCEPT !.pc = "lock", !.at = now]]
    /\ Quiet
    /\ UNCHANGED <<now, owner, rule, sample, usage, named, history>>

\* GET_LOCK with no waiting, on a connection that may have been waited for.
Lock(p) ==
    /\ run[p].pc = "lock"
    /\ IF named = Nil
       THEN named' = p /\ run' = [run EXCEPT ![p].pc = "attrs"]
       ELSE UNCHANGED named /\ run' = [run EXCEPT ![p] = Resting]
    /\ Quiet
    /\ UNCHANGED <<now, owner, rule, sample, usage, history>>

\* Mutant: a key stands for its port only, without the protocol and address.
AttrsByPort(p) ==
    /\ run[p].pc = "attrs"
    /\ \E o \in Attributions :
         /\ IF \A k \in Keys : owner[k] = Nobody THEN o = Nobody
            ELSE o # Nobody /\ \E k \in Keys : owner[k] = o
         /\ run' = [run EXCEPT ![p] = [@ EXCEPT !.pc = "list", !.attrs = [k \in Keys |-> o]]]
    /\ Quiet
    /\ UNCHANGED <<now, owner, rule, sample, usage, named, history>>

\* uiAttributions: the owners of all keys, before the listing.
Attrs(p) ==
    /\ run[p].pc = "attrs"
    /\ run' = [run EXCEPT ![p] = [@ EXCEPT !.pc = "list", !.attrs = owner]]
    /\ Quiet
    /\ UNCHANGED <<now, owner, rule, sample, usage, named, history>>

\* GET /rules of the node.
List(p) ==
    /\ run[p].pc = "list"
    /\ run' = [run EXCEPT ![p] = [@ EXCEPT !.pc = "save", !.seen = rule]]
    /\ later' = [k \in Keys |-> {owner[k]}]
    /\ Quiet
    /\ UNCHANGED <<now, owner, rule, sample, usage, named, counted, held>>

\* The node does not answer, or a query fails: nothing is written.
RunFails(p) ==
    /\ run[p].pc \in {"attrs", "list", "save"}
    /\ run' = [run EXCEPT ![p].pc = "end"]
    /\ Event
    /\ UNCHANGED <<now, owner, rule, sample, usage, named, history>>

\* collectNode, committed: the sums and the samples.  Samples of keys that the
\* node no longer lists go.
Written(p) ==
    LET seen == run[p].seen
        new == [k \in Keys |-> IF seen[k] = NoRule THEN 0 ELSE Delta(k, seen[k])]
    IN  /\ usage' = [k \in Keys |-> [usage[k] EXCEPT ![run[p].attrs[k]] = @ + new[k]]]
        /\ sample' = [k \in Keys |->
             IF seen[k] = NoRule THEN NoSample
             ELSE [since |-> seen[k].since, bytes |-> seen[k].bytes, at |-> run[p].at,
                   epoch |-> seen[k].epoch, whole |-> Whole(k, seen[k])]]
        /\ counted' = [k \in Keys |->
             IF seen[k] = NoRule THEN counted[k]
             ELSE [counted[k] EXCEPT ![seen[k].epoch] = @ + new[k]]]
        /\ held' = later
        /\ UNCHANGED later

Save(p) ==
    /\ run[p].pc = "save"
    /\ Written(p)
    /\ run' = [run EXCEPT ![p].pc = "end"]
    /\ Quiet
    /\ UNCHANGED <<now, owner, rule, named>>

\* RELEASE_LOCK; where it fails the connection is destroyed.
End(p) ==
    /\ run[p].pc = "end"
    /\ run' = [run EXCEPT ![p] = Resting]
    /\ named' = Nil
    /\ Quiet
    /\ UNCHANGED <<now, owner, rule, sample, usage, history>>

\* Mutant: the lock is held by a connection of its own, and the run goes on
\* without it.
LoseOther(p) ==
    /\ run[p].pc \in Holding
    /\ named' = Nil
    /\ UNCHANGED run
    /\ Event
    /\ UNCHANGED <<now, owner, rule, sample, usage, history>>

\* The connection is lost, and with it lock and transaction.
Lose(p) ==
    /\ run[p].pc \in Holding
    /\ named' = Nil
    /\ run' = [run EXCEPT ![p].pc = "lost"]
    /\ Event
    /\ UNCHANGED <<now, owner, rule, sample, usage, history>>

\* As Lose, but COMMIT had been carried out.
LoseAnswer(p) ==
    /\ run[p].pc = "save"
    /\ Written(p)
    /\ named' = Nil
    /\ run' = [run EXCEPT ![p].pc = "lost"]
    /\ Event
    /\ UNCHANGED <<now, owner, rule>>

\* The run finds out and ends.
Stop(p) ==
    /\ run[p].pc = "lost"
    /\ run' = [run EXCEPT ![p] = Resting]
    /\ Quiet
    /\ UNCHANGED <<now, owner, rule, sample, usage, named, history>>

Crash(p) ==
    /\ run[p].pc # "idle"
    /\ run' = [run EXCEPT ![p] = Resting]
    /\ named' = IF named = p THEN Nil ELSE named
    /\ Event
    /\ UNCHANGED <<now, owner, rule, sample, usage, history>>
-----------------------------------------------------------------------------
\* The environment: rproxy, and the users of both.
Tick ==
    /\ now < Horizon
    /\ now' = now + 1
    /\ Quiet
    /\ UNCHANGED <<owner, rule, sample, usage, named, run, history>>

Traffic(k) ==
    /\ rule[k] # NoRule
    /\ Event
    /\ rule' = [rule EXCEPT ![k].bytes = @ + 1]
    /\ UNCHANGED <<now, owner, sample, usage, named, run, history>>

Started == [since |-> now, bytes |-> 0, epoch |-> events + 1]

\* Key k goes to o: by a new rule, started anew, or by the rule's new owner.
Owned(k, o) ==
    /\ owner' = [owner EXCEPT ![k] = o]
    /\ held' = [held EXCEPT ![k] = @ \union {o}]
    /\ later' = [later EXCEPT ![k] = @ \union {o}]
    /\ UNCHANGED counted

Create(k, o) ==
    /\ rule[k] = NoRule
    /\ Event
    /\ rule' = [rule EXCEPT ![k] = Started]
    /\ Owned(k, o)
    /\ UNCHANGED <<now, sample, usage, named, run>>

Delete(k) ==
    /\ rule[k] # NoRule
    /\ Event
    /\ rule' = [rule EXCEPT ![k] = NoRule]
    /\ Owned(k, Nobody)
    /\ UNCHANGED <<now, sample, usage, named, run>>

Reassign(k, o) ==
    /\ owner[k] \in Owners \ {o}
    /\ Event
    /\ Owned(k, o)
    /\ UNCHANGED <<now, rule, sample, usage, named, run>>

\* rproxy restarts: its rules come back, some of others' perhaps not.
Restart ==
    /\ Event
    /\ \E gone \in SUBSET {k \in Keys : rule[k] # NoRule /\ owner[k] = Nobody} :
         rule' = [k \in Keys |-> IF rule[k] = NoRule \/ k \in gone THEN NoRule ELSE Started]
    /\ UNCHANGED <<now, owner, sample, usage, named, run, history>>
-----------------------------------------------------------------------------
Step(p) == Lock(p) \/ Attrs(p) \/ List(p) \/ Save(p) \/ End(p) \/ Stop(p)
Failure(p) == RunFails(p) \/ Lose(p) \/ LoseAnswer(p) \/ Crash(p)
Environment ==
    \/ Tick \/ Restart
    \/ \E k \in Keys : Traffic(k) \/ Delete(k)
    \/ \E k \in Keys, o \in Attributions : Create(k, o)
    \/ \E k \in Keys, o \in Owners : Reassign(k, o)

Next ==
    \/ \E p \in Procs : Begin(p) \/ Step(p) \/ Failure(p)
    \/ Environment

Spec == Init /\ [][Next]_vars

-----------------------------------------------------------------------------
TypeOK ==
    /\ now \in 0..Horizon
    /\ owner \in [Keys -> Attributions]
    /\ rule \in [Keys -> Counters \union {NoRule}]
    /\ sample \in [Keys -> Samples \union {NoSample}]
    /\ usage \in [Keys -> [Attributions -> Nat]]
    /\ named \in Procs \union {Nil}
    /\ run \in [Procs -> RunStates]
    /\ events \in 0..MaxEvents
    /\ counted \in [Keys -> [Epochs -> Nat]]
    /\ held \in [Keys -> SUBSET Attributions]
    /\ later \in [Keys -> SUBSET Attributions]

\* What has been added to the sums for the rule in a sample: never more than it
\* had carried when it was listed, and all of it when the rule began between
\* two runs (usage.ts:30), whatever runs failed, were lost or crashed,
\* and however often rproxy restarted.
CountedOnce ==
    \A k \in Sampled : LET s == sample[k] IN
        /\ counted[k][s.epoch] <= s.bytes
        /\ s.whole => counted[k][s.epoch] = s.bytes

\* Traffic is charged to an attribution that the key has had since the listing
\* of the last saved run (usagecollect.ts:88), never to one from before.
BilledToHolder ==
    [][\A k \in Keys, o \in Attributions : usage'[k][o] > usage[k][o] => o \in held[k]]_vars

\* The parts of the inductive invariant.  The lock is held exactly by the run
\* between Lock and End.
LockOk == \A p \in Procs : named = p <=> run[p].pc \in Holding

\* d continues c, if it counts the same start of a rule.
Continues(c, d) == c.epoch = d.epoch => c.since = d.since /\ c.bytes <= d.bytes

\* What is known of counters c, running or listed: nothing lies ahead in time,
\* they are not behind the sample, and if the rule is not the sampled one it
\* began after the last run and nothing has been added for it.
CountersOk(k, c) ==
    /\ c.since <= now /\ c.epoch <= events
    /\ sample[k] # NoSample => Continues(sample[k], c)
    /\ \/ sample[k] # NoSample /\ sample[k].epoch = c.epoch
       \/ (\A j \in Sampled : c.since >= sample[j].at) /\ counted[k][c.epoch] = 0

\* A listing about to be saved: the rules now running are the listed ones or
\* began since the run did.
ListingOk(p) ==
    \A k \in Keys :
        /\ run[p].seen[k] # NoRule => CountersOk(k, run[p].seen[k])
        /\ rule[k] # NoRule =>
             \/ /\ run[p].seen[k] # NoRule /\ run[p].seen[k].epoch = rule[k].epoch
                /\ Continues(run[p].seen[k], rule[k])
             \/ /\ run[p].seen[k] # NoRule => run[p].seen[k].epoch # rule[k].epoch
                /\ rule[k].since >= run[p].at /\ counted[k][rule[k].epoch] = 0

RunOk(p) ==
    /\ run[p].at <= now
    /\ run[p].pc = "save" => ListingOk(p)
    /\ run[p].pc \in {"list", "save"} => \A k \in Keys : run[p].attrs[k] \in held[k]

\* No sample and nothing added is of a rule still to come.
SampleOk ==
    /\ \A k \in Sampled : sample[k].epoch <= events /\ sample[k].at <= now
    /\ \A k \in Keys, e \in Epochs : e > events => counted[k][e] = 0

RulesOk == \A k \in Keys : rule[k] # NoRule => CountersOk(k, rule[k])
HeldOk == \A k \in Keys : owner[k] \in later[k] /\ later[k] \subseteq held[k]

IInv ==
    /\ TypeOK
    /\ LockOk
    /\ CountedOnce
    /\ SampleOk
    /\ RulesOk
    /\ \A p \in Procs : RunOk(p)
    /\ HeldOk
=============================================================================

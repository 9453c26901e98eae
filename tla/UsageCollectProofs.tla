------------------------ MODULE UsageCollectProofs ------------------------
(* Proofs about UsageCollect: what is counted is counted once, and charged *)
(* to an attribution the key had at the time.                              *)
EXTENDS UsageCollect, TLAPS

\* What a listing c of key k adds to what has been added for the same start of
\* the rule is at most what the rule has carried, and all of it for a whole
\* count (usageDelta).
LEMMA DeltaCounts ==
    ASSUME TypeOK, CountedOnce, NEW k \in Keys, NEW c \in Counters, CountersOk(k, c)
    PROVE  /\ Delta(k, c) \in Nat
           /\ counted[k][c.epoch] + Delta(k, c) \in Nat
           /\ counted[k][c.epoch] + Delta(k, c) <= c.bytes
           /\ Whole(k, c) => counted[k][c.epoch] + Delta(k, c) = c.bytes
           /\ Whole(k, c) \in BOOLEAN
  <1>1. /\ c.bytes \in Nat /\ c.since \in Nat /\ c.epoch \in Epochs
        /\ counted[k][c.epoch] \in Nat
    BY UsageAssumption DEF Counters, TypeOK
  <1>2. sample[k] # NoSample => sample[k] \in Samples
    BY DEF TypeOK
  <1>3. CASE sample[k] = NoSample
    <2>1. counted[k][c.epoch] = 0 /\ \A j \in Sampled : c.since >= sample[j].at
      BY <1>3 DEF CountersOk
    <2>2. CASE Sampled = {}
      <3>1. Delta(k, c) = 0 /\ ~Whole(k, c)
              /\ Whole(k, c) \in BOOLEAN
        BY <1>3, <2>2 DEF Delta, Fresh, Whole
      <3> QED BY <1>1, <2>1, <3>1
    <2>3. CASE Sampled # {}
      <3>1. Delta(k, c) = c.bytes /\ Whole(k, c) = TRUE
        BY <1>3, <2>1, <2>3 DEF Delta, Fresh, Whole
      <3> QED BY <1>1, <2>1, <3>1
    <2> QED BY <2>2, <2>3
  <1>4. CASE sample[k] # NoSample /\ sample[k].epoch = c.epoch
    <2>1. k \in Sampled
      BY <1>4 DEF Sampled
    <2>2. /\ counted[k][c.epoch] <= sample[k].bytes
          /\ sample[k].whole => counted[k][c.epoch] = sample[k].bytes
      BY <1>4, <2>1 DEF CountedOnce
    <2>3. sample[k].since = c.since /\ sample[k].bytes <= c.bytes
      BY <1>4 DEF CountersOk, Continues
    <2>4. sample[k].bytes \in Nat /\ sample[k].whole \in BOOLEAN
      BY <1>2, <1>4 DEF Samples
    <2>5. Delta(k, c) = c.bytes - sample[k].bytes /\ Whole(k, c) = sample[k].whole
      BY <1>1, <1>4, <2>3, <2>4 DEF Delta, Whole, SameEpoch
    <2> QED BY <1>1, <2>2, <2>3, <2>4, <2>5
  <1>5. CASE sample[k] # NoSample /\ sample[k].epoch # c.epoch
    <2>1. counted[k][c.epoch] = 0
      BY <1>5 DEF CountersOk
    <2>2. sample[k].bytes \in Nat
      BY <1>2, <1>5 DEF Samples
    <2>3. CASE SameEpoch(k, c) /\ c.bytes >= sample[k].bytes
      <3>1. Delta(k, c) = c.bytes - sample[k].bytes /\ ~Whole(k, c)
              /\ Whole(k, c) \in BOOLEAN
        BY <1>5, <2>3 DEF Delta, Whole
      <3> QED BY <1>1, <2>1, <2>2, <2>3, <3>1
    <2>4. CASE ~(SameEpoch(k, c) /\ c.bytes >= sample[k].bytes)
      <3>1. Delta(k, c) = c.bytes /\ Whole(k, c) \in BOOLEAN
        BY <1>5, <2>4 DEF Delta, Whole
      <3> QED BY <1>1, <2>1, <3>1
    <2> QED BY <2>3, <2>4
  <1> QED BY <1>3, <1>4, <1>5

-----------------------------------------------------------------------------
\* The initial states.
LEMMA InitInv == Init => IInv
  <1> SUFFICES ASSUME Init PROVE IInv
    OBVIOUS
  <1>1. TypeOK
    <2>1. \A k \in Keys : rule[k] \in Counters \union {NoRule}
      BY UsageAssumption DEF Init, Counters, Epochs
    <2>2. rule \in [Keys -> Counters \union {NoRule}]
      BY <2>1 DEF Init
    <2>3. owner \in [Keys -> Attributions]
      BY DEF Init, Attributions
    <2>4. Resting \in RunStates
      BY UsageAssumption DEF Resting, RunStates, Listings, Attributions
    <2>5. held \in [Keys -> SUBSET Attributions]
      BY <2>3 DEF Init
    <2> QED BY <2>2, <2>3, <2>4, <2>5, UsageAssumption DEF Init, TypeOK
  <1>2. LockOk
    BY UsageAssumption DEF Init, LockOk, Resting, Holding
  <1>3. Sampled = {}
    BY DEF Init, Sampled
  <1>4. SampleOk /\ CountedOnce
    BY <1>3 DEF SampleOk, CountedOnce, Init
  <1>5. RulesOk
    <2> SUFFICES ASSUME NEW k \in Keys, rule[k] # NoRule PROVE CountersOk(k, rule[k])
      BY DEF RulesOk
    <2>1. rule[k] \in [since : {0}, bytes : {1}, epoch : {0}]
      BY DEF Init
    <2>2. rule[k].since = 0 /\ rule[k].epoch = 0
      BY <2>1
    <2>3. 0 \in Epochs
      BY UsageAssumption DEF Epochs
    <2>4. counted[k][0] = 0 /\ now = 0 /\ events = 0 /\ sample[k] = NoSample
      BY <2>3 DEF Init
    <2> QED BY <1>3, <2>2, <2>4 DEF CountersOk
  <1>6. \A p \in Procs : RunOk(p)
    <2> SUFFICES ASSUME NEW p \in Procs PROVE RunOk(p)
      OBVIOUS
    <2>1. run[p].pc = "idle" /\ run[p].at = 0 /\ now = 0
      BY DEF Init, Resting
    <2> QED BY <2>1 DEF RunOk
  <1>7. HeldOk
    BY DEF HeldOk, Init
  <1> QED BY <1>1, <1>2, <1>4, <1>5, <1>6, <1>7 DEF IInv

-----------------------------------------------------------------------------
\* The types of what COMMIT writes.
LEMMA WrittenTypes ==
    ASSUME IInv, NEW p \in Procs, run[p].pc = "save", Written(p)
    PROVE  /\ sample' \in [Keys -> Samples \union {NoSample}]
           /\ usage' \in [Keys -> [Attributions -> Nat]]
           /\ counted' \in [Keys -> [Epochs -> Nat]]
           /\ held' \in [Keys -> SUBSET Attributions]
           /\ later' \in [Keys -> SUBSET Attributions]
  <1>1. TypeOK /\ CountedOnce /\ ListingOk(p)
    BY DEF IInv, RunOk
  <1>2. run[p] \in RunStates
    BY <1>1 DEF TypeOK
  <1>3. /\ run[p].at \in 0..Horizon
        /\ \A k \in Keys : run[p].attrs[k] \in Attributions
        /\ \A k \in Keys : run[p].seen[k] \in Counters \union {NoRule}
    BY <1>2 DEF RunStates, Listings
  <1>4. ASSUME NEW k \in Keys, run[p].seen[k] # NoRule
        PROVE  /\ run[p].seen[k] \in Counters
               /\ Delta(k, run[p].seen[k]) \in Nat
               /\ Whole(k, run[p].seen[k]) \in BOOLEAN
    <2>1. run[p].seen[k] \in Counters /\ CountersOk(k, run[p].seen[k])
      BY <1>1, <1>3, <1>4 DEF ListingOk
    <2> QED BY <1>1, <2>1, DeltaCounts
  <1>5. sample' \in [Keys -> Samples \union {NoSample}]
    <2> SUFFICES ASSUME NEW k \in Keys, run[p].seen[k] # NoRule
                 PROVE  [since |-> run[p].seen[k].since, bytes |-> run[p].seen[k].bytes,
                         at |-> run[p].at, epoch |-> run[p].seen[k].epoch,
                         whole |-> Whole(k, run[p].seen[k])] \in Samples
      BY DEF Written
    <2>1. /\ run[p].seen[k].since \in 0..Horizon /\ run[p].seen[k].bytes \in Nat
          /\ run[p].seen[k].epoch \in Epochs
      BY <1>4 DEF Counters
    <2> QED BY <1>3, <1>4, <2>1 DEF Samples
  <1>6. PICK new \in [Keys -> Nat] :
          /\ usage' = [k \in Keys |-> [usage[k] EXCEPT ![run[p].attrs[k]] = @ + new[k]]]
          /\ counted' = [k \in Keys |->
               IF run[p].seen[k] = NoRule THEN counted[k]
               ELSE [counted[k] EXCEPT ![run[p].seen[k].epoch] = @ + new[k]]]
    <2> DEFINE d == [k \in Keys |-> IF run[p].seen[k] = NoRule THEN 0
                                     ELSE Delta(k, run[p].seen[k])]
    <2>1. d \in [Keys -> Nat]
      BY <1>4
    <2>2. /\ usage' = [k \in Keys |-> [usage[k] EXCEPT ![run[p].attrs[k]] = @ + d[k]]]
          /\ counted' = [k \in Keys |->
               IF run[p].seen[k] = NoRule THEN counted[k]
               ELSE [counted[k] EXCEPT ![run[p].seen[k].epoch] = @ + d[k]]]
      BY DEF Written
    <2> QED BY <2>1, <2>2
  <1>7. usage' \in [Keys -> [Attributions -> Nat]]
    <2> SUFFICES ASSUME NEW k \in Keys
                 PROVE  [usage[k] EXCEPT ![run[p].attrs[k]] = @ + new[k]] \in [Attributions -> Nat]
      BY <1>6
    <2>1. usage[k] \in [Attributions -> Nat] /\ new[k] \in Nat
      BY <1>1 DEF TypeOK
    <2> QED BY <2>1, <1>3
  <1>8. counted' \in [Keys -> [Epochs -> Nat]]
    <2> SUFFICES ASSUME NEW k \in Keys, run[p].seen[k] # NoRule
                 PROVE  [counted[k] EXCEPT ![run[p].seen[k].epoch] = @ + new[k]] \in [Epochs -> Nat]
      BY <1>1, <1>6 DEF TypeOK
    <2>1. counted[k] \in [Epochs -> Nat] /\ new[k] \in Nat
      BY <1>1 DEF TypeOK
    <2>2. run[p].seen[k].epoch \in Epochs
      BY <1>4 DEF Counters
    <2> QED BY <2>1, <2>2
  <1> QED BY <1>1, <1>5, <1>7, <1>8 DEF Written, TypeOK

\* A run goes on to a state of its own.
LEMMA RunType ==
    ASSUME TypeOK, NEW p \in Procs, NEW u \in RunStates, run' = [run EXCEPT ![p] = u]
    PROVE  run' \in [Procs -> RunStates]
  BY DEF TypeOK

\* A process at rest is in one of the states there are.
LEMMA RestingType == Resting \in RunStates
  BY UsageAssumption DEF Resting, RunStates, Listings, Attributions

\* A process that only goes on is too.
LEMMA PcType ==
    ASSUME TypeOK, NEW p \in Procs,
           NEW pc \in {"idle", "lock", "attrs", "list", "save", "end", "lost"}
    PROVE  [run[p] EXCEPT !.pc = pc] \in RunStates
  BY DEF TypeOK, RunStates

\* Types are kept.
LEMMA TypeStep == IInv /\ [Next]_vars => TypeOK'
  <1> SUFFICES ASSUME IInv, [Next]_vars PROVE TypeOK'
    OBVIOUS
  <1> USE UsageAssumption
  <1>t. TypeOK
    BY DEF IInv
  <1>e. events' = events \/ Event => events' \in 0..MaxEvents
    BY <1>t DEF TypeOK, Event
  <1>s. /\ Started \in Counters \/ events = MaxEvents
    BY <1>t DEF Started, Counters, TypeOK, Epochs
  <1>1. ASSUME NEW p \in Procs, Begin(p) PROVE TypeOK'
    <2>1. [Resting EXCEPT !.pc = "lock", !.at = now] \in RunStates
      BY <1>t, RestingType DEF TypeOK, RunStates
    <2> QED BY <1>t, <1>1, <1>e, <2>1 DEF Begin, TypeOK, Quiet, history
  <1>2. ASSUME NEW p \in Procs, Lock(p) PROVE TypeOK'
    <2>1. run' \in [Procs -> RunStates]
      <3>1. CASE named = Nil
        <4>1. run' = [run EXCEPT ![p] = [run[p] EXCEPT !.pc = "attrs"]]
          BY <1>2, <3>1 DEF Lock
        <4>2. [run[p] EXCEPT !.pc = "attrs"] \in RunStates
          BY <1>t, PcType
        <4> QED BY <1>t, <4>1, <4>2, RunType
      <3>2. CASE named # Nil
        BY <1>2, <1>t, <3>2, RunType, RestingType DEF Lock
      <3> QED BY <3>1, <3>2
    <2> QED BY <1>t, <1>2, <1>e, <2>1 DEF Lock, TypeOK, Quiet, history
  <1>3. ASSUME NEW p \in Procs, Attrs(p) PROVE TypeOK'
    <2>1. [run[p] EXCEPT !.pc = "list", !.attrs = owner] \in RunStates
      <3>1. run[p] \in RunStates /\ owner \in [Keys -> Attributions]
        BY <1>t, <1>3 DEF TypeOK
      <3> QED BY <3>1 DEF RunStates
    <2>2. run' = [run EXCEPT ![p] = [run[p] EXCEPT !.pc = "list", !.attrs = owner]]
      BY <1>3 DEF Attrs
    <2>3. run' \in [Procs -> RunStates]
      BY <1>t, <2>1, <2>2, RunType
    <2> QED BY <1>t, <1>3, <1>e, <2>3 DEF Attrs, TypeOK, Quiet, history
  <1>4. ASSUME NEW p \in Procs, List(p) PROVE TypeOK'
    <2>1. [run[p] EXCEPT !.pc = "save", !.seen = rule] \in RunStates
      <3>1. run[p] \in RunStates /\ rule \in Listings
        BY <1>t, <1>4 DEF TypeOK, Listings
      <3> QED BY <3>1 DEF RunStates
    <2>2. run' = [run EXCEPT ![p] = [run[p] EXCEPT !.pc = "save", !.seen = rule]]
      BY <1>4 DEF List
    <2>3. run' \in [Procs -> RunStates]
      BY <1>t, <2>1, <2>2, RunType
    <2>4. later' \in [Keys -> SUBSET Attributions]
      BY <1>t, <1>4 DEF List, TypeOK
    <2> QED BY <1>t, <1>4, <1>e, <2>3, <2>4 DEF List, TypeOK, Quiet
  <1>5. ASSUME NEW p \in Procs, Save(p) \/ LoseAnswer(p) PROVE TypeOK'
    <2>1. run[p].pc = "save" /\ Written(p)
      BY <1>5 DEF Save, LoseAnswer
    <2>2. PICK pc \in {"end", "lost"} : run' = [run EXCEPT ![p] = [run[p] EXCEPT !.pc = pc]]
      BY <1>5 DEF Save, LoseAnswer
    <2>3. run' \in [Procs -> RunStates]
      BY <1>t, <2>2, PcType, RunType
    <2>4. /\ UNCHANGED <<now, owner, rule>> /\ named' \in {named, Nil}
          /\ events' = events \/ Event
      BY <1>5 DEF Save, LoseAnswer, Quiet
    <2> QED BY <1>t, <1>e, <2>1, <2>3, <2>4, WrittenTypes DEF TypeOK
  <1>6. ASSUME NEW p \in Procs, RunFails(p) \/ Lose(p) PROVE TypeOK'
    <2>2. PICK pc \in {"end", "lost"} : run' = [run EXCEPT ![p] = [run[p] EXCEPT !.pc = pc]]
      BY <1>6 DEF RunFails, Lose
    <2>3. run' \in [Procs -> RunStates]
      BY <1>t, <2>2, PcType, RunType
    <2> QED BY <1>t, <1>6, <1>e, <2>3 DEF RunFails, Lose, TypeOK, history
  <1>7. ASSUME NEW p \in Procs, End(p) \/ Stop(p) \/ Crash(p) PROVE TypeOK'
    <2>1. run' \in [Procs -> RunStates]
      BY <1>t, <1>7, RunType, RestingType DEF End, Stop, Crash
    <2>2. named' \in {named, Nil} /\ (events' = events \/ Event)
      BY <1>7 DEF End, Stop, Crash, Quiet
    <2>3. UNCHANGED <<now, owner, rule, sample, usage, history>>
      BY <1>7 DEF End, Stop, Crash
    <2> QED BY <1>t, <1>e, <2>1, <2>2, <2>3 DEF TypeOK, history
  <1>8. ASSUME Tick PROVE TypeOK'
    BY <1>t, <1>8, <1>e DEF Tick, TypeOK, Quiet, history
  <1>9. ASSUME NEW k \in Keys, Traffic(k) PROVE TypeOK'
    <2>1. rule[k] \in Counters
      BY <1>t, <1>9 DEF Traffic, TypeOK
    <2>2. [rule[k] EXCEPT !.bytes = rule[k].bytes + 1] \in Counters
      BY <2>1 DEF Counters
    <2>3. rule' = [rule EXCEPT ![k] = [rule[k] EXCEPT !.bytes = rule[k].bytes + 1]]
      BY <1>9 DEF Traffic
    <2>4. rule' \in [Keys -> Counters \union {NoRule}]
      BY <1>t, <2>2, <2>3 DEF TypeOK
    <2> QED BY <1>t, <1>9, <1>e, <2>4 DEF Traffic, TypeOK, history
  <1>10. ASSUME NEW k \in Keys, NEW o \in Attributions, Owned(k, o)
         PROVE  /\ owner' \in [Keys -> Attributions]
                /\ held' \in [Keys -> SUBSET Attributions]
                /\ later' \in [Keys -> SUBSET Attributions]
    BY <1>t, <1>10 DEF Owned, TypeOK
  <1>11. ASSUME NEW k \in Keys, NEW o \in Attributions, Create(k, o) PROVE TypeOK'
    <2>1. Started \in Counters
      BY <1>t, <1>11, <1>s DEF Create, Event, TypeOK
    <2>2. rule' \in [Keys -> Counters \union {NoRule}]
      BY <1>t, <1>11, <2>1 DEF Create, TypeOK
    <2> QED BY <1>t, <1>10, <1>11, <1>e, <2>2 DEF Create, TypeOK, Owned
  <1>12. ASSUME NEW k \in Keys, Delete(k) PROVE TypeOK'
    <2>1. Nobody \in Attributions
      BY DEF Attributions
    <2>2. rule' \in [Keys -> Counters \union {NoRule}]
      BY <1>t, <1>12 DEF Delete, TypeOK
    <2> QED BY <1>t, <1>10, <1>12, <1>e, <2>1, <2>2 DEF Delete, TypeOK, Owned
  <1>13. ASSUME NEW k \in Keys, NEW o \in Owners, Reassign(k, o) PROVE TypeOK'
    <2>1. o \in Attributions
      BY DEF Attributions
    <2> QED BY <1>t, <1>10, <1>13, <1>e, <2>1 DEF Reassign, TypeOK, Owned
  <1>14. ASSUME Restart PROVE TypeOK'
    <2>1. Started \in Counters
      BY <1>t, <1>14, <1>s DEF Restart, Event, TypeOK
    <2>2. rule' \in [Keys -> Counters \union {NoRule}]
      BY <1>t, <1>14, <2>1 DEF Restart, TypeOK
    <2> QED BY <1>t, <1>14, <1>e, <2>2 DEF Restart, TypeOK, history
  <1>15. CASE UNCHANGED vars
    BY <1>t, <1>15 DEF vars, history, TypeOK
  <1> QED
    BY <1>1, <1>2, <1>3, <1>4, <1>5, <1>6, <1>7, <1>8, <1>9, <1>11, <1>12, <1>13, <1>14, <1>15
    DEF Next, Step, Failure, Environment

\* The named lock belongs to the run that is between taking and releasing it.
LEMMA LockStep == IInv /\ [Next]_vars => LockOk'
  <1> SUFFICES ASSUME IInv, [Next]_vars PROVE LockOk'
    OBVIOUS
  <1> USE UsageAssumption
  <1>t. LockOk /\ run \in [Procs -> RunStates] /\ named \in Procs \union {Nil}
    BY DEF IInv, TypeOK
  <1>1. ASSUME NEW p \in Procs, NEW pc \in {"idle", "lock", "attrs", "list", "save", "end", "lost"},
               \A q \in Procs : run'[q].pc = IF q = p THEN pc ELSE run[q].pc,
               \/ (pc \in Holding <=> run[p].pc \in Holding) /\ named' = named
               \/ pc = "attrs" /\ named = Nil /\ named' = p
               \/ pc \notin Holding /\ run[p].pc \in Holding /\ named' = Nil
        PROVE  LockOk'
    BY <1>t, <1>1 DEF LockOk, Holding
  <1>2. ASSUME NEW p \in Procs, Begin(p) \/ Lock(p) \/ Attrs(p) \/ List(p) PROVE LockOk'
    <2>1. CASE Begin(p)
      BY <1>t, <1>1, <2>1 DEF Begin, Resting, RunStates, Holding
    <2>2. CASE Lock(p) /\ named = Nil
      BY <1>t, <1>1, <2>2 DEF Lock, RunStates, Holding
    <2>3. CASE Lock(p) /\ named # Nil
      <3>1. run[p].pc = "lock" /\ named' = named /\ run' = [run EXCEPT ![p] = Resting]
        BY <2>3 DEF Lock
      <3>2. Resting.pc = "idle"
        BY DEF Resting
      <3>3. \A q \in Procs : run'[q].pc = IF q = p THEN "idle" ELSE run[q].pc
        BY <1>t, <3>1, <3>2
      <3> QED BY <1>1, <3>1, <3>3 DEF Holding
    <2>4. CASE Attrs(p)
      BY <1>t, <1>1, <2>4 DEF Attrs, RunStates, Holding
    <2>5. CASE List(p)
      BY <1>t, <1>1, <2>5 DEF List, RunStates, Holding
    <2> QED BY <1>2, <2>1, <2>2, <2>3, <2>4, <2>5
  <1>3. ASSUME NEW p \in Procs, Save(p) \/ LoseAnswer(p) \/ RunFails(p) \/ Lose(p) PROVE LockOk'
    <2>1. CASE Save(p)
      BY <1>t, <1>1, <2>1 DEF Save, RunStates, Holding
    <2>2. CASE LoseAnswer(p)
      BY <1>t, <1>1, <2>2 DEF LoseAnswer, RunStates, Holding
    <2>3. CASE RunFails(p)
      BY <1>t, <1>1, <2>3 DEF RunFails, RunStates, Holding
    <2>4. CASE Lose(p)
      BY <1>t, <1>1, <2>4 DEF Lose, RunStates, Holding
    <2> QED BY <1>3, <2>1, <2>2, <2>3, <2>4
  <1>4. ASSUME NEW p \in Procs, End(p) \/ Stop(p) \/ Crash(p) PROVE LockOk'
    <2>1. CASE End(p)
      BY <1>t, <1>1, <2>1 DEF End, Resting, RunStates, Holding
    <2>2. CASE Stop(p)
      BY <1>t, <1>1, <2>2 DEF Stop, Resting, RunStates, Holding
    <2>3. CASE Crash(p)
      BY <1>t, <1>1, <2>3 DEF Crash, Resting, RunStates, Holding, LockOk
    <2> QED BY <1>4, <2>1, <2>2, <2>3
  <1>5. ASSUME UNCHANGED <<named, run>> PROVE LockOk'
    BY <1>t, <1>5 DEF LockOk
  <1>6. CASE Environment
    BY <1>5, <1>6 DEF Environment, Tick, Restart, Traffic, Delete, Create, Reassign
  <1>7. CASE UNCHANGED vars
    BY <1>5, <1>7 DEF vars
  <1> QED
    BY <1>2, <1>3, <1>4, <1>6, <1>7 DEF Next, Step, Failure

-----------------------------------------------------------------------------
\* What is known of counters stays known while samples and sums stay.
LEMMA CountersKept ==
    ASSUME TypeOK, TypeOK', NEW CONSTANT k \in Keys, NEW CONSTANT c \in Counters, CountersOk(k, c),
           UNCHANGED <<sample, counted>>, now <= now', events <= events'
    PROVE  CountersOk(k, c)'
  <1>1. /\ c.since \in Nat /\ c.epoch \in Nat /\ now \in Nat /\ now' \in Nat
        /\ events \in Nat /\ events' \in Nat
    BY UsageAssumption DEF Counters, TypeOK, Epochs
  <1>2. c.since <= now' /\ c.epoch <= events'
    BY <1>1 DEF CountersOk
  <1> QED BY <1>2 DEF CountersOk, Continues, Sampled

\* A listing stays good while the rules only change as rproxy changes them:
\* they go, count on, or start anew under a new epoch.
LEMMA ListingKept ==
    ASSUME IInv, TypeOK', NEW CONSTANT p \in Procs, run[p].pc = "save", run'[p] = run[p],
           UNCHANGED <<sample, counted>>, now <= now', events <= events',
           \A k \in Keys :
             \/ rule'[k] \in {rule[k], NoRule}
             \/ /\ rule[k] # NoRule /\ rule'[k].epoch = rule[k].epoch
                /\ rule'[k].since = rule[k].since /\ rule'[k].bytes = rule[k].bytes + 1
             \/ rule'[k].epoch = events + 1 /\ rule'[k].since = now /\ events + 1 <= MaxEvents
    PROVE  ListingOk(p)'
  <1>t. TypeOK /\ ListingOk(p) /\ SampleOk /\ run[p].at <= now
    BY DEF IInv, RunOk
  <1>n. events \in Nat /\ now \in Nat /\ run[p].at \in Nat
    BY <1>t, UsageAssumption DEF TypeOK, RunStates
  <1> SUFFICES ASSUME NEW CONSTANT k \in Keys
               PROVE  /\ run'[p].seen[k] # NoRule => CountersOk(k, run[p].seen[k])'
                      /\ rule'[k] # NoRule =>
                           \/ /\ run[p].seen[k] # NoRule /\ run[p].seen[k].epoch = rule'[k].epoch
                              /\ Continues(run[p].seen[k], rule'[k])
                           \/ /\ run[p].seen[k] # NoRule => run[p].seen[k].epoch # rule'[k].epoch
                              /\ rule'[k].since >= run[p].at /\ counted[k][rule'[k].epoch] = 0
    BY DEF ListingOk, Continues
  <1>1. PICK c : c = run[p].seen[k]
    OBVIOUS
  <1>2. c \in Counters \union {NoRule} /\ rule[k] \in Counters \union {NoRule}
        /\ rule'[k] \in Counters \union {NoRule}
    BY <1>t, <1>1 DEF TypeOK, RunStates, Listings
  <1>3. c # NoRule => CountersOk(k, c)
    BY <1>t, <1>1 DEF ListingOk
  <1>4. c # NoRule => CountersOk(k, c)'
    BY <1>t, <1>2, <1>3, CountersKept
  <1>4a. run'[p].seen[k] = c
    BY <1>1
  <1>4b. run'[p].seen[k] # NoRule => CountersOk(k, run[p].seen[k])'
    BY <1>4, <1>4a
  <1>5. ASSUME rule'[k] # NoRule
        PROVE  \/ c # NoRule /\ c.epoch = rule'[k].epoch /\ Continues(c, rule'[k])
               \/ /\ c # NoRule => c.epoch # rule'[k].epoch
                  /\ rule'[k].since >= run[p].at /\ counted[k][rule'[k].epoch] = 0
    <2>1. rule[k] # NoRule =>
             \/ c # NoRule /\ c.epoch = rule[k].epoch /\ Continues(c, rule[k])
             \/ /\ c # NoRule => c.epoch # rule[k].epoch
                /\ rule[k].since >= run[p].at /\ counted[k][rule[k].epoch] = 0
      BY <1>t, <1>1 DEF ListingOk
    <2>2. CASE rule'[k] = rule[k]
      BY <1>5, <2>1, <2>2
    <2>3. CASE /\ rule[k] # NoRule /\ rule'[k].epoch = rule[k].epoch
               /\ rule'[k].since = rule[k].since /\ rule'[k].bytes = rule[k].bytes + 1
      <3>1. c # NoRule => c.bytes \in Nat
        BY <1>2 DEF Counters
      <3>2. rule[k].bytes \in Nat
        BY <1>2, <2>3 DEF Counters
      <3> QED BY <2>1, <2>3, <3>1, <3>2 DEF Continues
    <2>4. CASE rule'[k].epoch = events + 1 /\ rule'[k].since = now /\ events + 1 <= MaxEvents
      <3>1. c # NoRule => c.epoch <= events /\ c.epoch \in Nat
        BY <1>2, <1>3, UsageAssumption DEF CountersOk, Counters, Epochs
      <3>2. events + 1 \in Epochs
        BY <1>n, <2>4, UsageAssumption DEF Epochs
      <3>3. counted[k][events + 1] = 0
        BY <1>t, <1>n, <3>2 DEF SampleOk
      <3> QED BY <1>t, <1>n, <2>4, <3>1, <3>3
    <2> QED BY <1>5, <2>2, <2>3, <2>4
  <1> QED BY <1>1, <1>4b, <1>5

\* Samples and sums are left alone.
LEMMA SampleKept ==
    ASSUME IInv, TypeOK', UNCHANGED <<sample, counted>>, now <= now', events <= events'
    PROVE  CountedOnce' /\ SampleOk'
  <1>1. CountedOnce /\ SampleOk /\ TypeOK
    BY DEF IInv
  <1>2. CountedOnce'
    BY <1>1 DEF CountedOnce, Sampled
  <1>3. ASSUME NEW k \in Sampled' PROVE sample'[k].epoch <= events' /\ sample'[k].at <= now'
    <2>1. k \in Sampled /\ k \in Keys /\ sample[k] \in Samples
      BY <1>1 DEF Sampled, TypeOK
    <2>2. /\ sample[k].epoch \in Nat /\ sample[k].at \in Nat /\ events \in Nat /\ events' \in Nat
          /\ now \in Nat /\ now' \in Nat
      BY <1>1, <2>1, UsageAssumption DEF Samples, Epochs, TypeOK
    <2> QED BY <1>1, <2>1, <2>2 DEF SampleOk
  <1>4. ASSUME NEW k \in Keys, NEW e \in Epochs, e > events' PROVE counted'[k][e] = 0
    <2>1. e \in Nat /\ events \in Nat /\ events' \in Nat
      BY <1>1, UsageAssumption DEF Epochs, TypeOK
    <2> QED BY <1>1, <1>4, <2>1 DEF SampleOk
  <1> QED BY <1>2, <1>3, <1>4 DEF SampleOk

\* A step of a run that writes nothing and lists nothing, or of the clock.
LEMMA QuietStep ==
    ASSUME IInv, TypeOK', LockOk', UNCHANGED <<owner, rule, sample, counted, held, later>>,
           now <= now', events <= events',
           \A p \in Procs :
             \/ run'[p] = run[p]
             \/ run'[p].pc \notin {"list", "save"} /\ run'[p].at <= now'
             \/ run'[p].pc = "list" /\ run'[p].at = run[p].at /\ run'[p].attrs = owner
    PROVE  IInv'
  <1>t. TypeOK /\ RulesOk /\ HeldOk
    BY DEF IInv
  <1>1. CountedOnce' /\ SampleOk'
    BY SampleKept
  <1>2. RulesOk'
    <2> SUFFICES ASSUME NEW CONSTANT k \in Keys, rule[k] # NoRule PROVE CountersOk(k, rule[k])'
      BY DEF RulesOk
    <2>1. PICK c : c = rule[k]
      OBVIOUS
    <2>2. c \in Counters /\ CountersOk(k, c)
      BY <1>t, <2>1 DEF TypeOK, RulesOk
    <2>3. CountersOk(k, c)'
      BY <1>t, <2>2, CountersKept
    <2> QED BY <2>1, <2>3
  <1>3. HeldOk'
    BY <1>t DEF HeldOk
  <1>4. ASSUME NEW CONSTANT p \in Procs PROVE RunOk(p)'
    <2>0. RunOk(p) /\ run[p].at \in Nat /\ now \in Nat /\ now' \in Nat
      BY <1>t, UsageAssumption DEF IInv, TypeOK, RunStates
    <2>1. CASE run'[p] = run[p]
      <3>1. run'[p].at <= now'
        BY <2>0, <2>1 DEF RunOk
      <3>2. run[p].pc = "save" => ListingOk(p)'
        BY <2>1, ListingKept
      <3> QED BY <2>0, <2>1, <3>1, <3>2 DEF RunOk
    <2>2. CASE run'[p].pc \notin {"list", "save"} /\ run'[p].at <= now'
      BY <2>2 DEF RunOk
    <2>3. CASE run'[p].pc = "list" /\ run'[p].at = run[p].at /\ run'[p].attrs = owner
      <3>1. \A k \in Keys : owner[k] \in held[k]
        BY <1>t DEF HeldOk
      <3> QED BY <2>0, <2>3, <3>1 DEF RunOk
    <2> QED BY <2>1, <2>2, <2>3
  <1> QED BY <1>1, <1>2, <1>3, <1>4 DEF IInv

\* A listing is taken: what runs is what is listed.
LEMMA ListStep ==
    ASSUME IInv, TypeOK', LockOk', NEW CONSTANT p \in Procs, List(p)
    PROVE  IInv'
  <1>t. TypeOK /\ RulesOk /\ HeldOk /\ LockOk /\ RunOk(p)
    BY DEF IInv
  <1>u. /\ UNCHANGED <<now, owner, rule, sample, usage, named, counted, held, events>>
        /\ later' = [k \in Keys |-> {owner[k]}]
        /\ run[p].pc = "list" /\ run[p] \in RunStates
    BY <1>t DEF List, Quiet, TypeOK
  <1>n. now \in Nat /\ events \in Nat
    BY <1>t, UsageAssumption DEF TypeOK
  <1>1. CountedOnce' /\ SampleOk'
    BY <1>u, <1>n, SampleKept
  <1>2. ASSUME NEW CONSTANT k \in Keys, NEW CONSTANT c, c = rule[k], c # NoRule
        PROVE  CountersOk(k, c)'
    <2>1. c \in Counters /\ CountersOk(k, c)
      BY <1>t, <1>2 DEF TypeOK, RulesOk
    <2> QED BY <1>t, <1>u, <1>n, <2>1, CountersKept
  <1>3. RulesOk'
    <2> SUFFICES ASSUME NEW CONSTANT k \in Keys, rule[k] # NoRule PROVE CountersOk(k, rule[k])'
      BY <1>u DEF RulesOk
    <2>1. PICK c : c = rule[k]
      OBVIOUS
    <2>2. CountersOk(k, c)'
      BY <1>2, <2>1
    <2>3. c = rule'[k]
      BY <1>u, <2>1
    <2> QED BY <1>u, <2>2, <2>3
  <1>4. HeldOk'
    BY <1>t, <1>u DEF HeldOk
  <1>5. RunOk(p)'
    <2>1. run'[p].seen = rule /\ run'[p].pc = "save"
          /\ run'[p].at = run[p].at /\ run'[p].attrs = run[p].attrs
      BY <1>t, <1>u DEF List, TypeOK, RunStates
    <2>2. ListingOk(p)'
      <3> SUFFICES ASSUME NEW CONSTANT k \in Keys, rule[k] # NoRule
                   PROVE  CountersOk(k, rule[k])' /\ Continues(rule[k], rule[k])
        BY <1>u, <2>1 DEF ListingOk, Continues
      <3>1. rule[k] \in Counters /\ rule[k].bytes \in Nat
        BY <1>t DEF TypeOK, Counters
      <3>2. CountersOk(k, rule[k])'
        BY <1>3, <1>u DEF RulesOk
      <3> QED BY <3>1, <3>2 DEF Continues
    <2> QED BY <1>t, <1>u, <2>1, <2>2 DEF RunOk
  <1>6. ASSUME NEW CONSTANT q \in Procs, q # p PROVE RunOk(q)'
    <2>1. run[q].pc \notin Holding
      BY <1>t, <1>u, <1>6 DEF LockOk, Holding
    <2>2. run'[q] = run[q] /\ RunOk(q)
      BY <1>t, <1>6 DEF List, TypeOK, IInv
    <2> QED BY <1>u, <2>1, <2>2 DEF RunOk, Holding
  <1> QED BY <1>1, <1>3, <1>4, <1>5, <1>6 DEF IInv

\* Rules and their owners change, under the runs' feet.
LEMMA RulesStep ==
    ASSUME IInv, TypeOK', LockOk', UNCHANGED <<now, sample, counted, run>>,
           events' \in {events, events + 1},
           \A k \in Keys :
             \/ rule'[k] \in {rule[k], NoRule}
             \/ /\ rule[k] # NoRule /\ rule'[k].epoch = rule[k].epoch
                /\ rule'[k].since = rule[k].since /\ rule'[k].bytes = rule[k].bytes + 1
             \/ rule'[k].epoch = events + 1 /\ rule'[k].since = now /\ events' = events + 1,
           \A k \in Keys : /\ owner'[k] \in later'[k] /\ later'[k] \subseteq held'[k]
                           /\ held[k] \subseteq held'[k]
    PROVE  IInv'
  <1>t. TypeOK /\ RulesOk /\ SampleOk
    BY DEF IInv
  <1>n. /\ now \in Nat /\ events \in Nat /\ events' \in Nat /\ now <= now' /\ events <= events'
        /\ events' <= MaxEvents
    BY <1>t, UsageAssumption DEF TypeOK
  <1>1. CountedOnce' /\ SampleOk'
    BY <1>n, SampleKept
  <1>2. ASSUME NEW CONSTANT k \in Keys, NEW CONSTANT c, c = rule'[k], c # NoRule
        PROVE  CountersOk(k, c)'
    <2>0. c \in Counters /\ c.since \in Nat /\ c.bytes \in Nat /\ c.epoch \in Nat
          /\ c.epoch \in Epochs
      BY <1>2, UsageAssumption DEF TypeOK, Counters, Epochs
    <2>1. CASE rule'[k] = rule[k]
      <3>1. CountersOk(k, c)
        BY <1>t, <1>2, <2>1 DEF RulesOk
      <3> QED BY <1>t, <1>n, <2>0, <3>1, CountersKept
    <2>2. CASE /\ rule[k] # NoRule /\ rule'[k].epoch = rule[k].epoch
               /\ rule'[k].since = rule[k].since /\ rule'[k].bytes = rule[k].bytes + 1
      <3>0. PICK d : d = rule[k]
        OBVIOUS
      <3>1. d \in Counters /\ CountersOk(k, d) /\ d.bytes \in Nat
        BY <1>t, <2>2, <3>0 DEF RulesOk, TypeOK, Counters
      <3>2. CountersOk(k, d)'
        BY <1>t, <1>n, <3>1, CountersKept
      <3>3. c.since = d.since /\ c.epoch = d.epoch /\ c.bytes = d.bytes + 1
        BY <1>2, <2>2, <3>0
      <3>4. sample'[k] # NoSample => sample'[k].bytes \in Nat
        BY DEF TypeOK, Samples
      <3> QED BY <3>1, <3>2, <3>3, <3>4 DEF CountersOk, Continues
    <2>3. CASE rule'[k].epoch = events + 1 /\ rule'[k].since = now /\ events' = events + 1
      <3>1. counted[k][c.epoch] = 0
        BY <1>t, <1>2, <1>n, <2>0, <2>3 DEF SampleOk
      <3>2. \A j \in Sampled : c.since >= sample[j].at
        <4> SUFFICES ASSUME NEW j \in Sampled PROVE c.since >= sample[j].at
          OBVIOUS
        <4>1. sample[j].at <= now /\ sample[j] \in Samples
          BY <1>t DEF SampleOk, Sampled, TypeOK
        <4>2. sample[j].at \in Nat
          BY <4>1, UsageAssumption DEF Samples
        <4> QED BY <1>2, <1>n, <2>3, <4>1, <4>2
      <3>3. sample[k] # NoSample => sample[k].epoch # c.epoch
        <4> SUFFICES ASSUME sample[k] # NoSample PROVE sample[k].epoch # c.epoch
          OBVIOUS
        <4>1. sample[k].epoch <= events /\ sample[k] \in Samples
          BY <1>t DEF SampleOk, Sampled, TypeOK
        <4>2. sample[k].epoch \in Nat
          BY <4>1, UsageAssumption DEF Samples, Epochs
        <4> QED BY <1>2, <1>n, <2>3, <4>1, <4>2
      <3>4. c.since <= now' /\ c.epoch <= events'
        BY <1>2, <1>n, <2>3
      <3> QED BY <3>1, <3>2, <3>3, <3>4 DEF CountersOk, Continues, Sampled
    <2> QED BY <1>2, <2>1, <2>2, <2>3
  <1>3. RulesOk'
    <2> SUFFICES ASSUME NEW CONSTANT k \in Keys, (rule[k] # NoRule)'
                 PROVE  CountersOk(k, rule[k])'
      BY DEF RulesOk
    <2>1. PICK c : c = rule'[k]
      OBVIOUS
    <2>2. CountersOk(k, c)'
      BY <1>2, <2>1
    <2> QED BY <2>1, <2>2 DEF CountersOk, Continues
  <1>4. HeldOk'
    BY DEF HeldOk
  <1>5. ASSUME NEW CONSTANT p \in Procs PROVE RunOk(p)'
    <2>1. RunOk(p) /\ run'[p] = run[p]
      BY DEF IInv
    <2>2. run[p].pc = "save" => ListingOk(p)'
      BY <1>n, <2>1, ListingKept
    <2>3. run[p].at <= now'
      BY <2>1 DEF RunOk
    <2> QED BY <2>1, <2>2, <2>3 DEF RunOk
  <1> QED BY <1>1, <1>3, <1>4, <1>5 DEF IInv

\* What COMMIT makes of one key.
LEMMA WrittenKey ==
    ASSUME IInv, NEW p \in Procs, run[p].pc = "save", Written(p), NEW k \in Keys,
           NEW c, c = run[p].seen[k], c # NoRule
    PROVE  /\ c \in Counters /\ CountersOk(k, c)
           /\ sample'[k] # NoSample
           /\ sample'[k].since = c.since /\ sample'[k].bytes = c.bytes
           /\ sample'[k].at = run[p].at /\ sample'[k].epoch = c.epoch
           /\ counted'[k][c.epoch] <= c.bytes
           /\ sample'[k].whole => counted'[k][c.epoch] = c.bytes
           /\ \A e \in Epochs : e # c.epoch => counted'[k][e] = counted[k][e]
  <1>1. TypeOK /\ CountedOnce /\ ListingOk(p) /\ run[p] \in RunStates
    BY DEF IInv, RunOk, TypeOK
  <1>2. c \in Counters /\ CountersOk(k, c) /\ c.epoch \in Epochs
    BY <1>1 DEF RunStates, Listings, ListingOk, Counters
  <1>3. sample'[k] = [since |-> c.since, bytes |-> c.bytes, at |-> run[p].at,
                      epoch |-> c.epoch, whole |-> Whole(k, c)]
    BY DEF Written
  <1>4. sample'[k] # NoSample
    <2>1. sample'[k].at = run[p].at /\ Whole(k, c) \in BOOLEAN
      BY <1>1, <1>2, <1>3, DeltaCounts
    <2>2. sample'[k] \in Samples
      BY <1>1, <1>2, <1>3, <2>1 DEF Samples, Counters, RunStates
    <2> QED BY <2>2, UsageAssumption
  <1>5. counted'[k] = [counted[k] EXCEPT ![c.epoch] = counted[k][c.epoch] + Delta(k, c)]
    BY DEF Written
  <1>6. counted[k] \in [Epochs -> Nat]
    BY <1>1 DEF TypeOK
  <1>7. counted'[k][c.epoch] = counted[k][c.epoch] + Delta(k, c)
        /\ \A e \in Epochs : e # c.epoch => counted'[k][e] = counted[k][e]
    BY <1>2, <1>5, <1>6
  <1>8. /\ counted[k][c.epoch] + Delta(k, c) <= c.bytes
        /\ Whole(k, c) => counted[k][c.epoch] + Delta(k, c) = c.bytes
    BY <1>1, <1>2, DeltaCounts
  <1>9. counted'[k][c.epoch] <= c.bytes
    BY <1>7, <1>8
  <1>10. sample'[k].whole => counted'[k][c.epoch] = c.bytes
    BY <1>3, <1>7, <1>8
  <1> QED BY <1>2, <1>3, <1>4, <1>7, <1>9, <1>10

\* Writing down a rule that is gone drops its sample and counts nothing.
LEMMA WrittenGone ==
    ASSUME IInv, NEW p \in Procs, Written(p), NEW k \in Keys, run[p].seen[k] = NoRule
    PROVE  sample'[k] = NoSample /\ counted'[k] = counted[k]
  BY DEF Written

\* A run is saved: the sums, the samples, and who is charged from now on.
LEMMA SaveStep ==
    ASSUME IInv, TypeOK', LockOk', NEW CONSTANT p \in Procs, run[p].pc = "save", Written(p),
           UNCHANGED <<now, owner, rule>>, events' \in {events, events + 1},
           run'[p].pc \notin {"list", "save"}, run'[p].at = run[p].at,
           \A q \in Procs : q # p => run'[q] = run[q]
    PROVE  IInv'
  <1>t. TypeOK /\ RulesOk /\ SampleOk /\ LockOk /\ HeldOk /\ RunOk(p) /\ ListingOk(p)
    BY DEF IInv, RunOk
  <1>n. /\ now \in Nat /\ events \in Nat /\ events' \in Nat /\ events <= events'
        /\ run[p] \in RunStates /\ run[p].at \in Nat /\ run[p].at <= now
    BY <1>t, UsageAssumption DEF TypeOK, RunStates, RunOk
  <1>1. ASSUME NEW k \in Sampled'
        PROVE  /\ k \in Keys /\ run[p].seen[k] # NoRule
               /\ run[p].seen[k] \in Counters
    <2>1. k \in Keys /\ run[p].seen[k] # NoRule
      BY <1>1, WrittenGone DEF Sampled
    <2> QED BY <2>1, <1>n DEF RunStates, Listings
  <1>2. CountedOnce'
    <2> SUFFICES ASSUME NEW k \in Sampled'
                 PROVE  /\ counted'[k][sample'[k].epoch] <= sample'[k].bytes
                        /\ sample'[k].whole => counted'[k][sample'[k].epoch] = sample'[k].bytes
      BY DEF CountedOnce
    <2>1. PICK c : c = run[p].seen[k]
      OBVIOUS
    <2>2. k \in Keys /\ c # NoRule
      BY <1>1, <2>1
    <2> QED BY <2>1, <2>2, WrittenKey
  <1>3. SampleOk'
    <2>1. ASSUME NEW k \in Sampled' PROVE sample'[k].epoch <= events' /\ sample'[k].at <= now'
      <3>1. PICK c : c = run[p].seen[k]
        OBVIOUS
      <3>2. k \in Keys /\ c # NoRule
        BY <1>1, <2>1, <3>1
      <3>3. /\ sample'[k].at = run[p].at /\ sample'[k].epoch = c.epoch
            /\ c \in Counters /\ CountersOk(k, c)
        BY <3>1, <3>2, WrittenKey
      <3>4. c.epoch \in Nat /\ c.epoch <= events
        BY <3>3, UsageAssumption DEF Counters, Epochs, CountersOk
      <3> QED BY <1>n, <3>3, <3>4
    <2>2. ASSUME NEW k \in Keys, NEW e \in Epochs, e > events' PROVE counted'[k][e] = 0
      <3>1. counted[k][e] = 0 /\ e \in Nat /\ e > events
        BY <1>t, <1>n, <2>2, UsageAssumption DEF SampleOk, Epochs
      <3>2. PICK c : c = run[p].seen[k]
        OBVIOUS
      <3>3. CASE c = NoRule
        BY <3>1, <3>2, <3>3, WrittenGone
      <3>4. CASE c # NoRule
        <4>1. c \in Counters /\ CountersOk(k, c)
              /\ \A f \in Epochs : f # c.epoch => counted'[k][f] = counted[k][f]
          BY <3>2, <3>4, WrittenKey
        <4>2. c.epoch \in Nat /\ c.epoch <= events
          BY <4>1, UsageAssumption DEF Counters, Epochs, CountersOk
        <4> QED BY <1>n, <3>1, <4>1, <4>2
      <3> QED BY <3>3, <3>4
    <2> QED BY <2>1, <2>2 DEF SampleOk
  <1>4. ASSUME NEW CONSTANT k \in Keys, rule[k] # NoRule PROVE CountersOk(k, rule[k])'
    <2>1. PICK r : r = rule[k]
      OBVIOUS
    <2>2. PICK c : c = run[p].seen[k]
      OBVIOUS
    <2>3. r \in Counters /\ r.epoch \in Epochs /\ r.epoch \in Nat /\ CountersOk(k, r)
          /\ rule'[k] = r
      BY <1>t, <1>4, <2>1, UsageAssumption DEF TypeOK, RulesOk, Counters, Epochs
    <2>4. r.since <= now' /\ r.epoch <= events'
      BY <1>n, <2>3 DEF CountersOk
    <2>5. \/ c # NoRule /\ c.epoch = r.epoch /\ Continues(c, r)
          \/ /\ c # NoRule => c.epoch # r.epoch
             /\ r.since >= run[p].at /\ counted[k][r.epoch] = 0
      BY <1>t, <1>4, <2>1, <2>2 DEF ListingOk
    <2>6. c # NoRule => /\ sample'[k] # NoSample
                        /\ sample'[k].since = c.since /\ sample'[k].bytes = c.bytes
                        /\ sample'[k].epoch = c.epoch
                        /\ \A e \in Epochs : e # c.epoch => counted'[k][e] = counted[k][e]
      BY <2>2, WrittenKey
    <2>7. c = NoRule => sample'[k] = NoSample /\ counted'[k] = counted[k]
      BY <2>2, WrittenGone
    <2>8. sample'[k] # NoSample => Continues(sample'[k], r)
      BY <2>5, <2>6, <2>7 DEF Continues
    <2>9. \A j \in Sampled' : sample'[j].at = run[p].at
      <3> SUFFICES ASSUME NEW j \in Sampled' PROVE sample'[j].at = run[p].at
        OBVIOUS
      <3>1. PICK d : d = run[p].seen[j]
        OBVIOUS
      <3>2. j \in Keys /\ d # NoRule
        BY <1>1, <3>1
      <3> QED BY <3>1, <3>2, WrittenKey
    <2>10. \/ sample'[k] # NoSample /\ sample'[k].epoch = r.epoch
           \/ (\A j \in Sampled' : r.since >= sample'[j].at) /\ counted'[k][r.epoch] = 0
      <3>1. CASE c # NoRule /\ c.epoch = r.epoch
        BY <2>6, <3>1
      <3>2. CASE ~(c # NoRule /\ c.epoch = r.epoch)
        <4>1. r.since >= run[p].at /\ counted[k][r.epoch] = 0
          BY <2>5, <3>2
        <4>2. counted'[k][r.epoch] = 0
          BY <2>3, <2>6, <2>7, <3>2, <4>1
        <4> QED BY <2>9, <4>1, <4>2
      <3> QED BY <3>1, <3>2
    <2>11. CountersOk(k, r)'
      BY <2>4, <2>8, <2>10 DEF CountersOk, Continues
    <2> QED BY <2>3, <2>11 DEF CountersOk, Continues
  <1>5. RulesOk'
    BY <1>4 DEF RulesOk
  <1>6. HeldOk'
    BY <1>t DEF HeldOk, Written
  <1>7. RunOk(p)'
    BY <1>n DEF RunOk
  <1>8. ASSUME NEW CONSTANT q \in Procs, q # p PROVE RunOk(q)'
    <2>1. run[q].pc \notin Holding
      BY <1>t, <1>8 DEF LockOk, Holding
    <2>2. run'[q] = run[q] /\ RunOk(q)
      BY <1>8 DEF IInv
    <2> QED BY <2>1, <2>2 DEF RunOk, Holding
  <1> QED BY <1>2, <1>3, <1>5, <1>6, <1>7, <1>8 DEF IInv

-----------------------------------------------------------------------------
\* Every step of the program keeps the invariant.
LEMMA NextInv == IInv /\ [Next]_vars => IInv'
  <1> SUFFICES ASSUME IInv, [Next]_vars PROVE IInv'
    OBVIOUS
  <1>t. TypeOK /\ TypeOK' /\ LockOk' /\ HeldOk /\ \A q \in Procs : RunOk(q)
    BY TypeStep, LockStep DEF IInv
  <1>n. now \in Nat /\ events \in Nat
    BY <1>t, UsageAssumption DEF TypeOK
  <1>r. run \in [Procs -> RunStates] /\ \A q \in Procs : run[q].at <= now
    BY <1>t DEF TypeOK, RunOk
  <1>e. Quiet \/ Event => events' \in {events, events + 1} /\ events <= events'
    BY <1>n DEF Quiet, Event
  <1>1. ASSUME NEW CONSTANT p \in Procs, Begin(p) PROVE IInv'
    <2>1. run'[p].pc = "lock" /\ run'[p].at = now /\ \A q \in Procs : q # p => run'[q] = run[q]
      BY <1>r, <1>1 DEF Begin, Resting
    <2>2. UNCHANGED <<now, owner, rule, sample, counted, held, later, events>>
      BY <1>1 DEF Begin, history, Quiet
    <2> QED BY <1>t, <1>n, <2>1, <2>2, QuietStep
  <1>2. ASSUME NEW CONSTANT p \in Procs,
               run' = [run EXCEPT ![p] = Resting] \/ run' = [run EXCEPT ![p].pc = "attrs"]
                 \/ run' = [run EXCEPT ![p].pc = "end"] \/ run' = [run EXCEPT ![p].pc = "lost"],
               UNCHANGED <<now, owner, rule, sample, counted, held, later>>, Quiet \/ Event
        PROVE  IInv'
    <2>1. run'[p].pc \notin {"list", "save"} /\ run'[p].at \in {0, run[p].at}
      <3>1. Resting.pc = "idle" /\ Resting.at = 0
        BY DEF Resting
      <3>2. CASE run' = [run EXCEPT ![p] = Resting]
        BY <1>r, <3>1, <3>2
      <3>3. CASE run' # [run EXCEPT ![p] = Resting]
        BY <1>r, <1>2, <3>3 DEF RunStates
      <3> QED BY <3>2, <3>3
    <2>2. \A q \in Procs : q # p => run'[q] = run[q]
      BY <1>r, <1>2
    <2>3. run'[p].at <= now'
      BY <1>n, <1>r, <1>2, <2>1
    <2>4. now <= now' /\ events <= events'
      BY <1>n, <1>e, <1>2
    <2> QED BY <1>t, <1>2, <2>1, <2>2, <2>3, <2>4, QuietStep
  <1>3. ASSUME NEW CONSTANT p \in Procs, Lock(p) \/ RunFails(p) \/ End(p) \/ Lose(p) \/ Stop(p) \/ Crash(p)
        PROVE IInv'
    BY <1>2, <1>3 DEF Lock, RunFails, End, Lose, Stop, Crash, history
  <1>4. ASSUME NEW CONSTANT p \in Procs, Attrs(p) PROVE IInv'
    <2>1. run'[p].pc = "list" /\ run'[p].at = run[p].at /\ run'[p].attrs = owner
          /\ \A q \in Procs : q # p => run'[q] = run[q]
      BY <1>r, <1>4 DEF Attrs, RunStates
    <2>2. UNCHANGED <<now, owner, rule, sample, counted, held, later, events>>
      BY <1>4 DEF Attrs, history, Quiet
    <2> QED BY <1>t, <1>n, <2>1, <2>2, QuietStep
  <1>5. ASSUME NEW CONSTANT p \in Procs, List(p) PROVE IInv'
    BY <1>t, <1>5, ListStep
  <1>6. ASSUME NEW CONSTANT p \in Procs, Save(p) \/ LoseAnswer(p) PROVE IInv'
    <2>1. run[p].pc = "save" /\ Written(p) /\ UNCHANGED <<now, owner, rule>> /\ (Quiet \/ Event)
          /\ (run' = [run EXCEPT ![p].pc = "end"] \/ run' = [run EXCEPT ![p].pc = "lost"])
      BY <1>6 DEF Save, LoseAnswer
    <2>2. run'[p].pc \notin {"list", "save"} /\ run'[p].at = run[p].at
          /\ \A q \in Procs : q # p => run'[q] = run[q]
      BY <1>r, <2>1 DEF RunStates
    <2> QED BY <1>t, <1>e, <2>1, <2>2, SaveStep
  <1>7. CASE Tick
    <2>1. UNCHANGED <<owner, rule, sample, run, counted, held, later, events>> /\ now <= now'
      BY <1>n, <1>7 DEF Tick, history, Quiet
    <2> QED BY <1>t, <1>n, <2>1, QuietStep
  <1>8. ASSUME NEW CONSTANT k \in Keys, Traffic(k) PROVE IInv'
    <2>1. \A j \in Keys :
             \/ rule'[j] \in {rule[j], NoRule}
             \/ /\ rule[j] # NoRule /\ rule'[j].epoch = rule[j].epoch
                /\ rule'[j].since = rule[j].since /\ rule'[j].bytes = rule[j].bytes + 1
      <3>1. rule[k] \in Counters
        BY <1>t, <1>8 DEF Traffic, TypeOK
      <3>2. \A j \in Keys : j # k => rule'[j] = rule[j]
        BY <1>t, <1>8 DEF Traffic, TypeOK
      <3>3. rule'[k] = [rule[k] EXCEPT !.bytes = rule[k].bytes + 1]
        BY <1>t, <1>8 DEF Traffic, TypeOK
      <3>4. rule'[k].epoch = rule[k].epoch /\ rule'[k].since = rule[k].since
            /\ rule'[k].bytes = rule[k].bytes + 1 /\ rule[k] # NoRule
        BY <1>8, <3>1, <3>3 DEF Counters, Traffic
      <3> QED BY <3>2, <3>4
    <2>2. UNCHANGED <<now, owner, sample, run, counted, held, later>> /\ (Quiet \/ Event)
      BY <1>8 DEF Traffic, history
    <2>3. \A j \in Keys : /\ owner'[j] \in later'[j] /\ later'[j] \subseteq held'[j]
                          /\ held[j] \subseteq held'[j]
      BY <1>t, <2>2 DEF HeldOk
    <2> QED BY <1>t, <1>e, <2>1, <2>2, <2>3, RulesStep
  <1>9. ASSUME NEW CONSTANT k \in Keys, NEW CONSTANT o \in Attributions, Owned(k, o)
        PROVE  \A j \in Keys : /\ owner'[j] \in later'[j] /\ later'[j] \subseteq held'[j]
                               /\ held[j] \subseteq held'[j]
    BY <1>t, <1>9 DEF Owned, HeldOk, TypeOK
  <1>10. ASSUME NEW CONSTANT k \in Keys, NEW CONSTANT o \in Attributions, Create(k, o) PROVE IInv'
    <2>1. Started.epoch = events + 1 /\ Started.since = now
      BY DEF Started
    <2>2. \A j \in Keys : \/ rule'[j] = rule[j]
                          \/ rule'[j].epoch = events + 1 /\ rule'[j].since = now
      BY <1>t, <1>10, <2>1 DEF Create, TypeOK
    <2>3. UNCHANGED <<now, sample, run, counted>> /\ events' = events + 1 /\ Owned(k, o)
      BY <1>10 DEF Create, Owned, Event
    <2> QED BY <1>t, <1>n, <1>9, <2>2, <2>3, RulesStep
  <1>11. ASSUME NEW CONSTANT k \in Keys, Delete(k) PROVE IInv'
    <2>1. \A j \in Keys : rule'[j] \in {rule[j], NoRule}
      BY <1>t, <1>11 DEF Delete, TypeOK
    <2>2. UNCHANGED <<now, sample, run, counted>> /\ events' = events + 1 /\ Owned(k, Nobody)
      BY <1>11 DEF Delete, Owned, Event
    <2>3. Nobody \in Attributions
      BY DEF Attributions
    <2> QED BY <1>t, <1>n, <1>9, <2>1, <2>2, <2>3, RulesStep
  <1>12. ASSUME NEW CONSTANT k \in Keys, NEW CONSTANT o \in Owners, Reassign(k, o) PROVE IInv'
    <2>1. UNCHANGED <<now, rule, sample, run, counted>> /\ events' = events + 1 /\ Owned(k, o)
      BY <1>12 DEF Reassign, Owned, Event
    <2>2. o \in Attributions
      BY DEF Attributions
    <2> QED BY <1>t, <1>n, <1>9, <2>1, <2>2, RulesStep
  <1>13. CASE Restart
    <2>1. Started.epoch = events + 1 /\ Started.since = now
      BY DEF Started
    <2>2. \A j \in Keys : \/ rule'[j] = NoRule
                          \/ rule'[j].epoch = events + 1 /\ rule'[j].since = now
      BY <1>13, <2>1 DEF Restart
    <2>3. UNCHANGED <<now, owner, sample, run, counted, held, later>> /\ events' = events + 1
      BY <1>13 DEF Restart, history, Event
    <2>4. \A j \in Keys : /\ owner'[j] \in later'[j] /\ later'[j] \subseteq held'[j]
                          /\ held[j] \subseteq held'[j]
      BY <1>t, <2>3 DEF HeldOk
    <2> QED BY <1>t, <1>n, <2>2, <2>3, <2>4, RulesStep
  <1>14. CASE UNCHANGED vars
    <2>1. UNCHANGED <<now, owner, rule, sample, run, counted, held, later, events>>
      BY <1>14 DEF vars, history
    <2> QED BY <1>t, <1>n, <2>1, QuietStep
  <1> QED
    BY <1>1, <1>3, <1>4, <1>5, <1>6, <1>7, <1>8, <1>10, <1>11, <1>12, <1>13, <1>14
    DEF Next, Step, Failure, Environment

\* The invariant holds in every reachable state: the lock belongs to one run,
\* which reads, lists and saves with nobody else writing in between.
THEOREM UsageInductive == Spec => []IInv
  BY InitInv, NextInv, PTL DEF Spec

\* What is in the sums for the rule of a sample was counted once: never more
\* than it had carried, and all of it when it began between two runs.
THEOREM CountedOnceAlways == Spec => []CountedOnce
  <1>1. IInv => CountedOnce
    BY DEF IInv
  <1> QED BY <1>1, UsageInductive, PTL

\* Traffic is charged to an attribution the key has had since the last saved
\* listing.
THEOREM Billed == Spec => BilledToHolder
  <1>1. IInv /\ [Next]_vars =>
          [\A k \in Keys, o \in Attributions : usage'[k][o] > usage[k][o] => o \in held[k]]_vars
    <2> SUFFICES ASSUME IInv, [Next]_vars, NEW k \in Keys, NEW o \in Attributions,
                        usage'[k][o] > usage[k][o]
                 PROVE  o \in held[k]
      OBVIOUS
    <2>1. usage[k][o] \in Nat
      BY DEF IInv, TypeOK
    <2>2. usage' # usage
      BY <2>1
    <2>3. PICK p \in Procs : run[p].pc = "save" /\ Written(p)
      BY <2>2 DEF Next, Step, Failure, Environment, vars, Begin, Lock, Attrs, List, RunFails, Save,
                  End, Lose, LoseAnswer, Stop, Crash, Tick, Traffic, Create, Delete, Reassign, Restart
    <2>4. run[p].attrs[k] \in held[k]
      BY <2>3 DEF IInv, RunOk
    <2>5. \A a \in Attributions : a # run[p].attrs[k] => usage'[k][a] = usage[k][a]
      BY <2>3 DEF Written, IInv, TypeOK
    <2> QED BY <2>1, <2>4, <2>5
  <1> QED BY <1>1, UsageInductive, PTL DEF Spec, BilledToHolder
=============================================================================

--------------------------- MODULE Services_proofs ---------------------------
(***************************************************************************)
(* Proofs about services that share no state: the pool of workers, the     *)
(* gates of a command, the rules of the alert engine, the bridge to        *)
(* Telegram, what is sent to a chat, and the migrations at startup (any    *)
(* number of processes, migrations, failures and crashes).                 *)
(***************************************************************************)
EXTENDS WorkerPool, CommandGate, AlertRules, TelegramBridge, Outbound, Migrations,
        FiniteSetTheorems, SequenceTheorems, TLAPS

-----------------------------------------------------------------------------
(* The pool of workers *)

\* WaitingIsHeld without counting: a job whose caller waits is in flight in one
\* slot, which has a thread, and no other job is in flight.
HeldOnce ==
  \A j \in Jobs :
    /\ phase[j] # "waiting" => \A s \in PoolSlots : j \notin inflight[s]
    /\ phase[j] = "waiting" =>
         \E s \in PoolSlots :
           /\ j \in inflight[s] /\ thread[s] # "null"
           /\ \A t \in PoolSlots : j \in inflight[t] => t = s

LEMMA HeldOnceCounts == ASSUME HeldOnce PROVE WaitingIsHeld
<1> SUFFICES ASSUME NEW j \in Jobs
             PROVE LET holders == {s \in PoolSlots : j \in inflight[s]} IN
                     /\ Cardinality(holders) = IF phase[j] = "waiting" THEN 1 ELSE 0
                     /\ \A s \in holders : thread[s] # "null"
  BY DEF WaitingIsHeld
<1> DEFINE holders == {s \in PoolSlots : j \in inflight[s]}
<1>1. CASE phase[j] = "waiting"
  <2>1. PICK s \in PoolSlots : /\ j \in inflight[s] /\ thread[s] # "null"
                               /\ \A t \in PoolSlots : j \in inflight[t] => t = s
    BY <1>1 DEF HeldOnce
  <2>2. holders = {s} BY <2>1
  <2>3. Cardinality(holders) = 1 BY <2>2, FS_Singleton
  <2> QED BY <1>1, <2>1, <2>2, <2>3
<1>2. CASE phase[j] # "waiting"
  <2>1. holders = {} BY <1>2 DEF HeldOnce
  <2> QED BY <1>2, <2>1, FS_EmptySet
<1> QED BY <1>1, <1>2

PoolIInv == PoolTypeOK /\ HeldOnce

LEMMA PoolStarts == ASSUME PoolInit PROVE PoolIInv
<1>1. poolTrouble \in 0 .. MaxPoolTrouble BY WorkerPoolAssumption DEF PoolInit
<1>2. respawns \in [PoolSlots -> 0 .. MaxRespawns] BY WorkerPoolAssumption DEF PoolInit
<1>3. thread \in [PoolSlots -> {"up", "leaving", "null"}] BY DEF PoolInit
<1>4. /\ inflight \in [PoolSlots -> SUBSET Jobs]
      /\ atWorker \in [PoolSlots -> SUBSET Jobs] /\ answers \in [PoolSlots -> SUBSET Jobs]
  BY DEF PoolInit
<1>5. phase \in [Jobs -> {"new", "waiting", "done", "failed"}] BY DEF PoolInit
<1>6. HeldOnce BY DEF PoolInit, HeldOnce
<1> QED BY <1>1, <1>2, <1>3, <1>4, <1>5, <1>6 DEF PoolInit, PoolTypeOK, PoolIInv

LEMMA PoolTypeStep == ASSUME PoolTypeOK, [PoolNext]_poolVars PROVE PoolTypeOK'
<1> USE WorkerPoolAssumption DEF PoolTypeOK
<1>1. CASE UNCHANGED poolVars BY <1>1 DEF poolVars, wires
<1>2. CASE MinuteOver BY <1>2 DEF MinuteOver, wires
<1>3. CASE Shutdown BY <1>3 DEF Shutdown, wires
<1>4. ASSUME NEW s \in PoolSlots, Dies(s) PROVE PoolTypeOK'
  BY <1>4 DEF Dies, Leaves, FailsAll, wires
<1>5. ASSUME NEW s \in PoolSlots, Exit(s) PROVE PoolTypeOK'
  BY <1>5 DEF Exit, FailsAll
<1>6. ASSUME NEW j \in Jobs, NoWorkers(j) PROVE PoolTypeOK'
  BY <1>6 DEF NoWorkers, wires
<1>7. ASSUME NEW j \in Jobs, NEW s \in PoolSlots, Run(j, s) PROVE PoolTypeOK'
  BY <1>7 DEF Run
<1>8. ASSUME NEW j \in Jobs, NEW s \in PoolSlots, Answer(s, j) PROVE PoolTypeOK'
  BY <1>8 DEF Answer
<1>9. ASSUME NEW j \in Jobs, NEW s \in PoolSlots, Message(s, j) PROVE PoolTypeOK'
  BY <1>9 DEF Message
<1>10. ASSUME NEW j \in Jobs, NEW s \in PoolSlots, TimesOut(s, j) PROVE PoolTypeOK'
  BY <1>10 DEF TimesOut, Leaves, wires
<1> QED BY <1>1, <1>2, <1>3, <1>4, <1>5, <1>6, <1>7, <1>8, <1>9, <1>10 DEF PoolNext

\* A job leaves the slot that held it when its caller hears of it, and a slot
\* without a thread has none.
LEMMA HeldStep == ASSUME PoolIInv, [PoolNext]_poolVars PROVE HeldOnce'
<1> USE DEF PoolIInv, PoolTypeOK
<1>1. CASE UNCHANGED poolVars BY <1>1 DEF poolVars, wires, HeldOnce
<1>2. CASE MinuteOver BY <1>2 DEF MinuteOver, wires, HeldOnce
<1>3. CASE Shutdown BY <1>3 DEF Shutdown, wires, HeldOnce
<1>4. ASSUME NEW s \in PoolSlots, Dies(s) PROVE HeldOnce'
  <2>1. CASE FailsAll(s) BY <1>4, <2>1 DEF Dies, Leaves, FailsAll, HeldOnce
  <2>2. CASE UNCHANGED <<inflight, phase>> BY <1>4, <2>2 DEF Dies, Leaves, HeldOnce
  <2> QED BY <1>4, <2>1, <2>2 DEF Dies
<1>5. ASSUME NEW s \in PoolSlots, Exit(s) PROVE HeldOnce'
  BY <1>5 DEF Exit, FailsAll, HeldOnce
<1>6. ASSUME NEW j \in Jobs, NoWorkers(j) PROVE HeldOnce'
  BY <1>6 DEF NoWorkers, wires, HeldOnce
<1>7. ASSUME NEW j \in Jobs, NEW s \in PoolSlots, Run(j, s) PROVE HeldOnce'
  BY <1>7 DEF Run, LeastBusy, Alive, HeldOnce
<1>8. ASSUME NEW j \in Jobs, NEW s \in PoolSlots, Answer(s, j) PROVE HeldOnce'
  BY <1>8 DEF Answer, HeldOnce
<1>9. ASSUME NEW j \in Jobs, NEW s \in PoolSlots, Message(s, j) PROVE HeldOnce'
  BY <1>9 DEF Message, HeldOnce
<1>10. ASSUME NEW j \in Jobs, NEW s \in PoolSlots, TimesOut(s, j) PROVE HeldOnce'
  BY <1>10 DEF TimesOut, Leaves, wires, HeldOnce
<1> QED BY <1>1, <1>2, <1>3, <1>4, <1>5, <1>6, <1>7, <1>8, <1>9, <1>10 DEF PoolNext

LEMMA PoolStep == ASSUME PoolIInv, [PoolNext]_poolVars PROVE PoolIInv'
BY PoolTypeStep, HeldStep DEF PoolIInv

LEMMA PoolAlways == PoolSpec => []PoolIInv
<1>1. PoolInit => PoolIInv BY PoolStarts
<1>2. PoolIInv /\ [PoolNext]_poolVars => PoolIInv' BY PoolStep
<1> QED BY <1>1, <1>2, PTL DEF PoolSpec

\* A job whose caller waits (workerPool.js, `inflight`) is held by exactly one slot,
\* which has a thread, for any number of jobs, slots and crashes.
THEOREM JobsAreHeld == PoolSpec => []PoolInv
<1>1. PoolIInv => PoolInv BY HeldOnceCounts DEF PoolIInv, PoolInv
<1> QED BY <1>1, PoolAlways, PTL

\* Who is in flight is waited for.
LEMMA InFlightWaits ==
  ASSUME PoolIInv, NEW s \in PoolSlots, NEW j \in inflight[s]
  PROVE  j \in Jobs /\ phase[j] = "waiting"
<1>1. j \in Jobs BY DEF PoolIInv, PoolTypeOK
<1> QED BY <1>1 DEF PoolIInv, HeldOnce

\* The pool does to the promises of run() only what JobService allows: none is
\* settled twice, and none before it was handed over.
THEOREM PoolServesJobs == PoolSpec => Service!ServiceInit /\ [][Service!ServiceNext]_phase
<1>1. PoolInit => Service!ServiceInit BY DEF PoolInit, Service!ServiceInit
<1>2. ASSUME PoolIInv, [PoolNext]_poolVars PROVE [Service!ServiceNext]_phase
  <2>1. phase \in [Jobs -> {"new", "waiting", "done", "failed"}] BY <1>2 DEF PoolIInv, PoolTypeOK
  <2>2. ASSUME NEW js \in SUBSET Jobs, \A j \in js : phase[j] = "waiting",
               phase' = [j \in Jobs |-> IF j \in js THEN "failed" ELSE phase[j]]
        PROVE  Service!ServiceNext
    BY <2>2 DEF Service!ServiceNext, Service!Fail
  <2>3. ASSUME NEW s \in PoolSlots, FailsAll(s) PROVE Service!ServiceNext
    <3>1. inflight[s] \in SUBSET Jobs BY <1>2 DEF PoolIInv, PoolTypeOK
    <3>2. \A j \in inflight[s] : phase[j] = "waiting" BY <1>2, InFlightWaits
    <3> QED BY <2>2, <2>3, <3>1, <3>2 DEF FailsAll
  <2>4. ASSUME NEW j \in Jobs, NEW s \in PoolSlots, TimesOut(s, j) PROVE Service!ServiceNext
    <3>1. j \in inflight[s] /\ phase' = [phase EXCEPT ![j] = "failed"] BY <2>4 DEF TimesOut
    <3>2. phase[j] = "waiting" BY <1>2, <3>1, InFlightWaits
    <3>3. phase' = [i \in Jobs |-> IF i \in {j} THEN "failed" ELSE phase[i]] BY <2>1, <3>1
    <3>4. {j} \in SUBSET Jobs /\ \A i \in {j} : phase[i] = "waiting" BY <3>2
    <3>5. Service!Fail({j}) BY <3>3, <3>4 DEF Service!Fail
    <3> QED BY <3>4, <3>5 DEF Service!ServiceNext
  <2>5. ASSUME NEW j \in Jobs, NoWorkers(j) PROVE Service!ServiceNext
    BY <2>5 DEF NoWorkers, Service!ServiceNext, Service!Refuse
  <2>6. ASSUME NEW j \in Jobs, NEW s \in PoolSlots, Run(j, s) PROVE Service!ServiceNext
    BY <2>6 DEF Run, Service!ServiceNext, Service!HandOver
  <2>7. ASSUME NEW j \in Jobs, NEW s \in PoolSlots, Message(s, j)
        PROVE  Service!ServiceNext \/ UNCHANGED phase
    <3>1. CASE j \in inflight[s]
      <4>1. phase[j] = "waiting" BY <1>2, <3>1, InFlightWaits
      <4> QED BY <2>7, <3>1, <4>1 DEF Message, Service!ServiceNext, Service!Resolve
    <3>2. CASE j \notin inflight[s] BY <2>7, <3>2 DEF Message
    <3> QED BY <3>1, <3>2
  <2>8. ASSUME PoolNext
        PROVE  \/ UNCHANGED phase
               \/ \E s \in PoolSlots : FailsAll(s)
               \/ \E j \in Jobs : NoWorkers(j)
               \/ \E j \in Jobs, s \in PoolSlots : Run(j, s) \/ Message(s, j) \/ TimesOut(s, j)
    BY <2>8 DEF PoolNext, MinuteOver, Shutdown, Answer, Dies, Exit
  <2>9. CASE PoolNext BY <2>3, <2>4, <2>5, <2>6, <2>7, <2>8, <2>9
  <2> QED BY <1>2, <2>9 DEF poolVars
<1> QED BY <1>1, <1>2, PoolAlways, PTL DEF PoolSpec

-----------------------------------------------------------------------------
(* The gates of a command *)

\* The cooldown's entry, while it is kept, is the tick of the last run, and a dialog
\* whose command is awaited has one run more than outcomes, and no request on its way.
RunIInv ==
  /\ clock \in Nat
  /\ lastRun \in [Callers -> Int] /\ beganAt \in [Callers -> Int] /\ running \in [Dialogs -> Int]
  /\ begun \in [Dialogs -> Nat] /\ recorded \in [Dialogs -> Nat]
  /\ \A c \in Callers : lastRun[c] = beganAt[c]
  /\ \A d \in passed : running[d] = Unset
  /\ RecordedOnce

LEMMA RunStarts == ASSUME GateInit PROVE RunIInv
<1>1. clock \in Nat BY DEF GateInit
<1>2. /\ lastRun \in [Callers -> Int] /\ beganAt \in [Callers -> Int] /\ running \in [Dialogs -> Int]
      /\ \A c \in Callers : lastRun[c] = beganAt[c]
  BY DEF GateInit, Unset
<1>3. begun \in [Dialogs -> Nat] /\ recorded \in [Dialogs -> Nat] BY DEF GateInit
<1>4. RecordedOnce /\ passed = {} BY DEF GateInit, RecordedOnce
<1> QED BY <1>1, <1>2, <1>3, <1>4 DEF RunIInv

\* What refuses a request and what an expired deadline leaves behind touches no run.
LEMMA RunStays ==
  ASSUME RunIInv, UNCHANGED <<clock, lastRun, running, begun, beganAt, recorded>>,
         \A d \in passed' : d \in passed \/ running[d] = Unset
  PROVE  RunIInv'
BY DEF RunIInv, RecordedOnce

LEMMA OutcomeKeeps == ASSUME RunIInv, NEW d \in Dialogs, Records(d) PROVE RunIInv'
<1> USE DEF RunIInv, Records
<1>1. /\ running[d] # Unset /\ running' = [running EXCEPT ![d] = Unset] /\ passed' = passed
      /\ recorded' = [recorded EXCEPT ![d] = @ + 1] /\ begun' = begun
  OBVIOUS
<1>2. /\ clock' \in Nat
      /\ lastRun' \in [Callers -> Int] /\ beganAt' \in [Callers -> Int] /\ running' \in [Dialogs -> Int]
      /\ \A c \in Callers : lastRun'[c] = beganAt'[c]
  BY DEF Unset
<1>3. begun' \in [Dialogs -> Nat] /\ recorded' \in [Dialogs -> Nat] BY <1>1
<1>4. RecordedOnce' BY <1>1, <1>3 DEF RecordedOnce
<1>5. \A m \in passed' : running'[m] = Unset
  <2> SUFFICES ASSUME NEW m \in passed PROVE running'[m] = Unset BY <1>1
  <2>1. running[m] = Unset /\ m # d BY <1>1
  <2> QED BY <1>1, <2>1
<1> QED BY <1>2, <1>3, <1>4, <1>5

LEMMA BeginKeeps == ASSUME RunIInv, NEW d \in Dialogs, Begins(d) PROVE RunIInv'
<1> USE DEF RunIInv
<1>1. /\ running[d] = Unset /\ running' = [running EXCEPT ![d] = clock] /\ passed' = passed \ {d}
      /\ begun' = [begun EXCEPT ![d] = @ + 1] /\ recorded' = recorded
      /\ lastRun' = [lastRun EXCEPT ![CallerOf[d]] = clock] /\ beganAt' = [beganAt EXCEPT ![CallerOf[d]] = clock]
      /\ clock' = clock
  BY DEF Begins, SpendsBot, GoesOn
<1>2. begun' \in [Dialogs -> Nat] /\ recorded' \in [Dialogs -> Nat] BY <1>1
<1>3. RecordedOnce' BY <1>1, <1>2 DEF RecordedOnce, Unset
<1>4. clock' \in Nat /\ running' \in [Dialogs -> Int] BY <1>1
<1>5. /\ lastRun' \in [Callers -> Int] /\ beganAt' \in [Callers -> Int]
      /\ \A c \in Callers : lastRun'[c] = beganAt'[c]
  <2>1. clock \in Int /\ lastRun \in [Callers -> Int] /\ beganAt \in [Callers -> Int] BY <1>1
  <2>2. lastRun' \in [Callers -> Int] /\ beganAt' \in [Callers -> Int] BY <1>1, <2>1
  <2> QED BY <1>1, <2>1, <2>2
<1>6. \A m \in passed' : running'[m] = Unset BY <1>1
<1> QED BY <1>2, <1>3, <1>4, <1>5, <1>6

LEMMA RunStep == ASSUME RunIInv, [GateNext]_gateVars PROVE RunIInv'
<1>1. CASE UNCHANGED gateVars BY <1>1, RunStays DEF gateVars
<1>2. CASE ClockTicks
  <2>1. clock' = clock + 1 /\ UNCHANGED <<passed, lastRun, running, begun, beganAt, recorded>>
    BY <1>2 DEF ClockTicks, runVars, historyVars
  <2> QED BY <2>1 DEF RunIInv, RecordedOnce
<1>3. ASSUME NEW d \in Dialogs, SlowDown(d) \/ Passes(d) \/ Dropped(d) \/ Busy(d) \/ CoolsDown(d) \/ LateEnds(d) PROVE RunIInv'
  <2>1. UNCHANGED <<clock, lastRun, running, begun, beganAt, recorded>>
    BY <1>3 DEF SlowDown, Passes, Dropped, Busy, CoolsDown, LateEnds, SpendsBot, GoesOn, Asks, runVars, historyVars
  <2>2. CASE Passes(d)
    <3>1. passed' = passed \union {d} /\ running[d] = Unset BY <2>2 DEF Passes, Asks
    <3> QED BY <2>1, <3>1, RunStays
  <2>3. CASE ~Passes(d)
    <3>1. passed' \subseteq passed
      BY <1>3, <2>3 DEF SlowDown, Dropped, Busy, CoolsDown, LateEnds, SpendsBot, GoesOn
    <3> QED BY <2>1, <3>1, RunStays
  <2> QED BY <2>2, <2>3
<1>4. ASSUME NEW d \in Dialogs, Succeeds(d) \/ Crashes(d) \/ DeadlinePasses(d) PROVE RunIInv'
  BY <1>4, OutcomeKeeps DEF Succeeds, Crashes, DeadlinePasses
<1> QED BY <1>1, <1>2, <1>3, <1>4, BeginKeeps DEF GateNext

LEMMA RunAlways == GateSpec => []RunIInv
<1>1. GateInit => RunIInv BY RunStarts
<1>2. RunIInv /\ [GateNext]_gateVars => RunIInv' BY RunStep
<1> QED BY <1>1, <1>2, PTL DEF GateSpec

\* A command has one outcome, by its end or by its deadline (commandRunner.js,
\* withTimeout and the catch around it), whichever comes first.
THEOREM OneOutcomeEach == GateSpec => []RecordedOnce
<1>1. RunIInv => RecordedOnce BY DEF RunIInv
<1> QED BY <1>1, RunAlways, PTL

\* The cache keeps an entry at least as long as the longest cooldown lasts.
LEMMA EntryOutlivesCooldown == Cooldown * Mult <= CooldownTtl
<1>1. Cooldown <= Cooldown * Warmup
  <2>1. PICK k \in Nat : Warmup = k + 1 BY CommandGateAssumption
  <2>2. Cooldown * Warmup = Cooldown * k + Cooldown BY <2>1, CommandGateAssumption
  <2>3. Cooldown * k \in Nat BY <2>1, CommandGateAssumption
  <2> QED BY <2>2, <2>3, CommandGateAssumption
<1> QED BY <1>1, CommandGateAssumption DEF Mult

\* Two runs of a command by one sender are a cooldown apart (commandRunner.js,
\* checkCooldown), though the warm-up stretches it and the entries of the cache expire.
THEOREM RunsAreApart == GateSpec => RunsApart
<1> DEFINE Apart == \A d \in Dialogs : begun'[d] # begun[d] /\ beganAt[CallerOf[d]] # Unset =>
                                        clock - beganAt[CallerOf[d]] >= Cooldown * Mult
<1>1. ASSUME RunIInv, [GateNext]_gateVars PROVE [Apart]_gateVars
  <2>1. ASSUME NEW d \in Dialogs, Begins(d) PROVE Apart
    <3> DEFINE c == CallerOf[d]
    <3>1. begun' = [begun EXCEPT ![d] = @ + 1] /\ ~Cooling(c) /\ c \in Callers
      BY <2>1, DialogsAssumption DEF Begins
    <3> HIDE DEF c
    <3>4. \A m \in Dialogs : begun'[m] # begun[m] => CallerOf[m] = c
      BY <1>1, <3>1 DEF RunIInv, c
    <3>2. CASE lastRun[c] = Unset BY <1>1, <3>1, <3>2, <3>4 DEF RunIInv
    <3>3. CASE lastRun[c] # Unset
      <4>1. clock - lastRun[c] > CooldownTtl \/ clock - lastRun[c] >= Cooldown * Mult
        <5>1. Cooldown * Mult \in Int BY CommandGateAssumption DEF Mult
        <5> QED BY <1>1, <3>1, <3>3, <5>1, CommandGateAssumption DEF Cooling, RunIInv
      <4>2. Cooldown * Mult \in Int BY CommandGateAssumption DEF Mult
      <4>3. clock - lastRun[c] >= Cooldown * Mult
        <5>1. clock - lastRun[c] \in Int BY <1>1, <3>1 DEF RunIInv
        <5> QED BY <4>1, <4>2, <5>1, EntryOutlivesCooldown, CommandGateAssumption
      <4> QED BY <1>1, <3>1, <3>4, <4>3 DEF RunIInv
    <3> QED BY <3>2, <3>3
  <2>2. CASE UNCHANGED begun BY <2>2
  <2>3. UNCHANGED begun \/ \E d \in Dialogs : Begins(d)
    BY <1>1 DEF GateNext, gateVars, ClockTicks, SlowDown, Passes, Dropped, Busy, CoolsDown, LateEnds, Succeeds, Crashes,
                DeadlinePasses, Records, SpendsBot, runVars, historyVars
  <2> QED BY <2>1, <2>2, <2>3
<1> QED BY <1>1, RunAlways, PTL DEF GateSpec, RunsApart

\* What the history of a bucket's tokens says beside the bucket: nothing was spent after
\* it was last touched; what was spent since any tick of its life and what it has left
\* are at most a full bucket and the refills; and so is what was spent before it was
\* made, in a time as long as a bucket lives, because one that expired covers that.
BucketCounts(k) ==
  LET b == bucket[k]
      total == spent[k][MaxClock + 1]
  IN IF b.born = Unset
       THEN \A t \in Ticks : spent[k][t] = 0
       ELSE /\ b.born <= b.ts /\ b.ts <= clock /\ b.ts - b.born <= BucketTtl
            /\ \A t \in Ticks : t > b.ts => spent[k][t] = total
            /\ \A a \in b.born .. b.ts :
                 total - spent[k][a] + b.tokens <= CapacityOf(k) + RefillOf(k) * (b.ts - a)
            /\ \A a \in 0 .. b.born :
                 a >= b.born - BucketTtl =>
                   spent[k][b.born] - spent[k][a] <= CapacityOf(k) + RefillOf(k) * (b.born - a)

\* No notice is younger than the entry, which counts all that its time may hold.
NoticesCounted ==
  LET total == posted[MaxClock + 1] IN
  /\ posts.at <= clock
  /\ \A t \in Ticks : t > posts.at => posted[t] = total
  /\ \A a \in 0 .. posts.at : a >= posts.at - PostTtl => total - posted[a] <= posts.count
  /\ PostsBounded

GateIInv == GateTypeOK /\ (\A k \in BucketKeys : BucketCounts(k)) /\ NoticesCounted

LEMMA Refills ==
  ASSUME NEW r \in Nat, NEW x \in Int, NEW y \in Int
  PROVE  /\ r * x \in Int /\ r * x + r * y = r * (x + y)
         /\ x >= 0 => r * x \in Nat
OBVIOUS

LEMMA Limits ==
  ASSUME NEW k \in BucketKeys
  PROVE  /\ CapacityOf(k) \in Nat /\ RefillOf(k) \in Nat /\ BucketTtl \in Nat /\ MaxClock \in Nat
         /\ Ticks \subseteq Nat /\ MaxClock + 1 \in Ticks
BY CommandGateAssumption DEF CapacityOf, RefillOf, Ticks

LEMMA BucketOf ==
  ASSUME GateTypeOK, NEW k \in BucketKeys
  PROVE  /\ bucket[k] \in [tokens : 0 .. CapacityOf(k), ts : Clock, born : {Unset} \union Clock]
         /\ bucket[k].tokens \in Nat /\ bucket[k].tokens <= CapacityOf(k)
         /\ bucket[k].ts \in Nat /\ bucket[k].ts <= MaxClock
         /\ bucket[k].born \in Int /\ (bucket[k].born = Unset \/ bucket[k].born \in Nat)
         /\ clock \in Nat /\ clock <= MaxClock
         /\ spent[k] \in [Ticks -> Nat]
BY Limits DEF GateTypeOK, Clock, Unset

\* A bucket that is asked for n tokens.
LEMMA BucketMoves ==
  ASSUME GateTypeOK, NEW k \in BucketKeys, BucketCounts(k), NEW n \in Nat, clock' = clock,
         bucket'[k] = Consumed(k, n),
         spent'[k] = IF Consumes(k, n) THEN More(spent[k], n) ELSE spent[k]
  PROVE  /\ bucket'[k] \in [tokens : 0 .. CapacityOf(k), ts : Clock, born : {Unset} \union Clock]
         /\ spent'[k] \in [Ticks -> Nat]
         /\ BucketCounts(k)'
<1> DEFINE b == bucket[k]
           new == bucket'[k]
           h == spent[k]
           H == spent'[k]
           total == h[MaxClock + 1]
           Total == H[MaxClock + 1]
           C == CapacityOf(k)
           R == RefillOf(k)
           paid == IF Consumes(k, n) THEN n ELSE 0
           gone == b.born = Unset \/ clock - b.born > BucketTtl
           topped == IF gone THEN C ELSE Least(C, b.tokens + R * (clock - b.ts))
<1>1. /\ C \in Nat /\ R \in Nat /\ BucketTtl \in Nat /\ MaxClock \in Nat /\ Ticks \subseteq Nat /\ MaxClock + 1 \in Ticks
      /\ b \in [tokens : 0 .. C, ts : Clock, born : {Unset} \union Clock]
      /\ b.tokens \in Nat /\ b.tokens <= C /\ b.ts \in Nat /\ b.ts <= MaxClock
      /\ b.born \in Int /\ (b.born = Unset \/ b.born \in Nat) /\ clock \in Nat /\ clock <= MaxClock
      /\ h \in [Ticks -> Nat] /\ clock \in Clock
  BY Limits, BucketOf DEF Clock
<1>2. b.born # Unset => b.born <= b.ts /\ b.ts <= clock /\ b.ts - b.born <= BucketTtl
  BY DEF BucketCounts
<1>3. gone \/ clock - b.ts \in Nat
  BY <1>1, <1>2
<1>4. topped \in Nat /\ topped <= C
  <2>1. CASE gone
    BY <1>1, <2>1
  <2>2. CASE ~gone
    <3>1. R * (clock - b.ts) \in Nat
      BY <1>1, <1>3, <2>2, Refills
    <3> HIDE DEF gone, b, C, R
    <3> QED
      BY <1>1, <2>2, <3>1 DEF Least
  <2> QED
    BY <2>1, <2>2
<1>5. /\ Refilled(k).tokens = topped /\ Refilled(k).ts = clock
      /\ Refilled(k).born = (IF gone THEN clock ELSE b.born)
      /\ Refilled(k) \in [tokens : 0 .. C, ts : Clock, born : {Unset} \union Clock]
  <2>1. CASE gone
    BY <1>1, <2>1 DEF Refilled
  <2>2. CASE ~gone
    <3>1. Refilled(k) = [b EXCEPT !.tokens = topped, !.ts = clock]
      BY <1>1, <2>2 DEF Refilled
    <3>2. topped \in 0 .. C
      BY <1>1, <1>4
    <3> HIDE DEF gone, b, topped, C
    <3> QED
      BY <1>1, <2>2, <3>1, <3>2
  <2> QED
    BY <2>1, <2>2
<1>6. paid \in Nat /\ paid <= topped /\ (Consumes(k, n) <=> topped >= n)
  BY <1>4, <1>5 DEF Consumes
<1>7. /\ new \in [tokens : 0 .. C, ts : Clock, born : {Unset} \union Clock]
      /\ new.tokens = topped - paid /\ new.ts = clock /\ new.born = (IF gone THEN clock ELSE b.born)
  <2>1. CASE Consumes(k, n)
    <3>1. new = [Refilled(k) EXCEPT !.tokens = topped - n]
      BY <1>4, <1>5, <1>6, <2>1 DEF Consumed
    <3>2. topped - n \in 0 .. C
      BY <1>1, <1>4, <1>6, <2>1
    <3> HIDE DEF gone, topped, new, b, C
    <3> QED
      BY <1>5, <2>1, <3>1, <3>2
  <2>2. CASE ~Consumes(k, n)
    <3>1. new = Refilled(k)
      BY <1>4, <1>5, <1>6, <2>2 DEF Consumed
    <3> HIDE DEF gone, topped, new, b, C
    <3> QED
      BY <1>4, <1>5, <2>2, <3>1
  <2> QED
    BY <2>1, <2>2
<1>8. /\ H \in [Ticks -> Nat]
      /\ \A t \in Ticks : H[t] = IF t > clock THEN h[t] + paid ELSE h[t]
  <2>1. CASE Consumes(k, n)
    <3>1. H = [t \in Ticks |-> IF t > clock THEN h[t] + n ELSE h[t]]
      BY <2>1 DEF More
    <3> HIDE DEF H, h
    <3> QED
      BY <1>1, <2>1, <3>1
  <2>2. CASE ~Consumes(k, n)
    <3>1. H = h /\ paid = 0
      BY <2>2
    <3>2. h \in [Ticks -> Nat] /\ \A t \in Ticks : h[t] \in Nat
      BY <1>1
    <3>3. \A x \in Nat : x + 0 = x
      OBVIOUS
    <3> HIDE DEF H, h, paid
    <3> QED
      BY <3>1, <3>2, <3>3
  <2> QED
    BY <2>1, <2>2
<1> HIDE DEF b, new, h, H, C, R, paid, topped
<1>9. CASE gone
  <2>1. new.born = clock /\ new.ts = clock /\ topped = C /\ new.tokens = C - paid /\ clock # Unset
    BY <1>1, <1>7, <1>9 DEF topped, Unset
  <2>2. \A t \in Ticks : t >= clock => h[t] = total
    <3>1. CASE b.born = Unset
      BY <1>1, <3>1 DEF BucketCounts, b, h
    <3>2. CASE b.born # Unset
      <4>1. b.ts < clock
        BY <1>1, <1>2, <1>9, <3>2
      <4>2. \A t \in Ticks : t > b.ts => h[t] = total
        BY <3>2 DEF BucketCounts, b, h
      <4> QED
        BY <1>1, <4>1, <4>2
    <3> QED
      BY <3>1, <3>2
  <2>3. clock \in Ticks
    BY <1>1 DEF Ticks
  <2>4. Total = total + paid /\ total \in Nat
    BY <1>1, <1>8
  <2>5. \A t \in Ticks : t > clock => H[t] = Total
    BY <1>1, <1>8, <2>2, <2>4
  <2>6. \A a \in clock .. clock : Total - H[a] + new.tokens <= C + R * (clock - a)
    <3>1. R * (clock - clock) = 0
      BY <1>1
    <3> HIDE DEF total, Total
    <3> QED
      BY <1>1, <1>6, <1>8, <2>1, <2>2, <2>3, <2>4, <3>1
  <2>7. ASSUME NEW a \in 0 .. clock, a >= clock - BucketTtl
        PROVE  H[clock] - H[a] <= C + R * (clock - a)
    <3>1. a \in Ticks /\ a \in Nat /\ clock - a \in Nat
      BY <1>1 DEF Ticks
    <3>2. H[clock] = total /\ H[a] = h[a] /\ h[a] \in Nat /\ total \in Nat
      BY <1>1, <1>8, <2>2, <2>3, <3>1
    <3>3. R * (clock - a) \in Nat
      BY <1>1, <3>1, Refills
    <3>4. CASE b.born = Unset
      <4>1. h[a] = 0 /\ total = 0
        BY <1>1, <3>1, <3>4 DEF BucketCounts, b, h
      <4> HIDE DEF total
      <4> QED
        BY <1>1, <3>2, <3>3, <4>1
    <3>5. CASE b.born # Unset /\ a > b.ts
      <4>1. h[a] = total
        BY <3>1, <3>5 DEF BucketCounts, b, h
      <4> HIDE DEF total
      <4> QED
        BY <1>1, <3>2, <3>3, <4>1
    <3>6. CASE b.born # Unset /\ a <= b.ts
      <4>1. a \in b.born .. b.ts
        BY <1>1, <1>9, <2>7, <3>1, <3>6
      <4>2. total - h[a] + b.tokens <= C + R * (b.ts - a)
        BY <3>6, <4>1 DEF BucketCounts, b, h, C, R
      <4>3. R * (b.ts - a) + R * (clock - b.ts) = R * ((b.ts - a) + (clock - b.ts))
        BY <1>1, <3>1, Refills
      <4>4. (b.ts - a) + (clock - b.ts) = clock - a /\ clock - b.ts \in Nat
        BY <1>1, <1>2, <3>1, <3>6
      <4>5. R * (clock - b.ts) \in Nat /\ R * (b.ts - a) \in Int
        BY <1>1, <3>1, <4>4, Refills
      <4> HIDE DEF total
      <4> QED
        BY <1>1, <3>2, <3>3, <4>2, <4>3, <4>4, <4>5
    <3> QED
      BY <1>1, <3>1, <3>4, <3>5, <3>6
  <2>8. BucketCounts(k)'
    BY <1>1, <2>1, <2>5, <2>6, <2>7 DEF BucketCounts, new, H, C, R, CapacityOf, RefillOf
  <2> QED
    BY <1>7, <1>8, <2>8 DEF new, H, C
<1>10. CASE ~gone
  <2>1. /\ new.born = b.born /\ new.ts = clock /\ new.tokens = topped - paid
        /\ b.born # Unset /\ clock - b.born <= BucketTtl /\ b.born <= b.ts /\ b.ts <= clock /\ b.born \in Nat
    BY <1>1, <1>2, <1>7, <1>10
  <2>2. \A t \in Ticks : t > b.ts => h[t] = total
    BY <2>1 DEF BucketCounts, b, h
  <2>3. Total = total + paid /\ total \in Nat
    BY <1>1, <1>8
  <2>4. \A t \in Ticks : t > clock => H[t] = Total
    <3>1. \A t \in Ticks : t > clock => t > b.ts
      BY <1>1, <2>1
    <3>2. \A t \in Ticks : t > clock => H[t] = h[t] + paid
      BY <1>8
    <3> HIDE DEF total, Total
    <3> QED
      BY <2>2, <2>3, <3>1, <3>2
  <2>5. topped <= C /\ topped <= b.tokens + R * (clock - b.ts) /\ R * (clock - b.ts) \in Nat
    <3>1. R * (clock - b.ts) \in Nat
      BY <1>1, <2>1, Refills
    <3>2. topped = Least(C, b.tokens + R * (clock - b.ts))
      BY <1>10 DEF topped
    <3> QED
      BY <1>1, <3>1, <3>2 DEF Least
  <2>6. ASSUME NEW a \in b.born .. clock
        PROVE  Total - H[a] + new.tokens <= C + R * (clock - a)
    <3>1. a \in Ticks /\ a \in Nat /\ clock - a \in Nat
      BY <1>1, <2>1 DEF Ticks
    <3>2. H[a] = h[a] /\ h[a] \in Nat
      BY <1>1, <1>8, <3>1
    <3>3. R * (clock - a) \in Nat
      BY <1>1, <3>1, Refills
    <3>4. CASE a > b.ts
      <4>1. h[a] = total
        BY <2>2, <3>1, <3>4
      <4> HIDE DEF total, Total
      <4> QED
        BY <1>1, <1>4, <1>6, <2>1, <2>3, <2>5, <3>2, <3>3, <4>1
    <3>5. CASE a <= b.ts
      <4>1. a \in b.born .. b.ts
        BY <1>1, <2>1, <3>5
      <4>2. total - h[a] + b.tokens <= C + R * (b.ts - a)
        BY <2>1, <4>1 DEF BucketCounts, b, h, C, R
      <4>3. R * (b.ts - a) + R * (clock - b.ts) = R * ((b.ts - a) + (clock - b.ts))
        BY <1>1, <3>1, Refills
      <4>4. (b.ts - a) + (clock - b.ts) = clock - a
        BY <1>1, <3>1
      <4>5. R * (b.ts - a) \in Int
        BY <1>1, <3>1, Refills
      <4> DEFINE part1 == R * (b.ts - a)
                 part2 == R * (clock - b.ts)
                 whole == R * (clock - a)
      <4>6. part1 \in Int /\ part2 \in Nat /\ whole \in Nat
        BY <2>5, <3>3, <4>5
      <4>7. whole = part1 + part2
        BY <4>3, <4>4
      <4>8. total - h[a] + b.tokens <= C + part1 /\ topped <= b.tokens + part2
        BY <2>5, <4>2
      <4> HIDE DEF total, Total, part1, part2
      <4>9. Total - H[a] + new.tokens <= C + whole
        <5> HIDE DEF whole
        <5>1. new.tokens = topped - paid /\ Total = total + paid /\ H[a] = h[a]
          BY <2>1, <2>3, <3>2
        <5>2. topped \in Int /\ paid \in Int /\ total \in Int /\ h[a] \in Int /\ C \in Int /\ b.tokens \in Int
          BY <1>1, <1>4, <1>6, <2>3, <3>2
        <5>3. Total - H[a] + new.tokens = (total - h[a]) + topped
          BY <5>1, <5>2
        <5> QED
          BY <4>6, <4>7, <4>8, <5>2, <5>3
      <4> QED
        BY <4>9
    <3> QED
      BY <1>1, <3>1, <3>4, <3>5
  <2>7. ASSUME NEW a \in 0 .. b.born, a >= b.born - BucketTtl
        PROVE  H[b.born] - H[a] <= C + R * (b.born - a)
    <3>1. a \in Ticks /\ b.born \in Ticks /\ a <= clock /\ b.born <= clock
      <4>1. a \in Nat /\ a <= b.born /\ b.born \in Nat /\ b.born <= clock /\ clock \in Nat /\ clock <= MaxClock
        BY <1>1, <2>1
      <4>2. MaxClock \in Nat
        BY <1>1
      <4> QED
        BY <4>1, <4>2 DEF Ticks
    <3>2. H[a] = h[a] /\ H[b.born] = h[b.born]
      BY <1>1, <1>8, <3>1
    <3>3. h[b.born] - h[a] <= C + R * (b.born - a)
      BY <2>1, <2>7 DEF BucketCounts, b, h, C, R
    <3> QED
      BY <3>2, <3>3
  <2>8. BucketCounts(k)'
    BY <1>1, <2>1, <2>4, <2>6, <2>7 DEF BucketCounts, new, H, C, R, CapacityOf, RefillOf
  <2> QED
    BY <1>7, <1>8, <2>8 DEF new, H, C
<1> QED
  BY <1>9, <1>10

\* A step that leaves the bucket alone.
LEMMA BucketRests ==
  ASSUME GateTypeOK, NEW k \in BucketKeys, BucketCounts(k), clock' \in Nat, clock' >= clock,
         bucket'[k] = bucket[k], spent'[k] = spent[k]
  PROVE  BucketCounts(k)'
<1>1. bucket[k].ts \in Nat /\ clock \in Nat
  BY BucketOf
<1> QED
  BY <1>1 DEF BucketCounts, CapacityOf, RefillOf

LEMMA BucketBounds ==
  ASSUME GateTypeOK, NEW k \in BucketKeys, BucketCounts(k), NEW a \in 0 .. clock, clock - a <= BucketTtl
  PROVE  Within(spent[k], a, clock)
           <= CapacityOf(k) * (IF bucket[k].born >= a THEN 2 ELSE 1) + RefillOf(k) * (clock - a)
<1> DEFINE b == bucket[k]
           h == spent[k]
           total == h[MaxClock + 1]
           C == CapacityOf(k)
           R == RefillOf(k)
<1>1. /\ C \in Nat /\ R \in Nat /\ BucketTtl \in Nat /\ MaxClock \in Nat /\ Ticks \subseteq Nat /\ MaxClock + 1 \in Ticks
      /\ b.tokens \in Nat /\ b.tokens <= C /\ b.ts \in Nat /\ b.ts <= MaxClock
      /\ b.born \in Int /\ (b.born = Unset \/ b.born \in Nat) /\ clock \in Nat /\ clock <= MaxClock
      /\ h \in [Ticks -> Nat]
  BY Limits, BucketOf
<1>2. a \in Ticks /\ clock + 1 \in Ticks /\ a \in Nat /\ clock - a \in Nat /\ Unset = -1
  BY <1>1 DEF Ticks, Unset
<1>3. R * (clock - a) \in Nat /\ h[a] \in Nat /\ total \in Nat
  BY <1>1, <1>2, Refills
<1>4. C * 2 = C + C /\ C * 1 = C
  BY <1>1
<1>5. CASE b.born = Unset
  <2>1. h[clock + 1] = 0 /\ h[a] = 0
    BY <1>2, <1>5 DEF BucketCounts
  <2>2. ~(b.born >= a)
    BY <1>2, <1>5
  <2> HIDE DEF b, h, C, R
  <2> QED
    BY <1>1, <1>3, <1>4, <2>1, <2>2 DEF Within, b, h, C, R
<1>6. CASE b.born # Unset
  <2>1. /\ b.born <= b.ts /\ b.ts <= clock /\ b.born \in Nat
        /\ \A t \in Ticks : t > b.ts => h[t] = total
    BY <1>1, <1>6 DEF BucketCounts
  <2>2. h[clock + 1] = total
    BY <1>1, <1>2, <2>1
  <2>3. ASSUME NEW x \in b.born .. b.ts
        PROVE  /\ total - h[x] <= C + R * (b.ts - x)
               /\ R * (b.ts - x) <= R * (clock - x) /\ R * (b.ts - x) \in Nat /\ h[x] \in Nat /\ x \in Nat
    <3>1. total - h[x] + b.tokens <= C + R * (b.ts - x)
      BY <1>6 DEF BucketCounts
    <3>2. x \in Nat /\ x \in Ticks /\ b.ts - x \in Nat /\ clock - b.ts \in Nat
      <4>1. x \in Nat /\ x <= b.ts /\ b.ts - x \in Nat /\ clock - b.ts \in Nat
        BY <1>1, <2>1
      <4> QED
        BY <1>1, <4>1 DEF Ticks
    <3>3. R * (b.ts - x) \in Nat /\ R * (clock - b.ts) \in Nat
      BY <1>1, <3>2, Refills
    <3>4. R * (b.ts - x) + R * (clock - b.ts) = R * ((b.ts - x) + (clock - b.ts))
      BY <1>1, <3>2, Refills
    <3>5. (b.ts - x) + (clock - b.ts) = clock - x
      BY <1>1, <3>2
    <3>6. h[x] \in Nat
      BY <1>1, <3>2
    <3> HIDE DEF b, h, C, R, total
    <3> QED
      BY <1>1, <1>3, <3>1, <3>2, <3>3, <3>4, <3>5, <3>6
  <2>4. CASE a > b.ts
    <3>1. h[a] = total /\ ~(b.born >= a)
      BY <1>1, <1>2, <2>1, <2>4
    <3> HIDE DEF total
    <3> QED
      BY <1>1, <1>3, <1>4, <2>2, <3>1 DEF Within
  <2>5. CASE b.born < a /\ a <= b.ts
    <3>1. a \in b.born .. b.ts /\ ~(b.born >= a)
      BY <1>1, <1>2, <2>5
    <3>2. total - h[a] <= C + R * (b.ts - a) /\ R * (b.ts - a) <= R * (clock - a) /\ R * (b.ts - a) \in Nat
      BY <2>3, <3>1
    <3> HIDE DEF b, h, C, R, total
    <3>3. h[clock + 1] - h[a] <= C * 1 + R * (clock - a)
      BY <1>1, <1>3, <1>4, <2>2, <3>2
    <3> QED
      BY <3>1, <3>3 DEF Within, b, h, C, R
  <2>6. CASE a <= b.born
    <3>1. b.born \in b.born .. b.ts /\ a \in 0 .. b.born /\ a >= b.born - BucketTtl /\ b.born >= a
      BY <1>1, <1>2, <2>1, <2>6
    <3>2. /\ total - h[b.born] <= C + R * (b.ts - b.born) /\ R * (b.ts - b.born) <= R * (clock - b.born)
          /\ R * (b.ts - b.born) \in Nat /\ h[b.born] \in Nat
      BY <2>3, <3>1
    <3>3. h[b.born] - h[a] <= C + R * (b.born - a)
      BY <1>6, <3>1 DEF BucketCounts
    <3>4. R * (clock - b.born) + R * (b.born - a) = R * ((clock - b.born) + (b.born - a))
      BY <1>1, <1>2, Refills
    <3>5. (clock - b.born) + (b.born - a) = clock - a
      BY <1>1, <1>2
    <3>6. R * (clock - b.born) \in Int /\ R * (b.born - a) \in Int
      BY <1>1, <1>2, Refills
    <3> HIDE DEF b, h, C, R, total
    <3>7. h[clock + 1] - h[a] <= C * 2 + R * (clock - a)
      BY <1>1, <1>3, <1>4, <2>2, <3>2, <3>3, <3>4, <3>5, <3>6
    <3> QED
      BY <3>1, <3>7 DEF Within, b, h, C, R
  <2> QED
    BY <1>1, <1>2, <2>4, <2>5, <2>6
<1> QED
  BY <1>5, <1>6

LEMMA NoticeTypes ==
  ASSUME GateTypeOK
  PROVE  /\ posts.count \in Nat /\ posts.count <= MaxPosts /\ posts.at \in Nat /\ posts.at <= MaxClock
         /\ clock \in Nat /\ clock <= MaxClock /\ posted \in [Ticks -> Nat]
         /\ PostTtl \in Nat /\ MaxPosts \in Nat /\ MaxClock \in Nat
         /\ Ticks \subseteq Nat /\ \A t \in Nat : t <= MaxClock + 1 => t \in Ticks
BY CommandGateAssumption DEF GateTypeOK, Clock, Ticks

LEMMA NoticesRest ==
  ASSUME GateTypeOK, NoticesCounted, UNCHANGED <<posts, posted, clock>>
  PROVE  NoticesCounted'
BY DEF NoticesCounted, PostsBounded, Within, Least

LEMMA NoticesTick ==
  ASSUME GateTypeOK, NoticesCounted, UNCHANGED <<posts, posted>>, clock < MaxClock, clock' = clock + 1
  PROVE  NoticesCounted'
<1> DEFINE total == posted[MaxClock + 1]
<1>1. /\ posts.count \in Nat /\ posts.count <= MaxPosts /\ posts.at \in Nat /\ posts.at <= MaxClock
      /\ clock \in Nat /\ clock <= MaxClock /\ posted \in [Ticks -> Nat]
      /\ PostTtl \in Nat /\ MaxPosts \in Nat /\ MaxClock \in Nat
      /\ Ticks \subseteq Nat /\ \A t \in Nat : t <= MaxClock + 1 => t \in Ticks
  BY NoticeTypes
<1>2. posts.at <= clock /\ \A t \in Ticks : t > posts.at => posted[t] = total
  BY DEF NoticesCounted
<1>3. posted[clock + 1] = total /\ posted[clock + 2] = total /\ total \in Nat
  BY <1>1, <1>2
<1>4. ASSUME NEW a \in 0 .. clock + 1
      PROVE  Within(posted, a, Least(a + PostTtl, clock + 1)) <= MaxPosts
  <2>1. CASE a = clock + 1
    <3>1. Least(a + PostTtl, clock + 1) = clock + 1
      BY <1>1, <2>1 DEF Least
    <3> HIDE DEF total
    <3> QED
      BY <1>1, <1>3, <2>1, <3>1 DEF Within
  <2>2. CASE a # clock + 1
    <3>1. a \in 0 .. clock
      BY <1>1, <2>2
    <3>2. Within(posted, a, Least(a + PostTtl, clock)) <= MaxPosts
      BY <3>1 DEF NoticesCounted, PostsBounded
    <3>3. CASE a + PostTtl < clock + 1
      <4>1. Least(a + PostTtl, clock + 1) = Least(a + PostTtl, clock)
        BY <1>1, <3>1, <3>3 DEF Least
      <4> QED
        BY <3>2, <4>1
    <3>4. CASE ~(a + PostTtl < clock + 1)
      <4>1. Least(a + PostTtl, clock + 1) = clock + 1 /\ Least(a + PostTtl, clock) = clock
        BY <1>1, <3>1, <3>4 DEF Least
      <4>2. (clock + 1) + 1 = clock + 2
        BY <1>1
      <4> QED
        BY <1>3, <3>2, <4>1, <4>2 DEF Within
    <3> QED
      BY <3>3, <3>4
  <2> QED
    BY <2>1, <2>2
<1>5. PostsBounded'
  BY <1>4 DEF PostsBounded, Within, Least
<1> QED
  BY <1>1, <1>2, <1>5 DEF NoticesCounted

LEMMA NoticePosted ==
  ASSUME GateTypeOK, NoticesCounted, PostsCrash, clock' = clock
  PROVE  /\ posts' \in [count : 0 .. MaxPosts, at : Clock] /\ posted' \in [Ticks -> Nat]
         /\ NoticesCounted'
<1> DEFINE total == posted[MaxClock + 1]
<1>1. /\ posts.count \in Nat /\ posts.count <= MaxPosts /\ posts.at \in Nat /\ posts.at <= MaxClock
      /\ clock \in Nat /\ clock <= MaxClock /\ posted \in [Ticks -> Nat]
      /\ PostTtl \in Nat /\ MaxPosts \in Nat /\ MaxClock \in Nat
      /\ Ticks \subseteq Nat /\ \A t \in Nat : t <= MaxClock + 1 => t \in Ticks
  BY NoticeTypes
<1>2. /\ posts.at <= clock /\ \A t \in Ticks : t > posts.at => posted[t] = total
      /\ \A a \in 0 .. posts.at : a >= posts.at - PostTtl => total - posted[a] <= posts.count
  BY DEF NoticesCounted
<1>3. CASE ~(Posts < MaxPosts)
  BY <1>3, NoticesRest DEF PostsCrash, GateTypeOK
<1>4. CASE Posts < MaxPosts
  <2>1. posts' = [count |-> Posts + 1, at |-> clock] /\ posted' = More(posted, 1)
    BY <1>4 DEF PostsCrash
  <2>2. Posts \in Nat
    BY <1>1 DEF Posts
  <2>3. /\ posts' \in [count : 0 .. MaxPosts, at : Clock] /\ posts'.count = Posts + 1 /\ posts'.at = clock
    BY <1>1, <1>4, <2>1, <2>2 DEF Clock
  <2>4. /\ posted' \in [Ticks -> Nat]
        /\ \A t \in Ticks : posted'[t] = IF t > clock THEN posted[t] + 1 ELSE posted[t]
    BY <1>1, <2>1 DEF More
  <2>5. posted'[MaxClock + 1] = total + 1 /\ total \in Nat
    BY <1>1, <2>4
  <2>6. \A t \in Ticks : t > clock => posted'[t] = posted'[MaxClock + 1]
    BY <1>1, <1>2, <2>4, <2>5
  <2>7. ASSUME NEW a \in 0 .. clock, a >= clock - PostTtl
        PROVE  posted'[MaxClock + 1] - posted'[a] <= Posts + 1
    <3>1. a \in Ticks /\ posted'[a] = posted[a] /\ posted[a] \in Nat /\ a \in Nat
      BY <1>1, <2>4
    <3>2. CASE a > posts.at
      <4>1. posted[a] = total
        BY <1>2, <3>1, <3>2
      <4> HIDE DEF total
      <4> QED
        BY <2>2, <2>5, <3>1, <4>1
    <3>3. CASE a <= posts.at
      <4>1. a \in 0 .. posts.at /\ a >= posts.at - PostTtl /\ ~(clock - posts.at > PostTtl)
        BY <1>1, <1>2, <2>7, <3>1, <3>3
      <4>2. total - posted[a] <= posts.count
        BY <1>2, <4>1
      <4>3. Posts = posts.count
        BY <4>1 DEF Posts
      <4> HIDE DEF total
      <4> QED
        BY <1>1, <2>5, <3>1, <4>2, <4>3
    <3> QED
      BY <1>1, <3>1, <3>2, <3>3
  <2>8. ASSUME NEW a \in 0 .. clock
        PROVE  Within(posted', a, Least(a + PostTtl, clock)) <= MaxPosts
    <3>1. CASE a + PostTtl < clock
      <4>1. Least(a + PostTtl, clock) = a + PostTtl /\ a + PostTtl + 1 <= clock /\ a + PostTtl + 1 \in Ticks /\ a \in Ticks
        BY <1>1, <3>1 DEF Least
      <4>2. posted'[a + PostTtl + 1] = posted[a + PostTtl + 1] /\ posted'[a] = posted[a]
        BY <1>1, <2>4, <4>1
      <4>3. Within(posted, a, Least(a + PostTtl, clock)) <= MaxPosts
        BY DEF NoticesCounted, PostsBounded
      <4> QED
        BY <4>1, <4>2, <4>3 DEF Within
    <3>2. CASE ~(a + PostTtl < clock)
      <4>1. Least(a + PostTtl, clock) = clock /\ a >= clock - PostTtl
        BY <1>1, <3>2 DEF Least
      <4>2. posted'[clock + 1] = posted'[MaxClock + 1]
        BY <1>1, <2>6
      <4>3. posted'[MaxClock + 1] - posted'[a] <= Posts + 1
        BY <2>7, <4>1
      <4>4. posted'[MaxClock + 1] \in Nat /\ posted'[a] \in Nat
        BY <1>1, <2>4
      <4> QED
        BY <1>1, <1>4, <2>2, <4>1, <4>2, <4>3, <4>4 DEF Within
    <3> QED
      BY <3>1, <3>2
  <2>9. PostsBounded'
    BY <2>8 DEF PostsBounded, Within, Least
  <2>10. NoticesCounted'
    BY <1>1, <2>3, <2>6, <2>7, <2>9 DEF NoticesCounted
  <2> QED
    BY <2>3, <2>4, <2>10
<1> QED
  BY <1>3, <1>4

LEMMA GateStarts == ASSUME GateInit PROVE GateIInv
<1>1. /\ \A k \in BucketKeys : CapacityOf(k) \in Nat
      /\ MaxClock \in Nat /\ PostTtl \in Nat /\ MaxPosts \in Nat /\ MaxAsked \in Nat
  BY Limits, CommandGateAssumption
<1>2. 0 \in Clock /\ Clock \subseteq Nat
  BY <1>1 DEF Clock
<1>3. /\ NoBucket \in [tokens : Nat, ts : Clock, born : {Unset} \union Clock]
      /\ \A k \in BucketKeys : NoBucket.tokens <= CapacityOf(k)
  BY <1>1, <1>2 DEF NoBucket
<1>4. NoPosts \in [count : 0 .. MaxPosts, at : Clock]
  BY <1>1, <1>2 DEF NoPosts
<1>5. /\ spent \in [BucketKeys -> [Ticks -> Nat]] /\ posted \in [Ticks -> Nat]
      /\ begun \in [Dialogs -> Nat] /\ recorded \in [Dialogs -> Nat]
      /\ lastRun \in [Callers -> {Unset} \union Clock] /\ running \in [Dialogs -> {Unset} \union Clock]
      /\ beganAt \in [Callers -> {Unset} \union Clock] /\ passed \subseteq Dialogs /\ late \subseteq Dialogs
  BY DEF GateInit
<1>6. GateTypeOK
  BY <1>1, <1>2, <1>3, <1>4, <1>5 DEF GateInit, GateTypeOK
<1>7. \A k \in BucketKeys : BucketCounts(k)
  BY DEF GateInit, BucketCounts, NoBucket
<1>8. NoticesCounted
  <2>1. \A t \in Ticks : posted[t] = 0
    BY DEF GateInit
  <2>2. MaxClock + 1 \in Ticks /\ 0 \in Ticks /\ 1 \in Ticks /\ clock = 0 /\ posts = NoPosts
    BY <1>1 DEF Ticks, GateInit
  <2>3. Least(0 + PostTtl, 0) = 0
    BY <1>1 DEF Least
  <2>4. PostsBounded
    <3>1. \A a \in 0 .. 0 : a = 0
      OBVIOUS
    <3> QED
      BY <1>1, <2>1, <2>2, <2>3, <3>1 DEF PostsBounded, Within
  <2> QED
    BY <1>1, <2>1, <2>2, <2>4 DEF NoticesCounted, NoPosts
<1> QED
  BY <1>6, <1>7, <1>8 DEF GateIInv

\* What each of the history's and the runs' variables may be, when a request goes on.
LEMMA RequestKeepsGate ==
  ASSUME GateIInv, clock' = clock, admins' = admins, askedNow' \in 0 .. MaxAsked,
         \A k \in BucketKeys :
           \/ bucket'[k] = bucket[k] /\ spent'[k] = spent[k]
           \/ \E n \in Nat : /\ bucket'[k] = Consumed(k, n)
                             /\ spent'[k] = IF Consumes(k, n) THEN More(spent[k], n) ELSE spent[k],
         spent' = [k \in BucketKeys |-> spent'[k]], bucket' = [k \in BucketKeys |-> bucket'[k]],
         passed' \subseteq Dialogs,
         lastRun' \in [Callers -> {Unset} \union Clock], running' \in [Dialogs -> {Unset} \union Clock],
         beganAt' \in [Callers -> {Unset} \union Clock], begun' \in [Dialogs -> Nat],
         UNCHANGED <<posts, late, recorded, posted>>
  PROVE  GateIInv'
<1>1. GateTypeOK /\ NoticesCounted /\ clock' = clock /\ admins' = admins
  BY DEF GateIInv
<1>2. ASSUME NEW k \in BucketKeys
      PROVE  /\ bucket'[k] \in [tokens : 0 .. CapacityOf(k), ts : Clock, born : {Unset} \union Clock]
             /\ spent'[k] \in [Ticks -> Nat] /\ BucketCounts(k)'
  <2>1. BucketCounts(k)
    BY DEF GateIInv
  <2>2. CASE bucket'[k] = bucket[k] /\ spent'[k] = spent[k]
    <3>1. clock \in Nat
      BY <1>1, BucketOf
    <3>2. clock' \in Nat /\ clock' >= clock
      BY <1>1, <3>1
    <3> QED
      BY <1>1, <2>1, <2>2, <3>2, BucketRests, BucketOf
  <2>3. CASE \E n \in Nat : /\ bucket'[k] = Consumed(k, n)
                           /\ spent'[k] = IF Consumes(k, n) THEN More(spent[k], n) ELSE spent[k]
    BY <1>1, <2>1, <2>3, BucketMoves
  <2> QED
    BY <2>2, <2>3
<1>4. spent' \in [BucketKeys -> [Ticks -> Nat]]
  BY <1>2
<1>4a. /\ bucket' \in [BucketKeys -> [tokens : Nat, ts : Clock, born : {Unset} \union Clock]]
       /\ \A k \in BucketKeys : bucket'[k].tokens <= CapacityOf(k)
  <2>1. ASSUME NEW k \in BucketKeys
        PROVE  bucket'[k] \in [tokens : Nat, ts : Clock, born : {Unset} \union Clock] /\ bucket'[k].tokens <= CapacityOf(k)
    BY <1>2, Limits
  <2> QED
    BY <2>1
<1>5. GateTypeOK'
  BY <1>1, <1>4, <1>4a DEF GateTypeOK, CapacityOf
<1>6. NoticesCounted'
  BY <1>1, NoticesRest
<1> QED
  BY <1>2, <1>5, <1>6 DEF GateIInv

\* One bucket is asked for n tokens.
LEMMA OneAsked ==
  ASSUME GateIInv, NEW o \in BucketKeys, NEW n \in Nat,
         bucket' = [bucket EXCEPT ![o] = Consumed(o, n)],
         spent' = IF Consumes(o, n) THEN [spent EXCEPT ![o] = More(@, n)] ELSE spent,
         clock' = clock, admins' = admins, askedNow' \in 0 .. MaxAsked, passed' \subseteq Dialogs,
         lastRun' \in [Callers -> {Unset} \union Clock], running' \in [Dialogs -> {Unset} \union Clock],
         beganAt' \in [Callers -> {Unset} \union Clock], begun' \in [Dialogs -> Nat],
         UNCHANGED <<posts, late, recorded, posted>>
  PROVE  GateIInv'
<1>1. /\ bucket \in [BucketKeys -> [tokens : Nat, ts : Clock, born : {Unset} \union Clock]]
      /\ spent \in [BucketKeys -> [Ticks -> Nat]]
  BY DEF GateIInv, GateTypeOK
<1>2. spent' = [k \in BucketKeys |-> spent'[k]] /\ bucket' = [k \in BucketKeys |-> bucket'[k]]
  BY <1>1
<1>3. ASSUME NEW k \in BucketKeys
      PROVE  \/ bucket'[k] = bucket[k] /\ spent'[k] = spent[k]
             \/ \E m \in Nat : /\ bucket'[k] = Consumed(k, m)
                               /\ spent'[k] = IF Consumes(k, m) THEN More(spent[k], m) ELSE spent[k]
  <2>1. CASE k = o
    <3>1. bucket'[k] = Consumed(k, n)
      BY <1>1, <2>1
    <3>2. spent'[k] = IF Consumes(k, n) THEN More(spent[k], n) ELSE spent[k]
      BY <1>1, <2>1
    <3> QED
      BY <3>1, <3>2
  <2>2. CASE k # o
    BY <1>1, <2>2
  <2> QED
    BY <2>1, <2>2
<1> QED
  BY <1>2, <1>3, RequestKeepsGate

\* The types of what a request finds, and those of a dialog.
LEMMA RequestTypes ==
  ASSUME GateIInv, NEW d \in Dialogs
  PROVE  /\ CallerOf[d] \in Callers /\ CallerOf[d] \in BucketKeys /\ Bot \in BucketKeys /\ 1 \in Nat /\ Mult \in Nat
         /\ clock \in Clock /\ passed \subseteq Dialogs /\ askedNow \in 0 .. MaxAsked
         /\ Asks(d) => askedNow' \in 0 .. MaxAsked
         /\ lastRun \in [Callers -> {Unset} \union Clock] /\ running \in [Dialogs -> {Unset} \union Clock]
         /\ beganAt \in [Callers -> {Unset} \union Clock] /\ begun \in [Dialogs -> Nat]
         /\ bucket = [k \in BucketKeys |-> bucket[k]] /\ spent = [k \in BucketKeys |-> spent[k]]
<1>1. CallerOf[d] \in Callers /\ CallerOf[d] \in BucketKeys /\ Bot \in BucketKeys /\ 1 \in Nat /\ Mult \in Nat
  BY DialogsAssumption, CommandGateAssumption DEF BucketKeys, Mult
<1>2. GateTypeOK
  BY DEF GateIInv
<1>3. askedNow \in 0 .. MaxAsked /\ (Asks(d) => askedNow' \in 0 .. MaxAsked)
  BY <1>2, CommandGateAssumption DEF GateTypeOK, Asks
<1> QED
  BY <1>1, <1>2, <1>3 DEF GateTypeOK

LEMMA AskKeepsGate ==
  ASSUME GateIInv, NEW d \in Dialogs, SlowDown(d) \/ Passes(d)
  PROVE  GateIInv'
<1> DEFINE c == CallerOf[d]
<1> USE DEF runVars, historyVars
<1>1. /\ Asks(d) /\ clock' = clock /\ admins' = admins /\ askedNow' \in 0 .. MaxAsked /\ passed' \subseteq Dialogs
      /\ UNCHANGED <<posts, late, recorded, posted, lastRun, running, beganAt, begun>>
      /\ c \in BucketKeys
  BY RequestTypes DEF SlowDown, Passes, Asks
<1>2. /\ lastRun' \in [Callers -> {Unset} \union Clock] /\ running' \in [Dialogs -> {Unset} \union Clock]
      /\ beganAt' \in [Callers -> {Unset} \union Clock] /\ begun' \in [Dialogs -> Nat]
  BY <1>1, RequestTypes
<1>3. CASE UNCHANGED <<bucket, spent>>
  <2>1. spent' = [k \in BucketKeys |-> spent'[k]] /\ bucket' = [k \in BucketKeys |-> bucket'[k]]
    BY <1>3, RequestTypes
  <2> QED
    BY <1>1, <1>2, <1>3, <2>1, RequestKeepsGate
<1>4. CASE /\ bucket' = [bucket EXCEPT ![c] = Consumed(c, 1)]
           /\ spent' = IF Consumes(c, 1) THEN [spent EXCEPT ![c] = More(@, 1)] ELSE spent
  <2> HIDE DEF c
  <2> QED
    BY <1>1, <1>2, <1>4, OneAsked
<1> QED
  BY <1>3, <1>4 DEF SlowDown, Passes

LEMMA ReachKeepsGate ==
  ASSUME GateIInv, NEW d \in Dialogs, Dropped(d) \/ Busy(d) \/ CoolsDown(d) \/ Begins(d)
  PROVE  GateIInv'
<1> USE DEF runVars, historyVars
<1>1. /\ clock' = clock /\ admins' = admins /\ askedNow' \in 0 .. MaxAsked /\ passed' \subseteq Dialogs
      /\ UNCHANGED <<posts, late, recorded, posted>>
  BY RequestTypes DEF Dropped, Busy, CoolsDown, Begins, SpendsBot, GoesOn
<1>2. /\ lastRun' \in [Callers -> {Unset} \union Clock] /\ running' \in [Dialogs -> {Unset} \union Clock]
      /\ beganAt' \in [Callers -> {Unset} \union Clock] /\ begun' \in [Dialogs -> Nat]
  <2>1. CASE Begins(d)
    BY <2>1, RequestTypes DEF Begins
  <2>2. CASE UNCHANGED runVars
    BY <2>2, RequestTypes
  <2> QED
    BY <2>1, <2>2 DEF Dropped, Busy, CoolsDown
<1>3. CASE UNCHANGED <<bucket, spent>>
  <2>1. spent' = [k \in BucketKeys |-> spent'[k]] /\ bucket' = [k \in BucketKeys |-> bucket'[k]]
    BY <1>3, RequestTypes
  <2> QED
    BY <1>1, <1>2, <1>3, <2>1, RequestKeepsGate
<1>4. CASE /\ bucket' = [bucket EXCEPT ![Bot] = Consumed(Bot, Mult)]
           /\ spent' = IF Consumes(Bot, Mult) THEN [spent EXCEPT ![Bot] = More(@, Mult)] ELSE spent
  <2>1. Bot \in BucketKeys /\ Mult \in Nat
    BY RequestTypes
  <2> QED
    BY <1>1, <1>2, <1>4, <2>1, OneAsked
<1> QED
  BY <1>3, <1>4 DEF Dropped, Busy, CoolsDown, Begins, SpendsBot

\* What touches no bucket.
LEMMA BucketsRest ==
  ASSUME GateIInv, UNCHANGED <<clock, bucket, spent>>
  PROVE  \A k \in BucketKeys : BucketCounts(k)'
BY DEF GateIInv, BucketCounts, CapacityOf, RefillOf

LEMMA OutcomeKeepsGate ==
  ASSUME GateIInv, NEW d \in Dialogs, Succeeds(d) \/ Crashes(d) \/ DeadlinePasses(d) \/ LateEnds(d)
  PROVE  GateIInv'
<1>1. /\ GateTypeOK /\ UNCHANGED <<admins, clock, askedNow, bucket, spent, passed, lastRun, begun, beganAt>>
      /\ PostsCrash \/ UNCHANGED <<posts, posted>>
      /\ late' \subseteq Dialogs
  BY DEF GateIInv, GateTypeOK, Succeeds, Crashes, DeadlinePasses, LateEnds, Records, historyVars
<1>2. running' \in [Dialogs -> {Unset} \union Clock] /\ recorded' \in [Dialogs -> Nat]
  <2>1. running \in [Dialogs -> {Unset} \union Clock] /\ recorded \in [Dialogs -> Nat]
    BY DEF GateIInv, GateTypeOK
  <2>2. CASE Records(d)
    BY <2>1, <2>2 DEF Records
  <2>3. CASE LateEnds(d)
    BY <2>1, <2>3 DEF LateEnds, historyVars
  <2> QED
    BY <2>2, <2>3 DEF Succeeds, Crashes, DeadlinePasses
<1>3. /\ posts' \in [count : 0 .. MaxPosts, at : Clock] /\ posted' \in [Ticks -> Nat]
      /\ NoticesCounted'
  <2>1. CASE PostsCrash
    BY <1>1, <2>1, NoticePosted DEF GateIInv
  <2>2. CASE UNCHANGED <<posts, posted>>
    BY <1>1, <2>2, NoticesRest DEF GateIInv, GateTypeOK
  <2> QED
    BY <1>1, <2>1, <2>2
<1>4. GateTypeOK'
  BY <1>1, <1>2, <1>3 DEF GateTypeOK, CapacityOf
<1> QED
  BY <1>1, <1>3, <1>4, BucketsRest DEF GateIInv

LEMMA GateStep == ASSUME GateIInv, [GateNext]_gateVars PROVE GateIInv'
<1>1. CASE UNCHANGED gateVars
  <2>1. UNCHANGED <<admins, clock, askedNow, bucket, lastRun, posts, passed, running, late, spent, begun, beganAt, recorded, posted>>
    BY <1>1 DEF gateVars
  <2>2. GateTypeOK'
    BY <2>1 DEF GateIInv, GateTypeOK, CapacityOf
  <2> QED
    BY <2>1, <2>2, BucketsRest, NoticesRest DEF GateIInv
<1>2. CASE ClockTicks
  <2>1. /\ clock < MaxClock /\ clock' = clock + 1 /\ askedNow' = 0 /\ GateTypeOK
        /\ UNCHANGED <<admins, bucket, spent, passed, lastRun, posts, running, late, begun, beganAt, recorded, posted>>
    BY <1>2 DEF GateIInv, ClockTicks, runVars, historyVars
  <2>2. clock \in Nat /\ MaxClock \in Nat /\ MaxAsked \in Nat
    BY <2>1, NoticeTypes, CommandGateAssumption
  <2>3. clock' \in Nat /\ clock' >= clock /\ clock' \in Clock /\ askedNow' \in 0 .. MaxAsked
    BY <2>1, <2>2 DEF Clock
  <2>4. GateTypeOK'
    BY <2>1, <2>3 DEF GateTypeOK, CapacityOf
  <2>5. \A k \in BucketKeys : BucketCounts(k)'
    BY <2>1, <2>3, BucketRests DEF GateIInv
  <2>6. NoticesCounted'
    BY <2>1, NoticesTick DEF GateIInv
  <2> QED
    BY <2>4, <2>5, <2>6 DEF GateIInv
<1> QED
  BY <1>1, <1>2, AskKeepsGate, ReachKeepsGate, OutcomeKeepsGate DEF GateNext

\* What the gates let through stays within the buckets, in any time as long as a
\* bucket lives and over the expiry of one (middleware/rateLimit.js, tryConsume), there
\* are no more crash notices than are allowed (commandRunner.js, postCrashToChannel),
\* and a command has one outcome.
THEOREM GatesAreKept == GateSpec => []GateInv
<1>1. GateInit => GateIInv
  BY GateStarts
<1>2. GateIInv /\ [GateNext]_gateVars => GateIInv'
  BY GateStep
<1>3. GateIInv => GateTypeOK /\ BurstBounded /\ PostsBounded
  BY BucketBounds DEF GateIInv, BurstBounded, NoticesCounted
<1>4. RunIInv => RecordedOnce
  BY DEF RunIInv
<1> QED
  BY <1>1, <1>2, <1>3, <1>4, RunAlways, PTL DEF GateSpec, GateInv

-----------------------------------------------------------------------------
(* The rules of the alert engine *)

\* The cooldown of a rule is counted from its last notice, and a rule is on or off.
RulesIInv ==
  /\ ruleMinute \in Int /\ activeRules \in SUBSET Rules
  /\ firedAt \in [Rules -> Int] /\ triggeredAt = firedAt

LEMMA RulesStart == ASSUME RulesInit PROVE RulesIInv
BY AlertRulesAssumption DEF RulesInit, RulesIInv, LongAgo

\* Whatever answer a rule has, only that rule is triggered, and off its cooldown.
LEMMA RuleKeeps ==
  ASSUME RulesIInv, NEW r \in Rules, NEW firing \in BOOLEAN, Rule(r, firing), ruleMinute' = ruleMinute
  PROVE  /\ RulesIInv'
         /\ \A q \in Rules : q \in activeRules' \ activeRules => ruleMinute - triggeredAt[q] >= CooldownMinutes
<1> USE DEF RulesIInv
<1>1. CASE firing /\ r \notin activeRules /\ OffCooldown(r)
  <2>1. activeRules' = activeRules \union {r} /\ firedAt' = [firedAt EXCEPT ![r] = ruleMinute]
    BY <1>1 DEF Rule
  <2>2. triggeredAt' = [q \in Rules |-> IF q \in activeRules' \ activeRules THEN ruleMinute ELSE triggeredAt[q]]
    BY DEF Rule, Tells
  <2>3. triggeredAt' = firedAt' BY <1>1, <2>1, <2>2
  <2>4. ruleMinute - triggeredAt[r] >= CooldownMinutes BY <1>1 DEF OffCooldown
  <2> QED BY <2>1, <2>3, <2>4
<1>2. CASE ~(firing /\ r \notin activeRules /\ OffCooldown(r))
  <2>1. activeRules' \subseteq activeRules /\ firedAt' = firedAt
    BY <1>2 DEF Rule
  <2>2. triggeredAt' = [q \in Rules |-> IF q \in activeRules' \ activeRules THEN ruleMinute ELSE triggeredAt[q]]
    BY DEF Rule, Tells
  <2>3. triggeredAt' = triggeredAt BY <2>1, <2>2
  <2> QED BY <2>1, <2>3
<1> QED BY <1>1, <1>2

LEMMA RulesStep ==
  ASSUME RulesIInv, [RulesNext]_ruleVars
  PROVE  /\ RulesIInv'
         /\ \A q \in Rules : q \in activeRules' \ activeRules => ruleMinute - triggeredAt[q] >= CooldownMinutes
<1> USE DEF RulesIInv
<1>1. CASE UNCHANGED <<activeRules, firedAt, triggeredAt>> /\ ruleMinute' \in {ruleMinute, ruleMinute + 1}
  BY <1>1
<1>2. CASE activeRules' = {} /\ Tells({}) /\ UNCHANGED <<ruleMinute, firedAt>>
  <2>1. triggeredAt' = triggeredAt BY <1>2 DEF Tells
  <2> QED BY <1>2, <2>1
<1>3. ASSUME NEW s \in SweepSlots, CostAnswered(s) 
      PROVE  /\ RulesIInv'
             /\ \A q \in Rules : q \in activeRules' \ activeRules =>
                                 ruleMinute - triggeredAt[q] >= CooldownMinutes
  <2>1. Rule(CostRule, sweeps[s].read = 1) /\ ruleMinute' = ruleMinute BY <1>3 DEF CostAnswered
  <2>2. (sweeps[s].read = 1) \in BOOLEAN /\ CostRule \in Rules BY DEF Rules
  <2> QED BY <2>1, <2>2, RuleKeeps
<1>4. ASSUME NEW s \in SweepSlots, DecayAnswered(s) 
      PROVE  /\ RulesIInv'
             /\ \A q \in Rules : q \in activeRules' \ activeRules =>
                                 ruleMinute - triggeredAt[q] >= CooldownMinutes
  <2>1. Rule(DecayRule, sweeps[s].read > decaySeen) /\ ruleMinute' = ruleMinute BY <1>4 DEF DecayAnswered
  <2>2. (sweeps[s].read > decaySeen) \in BOOLEAN /\ DecayRule \in Rules BY DEF Rules
  <2> QED BY <2>1, <2>2, RuleKeeps
<1>5. \/ UNCHANGED <<activeRules, firedAt, triggeredAt>> /\ ruleMinute' \in {ruleMinute, ruleMinute + 1}
      \/ activeRules' = {} /\ Tells({}) /\ UNCHANGED <<ruleMinute, firedAt>>
      \/ \E s \in SweepSlots : CostAnswered(s) \/ DecayAnswered(s)
  BY DEF RulesNext, RulesWorld, SweepStarts, StoreReads, StoreFails, ruleVars, noticeVars
<1> QED BY <1>1, <1>2, <1>3, <1>4, <1>5

\* A rule is announced once per cooldown (alertEngine.js, the rules of _sweep), though
\* every sweep clears its alert and any number of sweeps wait for the store.
THEOREM RulesRespectCooldown == RulesSpec => RulesKeepCooldown
<1>1. RulesInit => RulesIInv BY RulesStart
<1>2. RulesIInv /\ [RulesNext]_ruleVars => RulesIInv' BY RulesStep
<1>3. RulesIInv /\ [RulesNext]_ruleVars =>
        [\A r \in Rules : r \in activeRules' \ activeRules => ruleMinute - triggeredAt[r] >= CooldownMinutes]_ruleVars
  BY RulesStep
<1> QED BY <1>1, <1>2, <1>3, PTL DEF RulesSpec, RulesKeepCooldown

-----------------------------------------------------------------------------
(* The bridge to Telegram *)

Rising(s) == \A i, j \in 1 .. Len(s) : i < j => s[i] < s[j]

\* The lines of the flushes under way, of which each goes by itself.
Legs == {f.left : f \in flights}
OneFlight == \A f, g \in flights : f.left = g.left => f = g

\* A line that was queued is in one place, and those that wait are in order.
PlacedOnce ==
  /\ Rising(lineBuffer)
  /\ \A s \in Legs : s # <<>> /\ Rising(s)
  /\ \A i, j \in 1 .. Len(arrived) : arrived[i] = arrived[j] => i = j
  /\ \A s, t \in Legs, l \in Lines : l \in ToSet(s) /\ l \in ToSet(t) => s = t
  /\ \A l \in Lines :
       /\ l < next <=> \/ l \in ToSet(lineBuffer) \/ l \in ToSet(arrived) \/ l \in dropped
                       \/ \E s \in Legs : l \in ToSet(s)
       /\ l \in ToSet(lineBuffer) => l \notin ToSet(arrived) /\ l \notin dropped
       /\ \A s \in Legs : l \in ToSet(s) => l \notin ToSet(lineBuffer) /\ l \notin ToSet(arrived) /\ l \notin dropped
       /\ ~(l \in ToSet(arrived) /\ l \in dropped)

\* Lines of one flush are sent by one flight, in order.
InFlushOrder ==
  /\ \A l \in Lines : l \in ToSet(lineBuffer) \/ ~(l < next) => flushOf[l] = 0
  /\ \A l \in Lines : flushOf[l] # 0 => flushOf[l] \in Lines /\ flushOf[flushOf[l]] # 0
  /\ \A s \in Legs : \A k, l \in ToSet(s) : flushOf[k] = flushOf[l] /\ flushOf[l] # 0
  /\ \A s, t \in Legs : \A k \in ToSet(s), l \in ToSet(t) : flushOf[k] = flushOf[l] => s = t
  /\ \A l \in ToSet(arrived) :
       /\ flushOf[l] # 0
       /\ \A s \in Legs : \A k \in ToSet(s) : flushOf[k] = flushOf[l] => l < k
  /\ FlushKeepsOrder

BridgeIInv == TelegramTypeOK /\ NoLineStrands /\ TimerHasLines /\ OneFlight /\ PlacedOnce /\ InFlushOrder

LEMMA InSequence ==
  ASSUME NEW s \in Seq(Lines)
  PROVE  /\ ToSet(s) = {s[i] : i \in 1 .. Len(s)} /\ ToSet(s) \subseteq Lines
         /\ s = <<>> <=> ToSet(s) = {}
         /\ s # <<>> => Last(s) \in ToSet(s)
<1>1. DOMAIN s = 1 .. Len(s) /\ Len(s) \in Nat /\ \A i \in 1 .. Len(s) : s[i] \in Lines
  BY LenProperties, ElementOfSeq
<1>2. ToSet(s) = {s[i] : i \in 1 .. Len(s)} BY <1>1 DEF ToSet
<1>3. s # <<>> => Len(s) \in 1 .. Len(s) BY <1>1, EmptySeq
<1>4. s # <<>> => Last(s) \in ToSet(s) BY <1>2, <1>3 DEF Last
<1>5. s = <<>> => ToSet(s) = {} BY <1>1, <1>2, EmptySeq
<1> QED BY <1>1, <1>2, <1>4, <1>5

LEMMA LineAppended ==
  ASSUME NEW s \in Seq(Lines), NEW l \in Lines
  PROVE  /\ Append(s, l) \in Seq(Lines) /\ ToSet(Append(s, l)) = ToSet(s) \union {l}
         /\ Rising(s) /\ (\A k \in ToSet(s) : k < l) => Rising(Append(s, l))
<1>1. /\ Append(s, l) \in Seq(Lines) /\ Len(Append(s, l)) = Len(s) + 1 /\ Append(s, l)[Len(s) + 1] = l
      /\ (\A i \in 1 .. Len(s) : Append(s, l)[i] = s[i]) /\ Len(s) \in Nat
  BY AppendProperties, LenProperties
<1>2. \A i : i \in 1 .. Len(Append(s, l)) <=> i \in 1 .. Len(s) \/ i = Len(s) + 1 BY <1>1
<1>3. ToSet(Append(s, l)) = ToSet(s) \union {l}
  <2>1. ToSet(s) = {s[i] : i \in 1 .. Len(s)}
        /\ ToSet(Append(s, l)) = {Append(s, l)[i] : i \in 1 .. Len(Append(s, l))}
    BY <1>1, InSequence
  <2> QED BY <1>1, <1>2, <2>1
<1>4. ASSUME Rising(s), \A k \in ToSet(s) : k < l PROVE Rising(Append(s, l))
  <2> SUFFICES ASSUME NEW i \in 1 .. Len(Append(s, l)), NEW j \in 1 .. Len(Append(s, l)), i < j
               PROVE  Append(s, l)[i] < Append(s, l)[j]
    BY DEF Rising
  <2>1. i \in 1 .. Len(s) BY <1>1
  <2>2. s[i] \in ToSet(s) BY <2>1, InSequence
  <2>3. CASE j \in 1 .. Len(s) BY <1>1, <1>4, <2>1, <2>3 DEF Rising
  <2>4. CASE j = Len(s) + 1 BY <1>1, <1>4, <2>1, <2>2, <2>4
  <2> QED BY <1>2, <2>3, <2>4
<1> QED BY <1>1, <1>3, <1>4

LEMMA HeadAndTail ==
  ASSUME NEW s \in Seq(Lines), s # <<>>, Rising(s)
  PROVE  /\ Head(s) \in Lines /\ Tail(s) \in Seq(Lines) /\ Rising(Tail(s))
         /\ ToSet(s) = {Head(s)} \union ToSet(Tail(s)) /\ \A l \in ToSet(Tail(s)) : Head(s) < l
         /\ Len(s) = 1 <=> Tail(s) = <<>>
<1>1. /\ Head(s) \in Lines /\ Tail(s) \in Seq(Lines) /\ Len(Tail(s)) = Len(s) - 1 /\ Head(s) = s[1]
      /\ (\A i \in 1 .. Len(Tail(s)) : Tail(s)[i] = s[i + 1]) /\ Len(s) \in Nat \ {0} /\ Len(Tail(s)) \in Nat
  BY HeadTailProperties, LenProperties, EmptySeq
<1>2. \A i \in 1 .. Len(Tail(s)) : i + 1 \in 1 .. Len(s) /\ 1 < i + 1 BY <1>1
<1>3. \A i \in 1 .. Len(s) : i = 1 \/ (i - 1 \in 1 .. Len(Tail(s)) /\ (i - 1) + 1 = i) BY <1>1
<1>4. ToSet(s) = {s[i] : i \in 1 .. Len(s)} /\ ToSet(Tail(s)) = {Tail(s)[i] : i \in 1 .. Len(Tail(s))}
  BY <1>1, InSequence
<1>5. 1 \in 1 .. Len(s) BY <1>1
<1>6. ToSet(s) = {Head(s)} \union ToSet(Tail(s))
  <2>1. ASSUME NEW i \in 1 .. Len(s) PROVE s[i] \in {Head(s)} \union ToSet(Tail(s))
    <3>1. CASE i = 1 BY <1>1, <3>1
    <3>2. CASE i # 1
      <4>1. i - 1 \in 1 .. Len(Tail(s)) /\ (i - 1) + 1 = i BY <1>3, <3>2
      <4>2. Tail(s)[i - 1] = s[i] BY <1>1, <4>1
      <4> QED BY <1>4, <4>1, <4>2
    <3> QED BY <3>1, <3>2
  <2>2. Head(s) \in ToSet(s) BY <1>1, <1>4, <1>5
  <2>3. ASSUME NEW i \in 1 .. Len(Tail(s)) PROVE Tail(s)[i] \in ToSet(s) BY <1>1, <1>2, <1>4
  <2> QED BY <1>4, <2>1, <2>2, <2>3
<1>7. \A l \in ToSet(Tail(s)) : Head(s) < l BY <1>1, <1>2, <1>4, <1>5 DEF Rising
<1>8. Rising(Tail(s))
  <2> SUFFICES ASSUME NEW i \in 1 .. Len(Tail(s)), NEW j \in 1 .. Len(Tail(s)), i < j
               PROVE  Tail(s)[i] < Tail(s)[j]
    BY DEF Rising
  <2>1. i + 1 < j + 1 /\ i + 1 \in 1 .. Len(s) /\ j + 1 \in 1 .. Len(s) BY <1>1, <1>2
  <2> QED BY <1>1, <2>1 DEF Rising
<1>9. Len(s) = 1 <=> Tail(s) = <<>>
  <2>1. Tail(s) = <<>> <=> Len(Tail(s)) = 0 BY <1>1, EmptySeq
  <2> QED BY <1>1, <2>1
<1> QED BY <1>1, <1>6, <1>7, <1>8, <1>9

LEMMA NoLines == <<>> \in Seq(Lines) /\ ToSet(<<>>) = {} /\ Len(<<>>) = 0 /\ Rising(<<>>)
<1>1. <<>> \in Seq(Lines) /\ Len(<<>>) = 0 BY EmptySeq
<1>2. ToSet(<<>>) = {} BY <1>1, InSequence
<1>3. Rising(<<>>) BY <1>1 DEF Rising
<1> QED BY <1>1, <1>2, <1>3

LEMMA BridgeStart == ASSUME TelegramInit PROVE BridgeIInv
<1> USE TelegramAssumption DEF Lines
<1>1. lineBuffer = <<>> /\ arrived = <<>> /\ flights = {} /\ Legs = {} BY DEF TelegramInit, Legs
<1>2. TelegramTypeOK
  <2>1. flushOf \in [Lines -> 0 .. MaxLines] BY DEF TelegramInit
  <2>2. next \in 1 .. MaxLines + 1 BY DEF TelegramInit
  <2> QED BY <1>1, <2>1, <2>2, NoLines DEF TelegramInit, TelegramTypeOK
<1>3. NoLineStrands /\ TimerHasLines /\ OneFlight BY <1>1 DEF TelegramInit, NoLineStrands, TimerHasLines, OneFlight
<1>4. PlacedOnce BY <1>1, NoLines DEF TelegramInit, PlacedOnce
<1>5. InFlushOrder BY <1>1, NoLines DEF TelegramInit, InFlushOrder, FlushKeepsOrder
<1> QED BY <1>2, <1>3, <1>4, <1>5 DEF BridgeIInv

\* The invariant says more than BridgeInv, without counting.
LEMMA PlacedOnceCounts == ASSUME TelegramTypeOK, OneFlight, PlacedOnce PROVE LinesInOnePlace
<1> SUFFICES ASSUME NEW l \in Lines PROVE Places(l) = IF l < next THEN 1 ELSE 0 BY DEF LinesInOnePlace
<1> DEFINE inBuffer == {i \in DOMAIN lineBuffer : lineBuffer[i] = l}
           inFlight == {f \in flights : l \in ToSet(f.left)}
           inChat == {i \in DOMAIN arrived : arrived[i] = l}
<1>1. /\ lineBuffer \in Seq(Lines) /\ DOMAIN lineBuffer = 1 .. Len(lineBuffer)
      /\ arrived \in Seq(Lines) /\ DOMAIN arrived = 1 .. Len(arrived)
      /\ Len(lineBuffer) \in Nat /\ Len(arrived) \in Nat
  BY LenProperties DEF TelegramTypeOK
<1>2. Cardinality(inBuffer) = IF l \in ToSet(lineBuffer) THEN 1 ELSE 0
  <2>1. CASE l \in ToSet(lineBuffer)
    <3>1. PICK i \in 1 .. Len(lineBuffer) : lineBuffer[i] = l BY <1>1, <2>1, InSequence
    <3>2. ASSUME NEW j \in 1 .. Len(lineBuffer), lineBuffer[j] = l PROVE j = i
      <4>1. lineBuffer[i] \in Int BY <1>1, <3>1, TelegramAssumption DEF Lines
      <4>2. ~(i < j) /\ ~(j < i) BY <3>1, <3>2, <4>1 DEF PlacedOnce, Rising
      <4> QED BY <1>1, <4>2
    <3>3. inBuffer = {i} BY <1>1, <3>1, <3>2
    <3> QED BY <2>1, <3>3, FS_Singleton
  <2>2. CASE l \notin ToSet(lineBuffer)
    <3>1. inBuffer = {} BY <1>1, <2>2, InSequence
    <3> QED BY <2>2, <3>1, FS_EmptySet
  <2> QED BY <2>1, <2>2
<1>3. Cardinality(inFlight) = IF \E s \in Legs : l \in ToSet(s) THEN 1 ELSE 0
  <2>1. CASE \E s \in Legs : l \in ToSet(s)
    <3>1. PICK f \in flights : l \in ToSet(f.left) BY <2>1 DEF Legs
    <3>2. \A g \in flights : l \in ToSet(g.left) => g = f BY <3>1 DEF PlacedOnce, OneFlight, Legs
    <3>3. inFlight = {f} BY <3>1, <3>2
    <3> QED BY <2>1, <3>3, FS_Singleton
  <2>2. CASE ~\E s \in Legs : l \in ToSet(s)
    <3>1. inFlight = {} BY <2>2 DEF Legs
    <3> QED BY <2>2, <3>1, FS_EmptySet
  <2> QED BY <2>1, <2>2
<1>4. Cardinality(inChat) = IF l \in ToSet(arrived) THEN 1 ELSE 0
  <2>1. CASE l \in ToSet(arrived)
    <3>1. PICK i \in 1 .. Len(arrived) : arrived[i] = l BY <1>1, <2>1, InSequence
    <3>2. inChat = {i} BY <1>1, <3>1 DEF PlacedOnce
    <3> QED BY <2>1, <3>2, FS_Singleton
  <2>2. CASE l \notin ToSet(arrived)
    <3>1. inChat = {} BY <1>1, <2>2, InSequence
    <3> QED BY <2>2, <3>1, FS_EmptySet
  <2> QED BY <2>1, <2>2
<1>5. Places(l) = Cardinality(inBuffer) + Cardinality(inFlight) + Cardinality(inChat)
                  + (IF l \in dropped THEN 1 ELSE 0)
  BY DEF Places
<1> HIDE DEF inBuffer, inFlight, inChat
<1>6. /\ l < next <=> \/ l \in ToSet(lineBuffer) \/ l \in ToSet(arrived) \/ l \in dropped
                      \/ \E s \in Legs : l \in ToSet(s)
      /\ l \in ToSet(lineBuffer) => l \notin ToSet(arrived) /\ l \notin dropped
      /\ (\E s \in Legs : l \in ToSet(s)) =>
           l \notin ToSet(lineBuffer) /\ l \notin ToSet(arrived) /\ l \notin dropped
      /\ ~(l \in ToSet(arrived) /\ l \in dropped)
  BY DEF PlacedOnce
<1> QED BY <1>2, <1>3, <1>4, <1>5, <1>6

\* A step that moves no line.
LEMMA LinesStay ==
  ASSUME BridgeIInv, Legs' = Legs, UNCHANGED <<lineBuffer, arrived, dropped, next, flushOf>>
  PROVE  PlacedOnce' /\ InFlushOrder'
BY DEF BridgeIInv, PlacedOnce, InFlushOrder, FlushKeepsOrder

\* A flight waits, or goes on.
LEMMA ModeKeeps ==
  ASSUME BridgeIInv, NEW f \in flights, NEW mode \in {"sending", "waiting", "again"},
         flights' = Without(f) \union {[f EXCEPT !.mode = mode]},
         UNCHANGED <<senderVars, wireVars>>, tgTrouble' \in Nat
  PROVE  BridgeIInv'
<1> USE DEF BridgeIInv
<1> DEFINE g == [f EXCEPT !.mode = mode]
<1>1. f \in Flights BY DEF TelegramTypeOK
<1>2. g \in Flights /\ g.left = f.left BY <1>1 DEF Flights
<1> HIDE DEF g
<1>3. flights' = (flights \ {f}) \union {g} BY DEF Without, g
<1>4. Legs' = Legs BY <1>2, <1>3 DEF Legs
<1>5. OneFlight' BY <1>2, <1>3 DEF OneFlight
<1>6. UNCHANGED <<routed, lineBuffer, armed, immediates, next, flushOf, arrived, dropped>>
  BY DEF senderVars, wireVars
<1>7. TelegramTypeOK' BY <1>2, <1>3, <1>6 DEF TelegramTypeOK
<1>8. NoLineStrands' /\ TimerHasLines' BY <1>6 DEF NoLineStrands, TimerHasLines
<1> QED BY <1>4, <1>5, <1>6, <1>7, <1>8, LinesStay

\* A flight goes on to its next line.
LEMMA OnwardMoves ==
  ASSUME BridgeIInv, NEW f \in flights, Onward(f)
  PROVE  /\ f.left \in Legs /\ f.left \in Seq(Lines) /\ f.left # <<>> /\ Rising(f.left)
         /\ flights' \subseteq Flights /\ OneFlight'
         /\ Legs' = (Legs \ {f.left}) \union (IF Tail(f.left) = <<>> THEN {} ELSE {Tail(f.left)})
<1> USE DEF BridgeIInv
<1>1. f.left \in Legs /\ f.left \in Seq(Lines) /\ f.left # <<>> /\ Rising(f.left)
  BY DEF Legs, TelegramTypeOK, Flights, PlacedOnce
<1>2. {g.left : g \in Without(f)} = Legs \ {f.left} BY DEF Without, Legs, OneFlight
<1>3. CASE Len(f.left) = 1
  <2>1. flights' = Without(f) BY <1>3 DEF Onward
  <2>2. Legs' = Legs \ {f.left} BY <1>2, <2>1 DEF Legs
  <2>3. Tail(f.left) = <<>> BY <1>1, <1>3, HeadAndTail
  <2>4. flights' \subseteq Flights /\ OneFlight' BY <2>1 DEF Without, OneFlight, TelegramTypeOK
  <2> QED BY <1>1, <2>2, <2>3, <2>4
<1>4. CASE Len(f.left) # 1
  <2> DEFINE g == [left |-> Tail(f.left), mode |-> "sending"]
  <2>1. flights' = Without(f) \union {g} BY <1>4 DEF Onward
  <2>2. Tail(f.left) \in Seq(Lines) /\ Tail(f.left) # <<>> /\ ToSet(Tail(f.left)) \subseteq ToSet(f.left)
    BY <1>1, <1>4, HeadAndTail
  <2>3. g \in Flights /\ g.left = Tail(f.left) BY <2>2 DEF Flights
  <2> HIDE DEF g
  <2>4. Legs' = (Legs \ {f.left}) \union {Tail(f.left)} BY <1>2, <2>1, <2>3 DEF Legs
  <2>5. \A e \in Without(f) : e.left # Tail(f.left)
    <3> SUFFICES ASSUME NEW e \in flights, e # f, e.left = Tail(f.left) PROVE FALSE BY DEF Without
    <3>1. PICK l \in Lines : l \in ToSet(Tail(f.left)) BY <2>2, InSequence
    <3>2. e.left = f.left BY <1>1, <2>2, <3>1 DEF PlacedOnce, Legs
    <3> QED BY <3>2 DEF OneFlight
  <2>6. OneFlight' BY <2>1, <2>3, <2>5 DEF OneFlight, Without
  <2>7. flights' \subseteq Flights BY <2>1, <2>3 DEF Without, TelegramTypeOK
  <2> QED BY <1>1, <2>2, <2>4, <2>6, <2>7
<1> QED BY <1>3, <1>4

\* A line has been sent, or given up: the flight has gone on.
LEMMA SentKeeps ==
  ASSUME BridgeIInv, NEW f \in flights, Onward(f), UNCHANGED senderVars, tgTrouble' \in Nat,
         \/ arrived' = Append(arrived, Head(f.left)) /\ dropped' = dropped
         \/ arrived' = arrived /\ dropped' = dropped \union {Head(f.left)}
  PROVE  BridgeIInv'
<1> DEFINE h == Head(f.left)
           rest == Tail(f.left)
<1>1. /\ f.left \in Legs /\ f.left \in Seq(Lines) /\ f.left # <<>> /\ Rising(f.left)
      /\ flights' \subseteq Flights /\ OneFlight'
      /\ Legs' = (Legs \ {f.left}) \union (IF rest = <<>> THEN {} ELSE {rest})
  BY OnwardMoves
<1>2. /\ h \in Lines /\ rest \in Seq(Lines) /\ Rising(rest)
      /\ ToSet(f.left) = {h} \union ToSet(rest) /\ \A l \in ToSet(rest) : h < l
  BY <1>1, HeadAndTail
<1>3. UNCHANGED <<routed, lineBuffer, armed, immediates, next, flushOf>> BY DEF senderVars
<1>4. arrived \in Seq(Lines) /\ dropped \subseteq Lines /\ arrived' \in Seq(Lines) /\ dropped' \subseteq Lines
  BY <1>2, LineAppended DEF BridgeIInv, TelegramTypeOK
<1>5. TelegramTypeOK' BY <1>1, <1>3, <1>4 DEF BridgeIInv, TelegramTypeOK
<1>6. NoLineStrands' /\ TimerHasLines' BY <1>3 DEF BridgeIInv, NoLineStrands, TimerHasLines
<1>7. \/ ToSet(arrived') = ToSet(arrived) \union {h} /\ dropped' = dropped
      \/ ToSet(arrived') = ToSet(arrived) /\ dropped' = dropped \union {h}
  BY <1>2, <1>4, LineAppended
<1>8. h \in ToSet(f.left) /\ h \notin ToSet(rest) /\ ToSet(rest) \subseteq ToSet(f.left)
      /\ ToSet(f.left) \subseteq Lines
  <2>1. ToSet(f.left) \subseteq Lines BY <1>1, InSequence
  <2>2. h \notin ToSet(rest) BY <1>2 DEF Lines
  <2> QED BY <1>2, <2>1, <2>2
<1>9. h \notin ToSet(arrived) BY <1>1, <1>2, <1>8 DEF BridgeIInv, PlacedOnce
<1>10. \A s \in Legs' : s \in Legs \ {f.left} \/ (s = rest /\ s # <<>>) BY <1>1
<1>11. \A s \in Legs : s = f.left \/ s \in Legs' BY <1>1
<1>12. rest # <<>> => rest \in Legs' BY <1>1
<1>13. rest = <<>> => ToSet(rest) = {} BY NoLines
<1> HIDE DEF h, rest
<1>14. PlacedOnce'
  <2>1. Rising(lineBuffer') BY <1>3 DEF BridgeIInv, PlacedOnce
  <2>2. \A s \in Legs' : s # <<>> /\ Rising(s) BY <1>2, <1>10 DEF BridgeIInv, PlacedOnce
  <2>3. \A i, j \in 1 .. Len(arrived') : arrived'[i] = arrived'[j] => i = j
    <3>1. CASE arrived' = arrived BY <3>1 DEF BridgeIInv, PlacedOnce
    <3>2. CASE arrived' = Append(arrived, h)
      <4>1. /\ Len(arrived') = Len(arrived) + 1 /\ arrived'[Len(arrived) + 1] = h /\ Len(arrived) \in Nat
            /\ \A i \in 1 .. Len(arrived) : arrived'[i] = arrived[i] /\ arrived'[i] \in ToSet(arrived)
        BY <1>2, <1>4, <3>2, AppendProperties, LenProperties, InSequence
      <4>2. \A i \in 1 .. Len(arrived') : i \in 1 .. Len(arrived) \/ i = Len(arrived) + 1 BY <4>1
      <4>3. \A i, j \in 1 .. Len(arrived) : arrived[i] = arrived[j] => i = j BY DEF BridgeIInv, PlacedOnce
      <4>4. \A i \in 1 .. Len(arrived) : arrived'[i] # h BY <1>9, <4>1
      <4> HIDE <3>2
      <4> SUFFICES ASSUME NEW i \in 1 .. Len(arrived'), NEW j \in 1 .. Len(arrived'), arrived'[i] = arrived'[j]
                   PROVE  i = j
        OBVIOUS
      <4>5. CASE i \in 1 .. Len(arrived) /\ j \in 1 .. Len(arrived) BY <4>1, <4>3, <4>5
      <4>6. CASE i = Len(arrived) + 1 \/ j = Len(arrived) + 1 BY <4>1, <4>2, <4>4, <4>6
      <4> QED BY <4>2, <4>5, <4>6
    <3> QED BY <3>1, <3>2 DEF h
  <2>4. \A s, t \in Legs', l \in Lines : l \in ToSet(s) /\ l \in ToSet(t) => s = t
    <3>1. \A s, t \in Legs, l \in Lines : l \in ToSet(s) /\ l \in ToSet(t) => s = t
      BY DEF BridgeIInv, PlacedOnce
    <3> SUFFICES ASSUME NEW s \in Legs', NEW t \in Legs', NEW l \in Lines, l \in ToSet(s), l \in ToSet(t)
                 PROVE  s = t
      OBVIOUS
    <3> QED BY <1>1, <1>8, <1>10, <3>1
  <2>5. ASSUME NEW l \in Lines
        PROVE  /\ l < next' <=> \/ l \in ToSet(lineBuffer') \/ l \in ToSet(arrived') \/ l \in dropped'
                                \/ \E s \in Legs' : l \in ToSet(s)
               /\ l \in ToSet(lineBuffer') => l \notin ToSet(arrived') /\ l \notin dropped'
               /\ \A s \in Legs' : l \in ToSet(s) =>
                                   l \notin ToSet(lineBuffer') /\ l \notin ToSet(arrived') /\ l \notin dropped'
               /\ ~(l \in ToSet(arrived') /\ l \in dropped')
    <3>1. /\ l < next <=> \/ l \in ToSet(lineBuffer) \/ l \in ToSet(arrived) \/ l \in dropped
                          \/ \E s \in Legs : l \in ToSet(s)
          /\ l \in ToSet(lineBuffer) => l \notin ToSet(arrived) /\ l \notin dropped
          /\ \A s \in Legs : l \in ToSet(s) =>
                             l \notin ToSet(lineBuffer) /\ l \notin ToSet(arrived) /\ l \notin dropped
          /\ ~(l \in ToSet(arrived) /\ l \in dropped)
          /\ \A s, t \in Legs : l \in ToSet(s) /\ l \in ToSet(t) => s = t
      BY DEF BridgeIInv, PlacedOnce
    <3>2. (\E s \in Legs : l \in ToSet(s)) <=> (l = h \/ \E s \in Legs' : l \in ToSet(s))
      <4>1. ASSUME NEW s \in Legs, l \in ToSet(s) PROVE l = h \/ \E t \in Legs' : l \in ToSet(t)
        <5>1. CASE s # f.left BY <1>11, <4>1, <5>1
        <5>2. CASE s = f.left BY <1>2, <1>12, <1>13, <4>1, <5>2 DEF h, rest
        <5> QED BY <5>1, <5>2
      <4>2. ASSUME NEW s \in Legs', l \in ToSet(s) PROVE \E t \in Legs : l \in ToSet(t)
        BY <1>1, <1>8, <1>10, <4>2
      <4> QED BY <1>1, <1>8, <4>1, <4>2
    <3>3. \A s \in Legs' : l \in ToSet(s) => l # h /\ \E t \in Legs : l \in ToSet(t)
      <4> SUFFICES ASSUME NEW s \in Legs', l \in ToSet(s) PROVE l # h /\ \E t \in Legs : l \in ToSet(t) OBVIOUS
      <4>1. CASE s \in Legs /\ s # f.left BY <1>1, <1>8, <3>1, <4>1
      <4>2. CASE s = rest BY <1>1, <1>8, <4>2
      <4> QED BY <1>10, <4>1, <4>2
    <3>4. l = h => l \notin ToSet(lineBuffer) /\ l \notin ToSet(arrived) /\ l \notin dropped
      BY <1>1, <1>8, <3>1
    <3> QED BY <1>3, <1>7, <3>1, <3>2, <3>3, <3>4
  <2> QED BY <2>1, <2>2, <2>3, <2>4, <2>5 DEF PlacedOnce
<1>15. InFlushOrder'
  <2>1. \A l \in Lines : l \in ToSet(lineBuffer') \/ ~(l < next') => flushOf'[l] = 0
    BY <1>3 DEF BridgeIInv, InFlushOrder
  <2>2. \A l \in Lines : flushOf'[l] # 0 => flushOf'[l] \in Lines /\ flushOf'[flushOf'[l]] # 0
    BY <1>3 DEF BridgeIInv, InFlushOrder
  <2>3. /\ \A s \in Legs : \A k, l \in ToSet(s) : flushOf[k] = flushOf[l] /\ flushOf[l] # 0
        /\ \A s, t \in Legs : \A k \in ToSet(s), l \in ToSet(t) : flushOf[k] = flushOf[l] => s = t
        /\ \A l \in ToSet(arrived) :
             /\ flushOf[l] # 0
             /\ \A s \in Legs : \A k \in ToSet(s) : flushOf[k] = flushOf[l] => l < k
    BY DEF BridgeIInv, InFlushOrder
  <2>4. \A s \in Legs' : \A k, l \in ToSet(s) : flushOf[k] = flushOf[l] /\ flushOf[l] # 0
    <3> SUFFICES ASSUME NEW s \in Legs', NEW k \in ToSet(s), NEW l \in ToSet(s)
                 PROVE  flushOf[k] = flushOf[l] /\ flushOf[l] # 0
      OBVIOUS
    <3> QED BY <1>1, <1>8, <1>10, <2>3
  <2>5. \A s, t \in Legs' : \A k \in ToSet(s), l \in ToSet(t) : flushOf[k] = flushOf[l] => s = t
    <3> SUFFICES ASSUME NEW s \in Legs', NEW t \in Legs', NEW k \in ToSet(s), NEW l \in ToSet(t),
                        flushOf[k] = flushOf[l]
                 PROVE  s = t
      OBVIOUS
    <3>1. s = rest => k \in ToSet(f.left) BY <1>8
    <3>2. t = rest => l \in ToSet(f.left) BY <1>8
    <3> QED BY <1>1, <1>10, <2>3, <3>1, <3>2
  <2>6. ASSUME NEW l \in ToSet(arrived')
        PROVE  flushOf[l] # 0 /\ \A s \in Legs' : \A k \in ToSet(s) : flushOf[k] = flushOf[l] => l < k
    <3>1. CASE l \in ToSet(arrived)
      <4> SUFFICES ASSUME NEW s \in Legs', NEW k \in ToSet(s), flushOf[k] = flushOf[l] PROVE l < k
        BY <2>3, <3>1
      <4>1. CASE s \in Legs BY <2>3, <3>1, <4>1
      <4>2. CASE s = rest BY <1>1, <1>8, <2>3, <3>1, <4>2
      <4> QED BY <1>10, <4>1, <4>2
    <3>2. CASE l = h
      <4>1. flushOf[l] # 0 BY <1>1, <1>8, <2>3, <3>2
      <4> SUFFICES ASSUME NEW s \in Legs', NEW k \in ToSet(s), flushOf[k] = flushOf[l] PROVE l < k
        BY <4>1
      <4>2. CASE s \in Legs /\ s # f.left BY <1>1, <1>8, <2>3, <3>2, <4>2
      <4>3. CASE s = rest BY <1>2, <3>2, <4>3 DEF h, rest
      <4> QED BY <1>10, <4>2, <4>3
    <3> QED BY <1>7, <3>1, <3>2
  <2>7. FlushKeepsOrder'
    <3>1. CASE arrived' = arrived BY <1>3, <3>1 DEF BridgeIInv, InFlushOrder, FlushKeepsOrder
    <3>2. CASE arrived' = Append(arrived, h)
      <4>1. /\ Len(arrived') = Len(arrived) + 1 /\ arrived'[Len(arrived) + 1] = h /\ Len(arrived) \in Nat
            /\ \A i \in 1 .. Len(arrived) : arrived'[i] = arrived[i] /\ arrived'[i] \in ToSet(arrived)
        BY <1>2, <1>4, <3>2, AppendProperties, LenProperties, InSequence
      <4>2. \A i \in 1 .. Len(arrived') : i \in 1 .. Len(arrived) \/ i = Len(arrived) + 1 BY <4>1
      <4>3. \A l \in ToSet(arrived) : flushOf[h] = flushOf[l] => l < h BY <1>1, <1>8, <2>3
      <4>4. \A i, j \in 1 .. Len(arrived) :
              i < j /\ flushOf[arrived[i]] = flushOf[arrived[j]] => arrived[i] < arrived[j]
        BY DEF BridgeIInv, InFlushOrder, FlushKeepsOrder
      <4> HIDE <3>2
      <4> SUFFICES ASSUME NEW i \in 1 .. Len(arrived'), NEW j \in 1 .. Len(arrived'), i < j,
                          flushOf[arrived'[i]] = flushOf[arrived'[j]]
                   PROVE  arrived'[i] < arrived'[j]
        BY <1>3 DEF FlushKeepsOrder
      <4>5. i \in 1 .. Len(arrived) BY <4>1
      <4>6. CASE j \in 1 .. Len(arrived) BY <4>1, <4>4, <4>5, <4>6
      <4>7. CASE j = Len(arrived) + 1 BY <4>1, <4>3, <4>5, <4>7
      <4> QED BY <4>2, <4>6, <4>7
    <3> QED BY <3>1, <3>2 DEF h
  <2> QED BY <1>3, <2>1, <2>2, <2>4, <2>5, <2>6, <2>7 DEF InFlushOrder
<1> QED BY <1>1, <1>5, <1>6, <1>14, <1>15 DEF BridgeIInv

\* A new line waits behind those of the buffer.
LEMMA QueuedKeeps ==
  ASSUME BridgeIInv, Queued, armed' \in BOOLEAN, immediates' \in Nat, armed' \/ immediates' > 0
  PROVE  BridgeIInv'
<1>1. /\ next \in Lines /\ lineBuffer' = Append(lineBuffer, next) /\ next' = next + 1
      /\ UNCHANGED <<routed, flights, flushOf, arrived, dropped, tgTrouble>> /\ Legs' = Legs
  BY DEF Queued, wireVars, Legs
<1>2. lineBuffer \in Seq(Lines) BY DEF BridgeIInv, TelegramTypeOK
<1>3. /\ lineBuffer' \in Seq(Lines) /\ ToSet(lineBuffer') = ToSet(lineBuffer) \union {next}
      /\ ToSet(lineBuffer) \subseteq Lines /\ next \in Nat
  BY <1>1, <1>2, LineAppended, InSequence, TelegramAssumption DEF Lines
<1>4. \A l \in Lines : l < next' <=> l < next \/ l = next BY <1>1, TelegramAssumption DEF Lines
<1>5. Rising(lineBuffer')
  <2>1. \A k \in ToSet(lineBuffer) : k < next BY <1>3 DEF BridgeIInv, PlacedOnce
  <2>2. Rising(lineBuffer) BY DEF BridgeIInv, PlacedOnce
  <2> QED BY <1>1, <1>2, <2>1, <2>2, LineAppended
<1>6. TelegramTypeOK'
  <2>1. next' \in 1 .. MaxLines + 1 BY <1>1, TelegramAssumption DEF Lines
  <2> QED BY <1>1, <1>3, <2>1 DEF BridgeIInv, TelegramTypeOK
<1>7. NoLineStrands' /\ TimerHasLines' /\ OneFlight'
  <2>1. lineBuffer' # <<>> BY <1>3, NoLines
  <2> QED BY <1>1, <2>1 DEF BridgeIInv, NoLineStrands, TimerHasLines, OneFlight
<1>8. ~(next < next) BY <1>3
<1>9. PlacedOnce'
  <2>1. ASSUME NEW l \in Lines
        PROVE  /\ l < next' <=> \/ l \in ToSet(lineBuffer') \/ l \in ToSet(arrived') \/ l \in dropped'
                                \/ \E s \in Legs' : l \in ToSet(s)
               /\ l \in ToSet(lineBuffer') => l \notin ToSet(arrived') /\ l \notin dropped'
               /\ \A s \in Legs' : l \in ToSet(s) =>
                                   l \notin ToSet(lineBuffer') /\ l \notin ToSet(arrived') /\ l \notin dropped'
               /\ ~(l \in ToSet(arrived') /\ l \in dropped')
    <3>1. /\ l < next <=> \/ l \in ToSet(lineBuffer) \/ l \in ToSet(arrived) \/ l \in dropped
                          \/ \E s \in Legs : l \in ToSet(s)
          /\ l \in ToSet(lineBuffer) => l \notin ToSet(arrived) /\ l \notin dropped
          /\ \A s \in Legs : l \in ToSet(s) =>
                             l \notin ToSet(lineBuffer) /\ l \notin ToSet(arrived) /\ l \notin dropped
          /\ ~(l \in ToSet(arrived) /\ l \in dropped)
      BY DEF BridgeIInv, PlacedOnce
    <3>2. l = next => ~(l < next) BY <1>8
    <3> QED BY <1>1, <1>3, <1>4, <3>1, <3>2
  <2> QED BY <1>1, <1>5, <2>1 DEF BridgeIInv, PlacedOnce
<1>10. InFlushOrder'
  <2>1. \A l \in Lines : l \in ToSet(lineBuffer') \/ ~(l < next') => flushOf'[l] = 0
    BY <1>1, <1>3, <1>4, <1>8 DEF BridgeIInv, InFlushOrder
  <2> QED BY <1>1, <2>1 DEF BridgeIInv, InFlushOrder, FlushKeepsOrder
<1> QED BY <1>6, <1>7, <1>9, <1>10 DEF BridgeIInv

\* What a flush takes gets a mark of its own.
LEMMA FlushMarks ==
  ASSUME BridgeIInv, lineBuffer # <<>>, next' = next, lineBuffer' = <<>>,
         flushOf' = [l \in Lines |-> IF l \in ToSet(lineBuffer) THEN Last(lineBuffer) ELSE flushOf[l]]
  PROVE  LET last == Last(lineBuffer) IN
         /\ last \in Lines /\ last # 0 /\ last \in ToSet(lineBuffer)
         /\ flushOf' \in [Lines -> 0 .. MaxLines]
         /\ \A l \in Lines : /\ l \in ToSet(lineBuffer') \/ ~(l < next') => flushOf'[l] = 0
                             /\ flushOf'[l] # 0 => flushOf'[l] \in Lines /\ flushOf'[flushOf'[l]] # 0
                             /\ l \in ToSet(lineBuffer) => flushOf'[l] = last
                             /\ l \notin ToSet(lineBuffer) => flushOf'[l] = flushOf[l] /\ flushOf[l] # last
<1> DEFINE last == Last(lineBuffer)
<1>1. lineBuffer \in Seq(Lines) /\ flushOf \in [Lines -> 0 .. MaxLines] BY DEF BridgeIInv, TelegramTypeOK
<1>2. last \in ToSet(lineBuffer) /\ ToSet(lineBuffer) \subseteq Lines BY <1>1, InSequence
<1>3. last \in Lines /\ last # 0 /\ last \in 0 .. MaxLines BY <1>2, TelegramAssumption DEF Lines
<1> HIDE DEF last
<1>4. flushOf' \in [Lines -> 0 .. MaxLines] BY <1>1, <1>3 DEF last
<1>5. \A l \in Lines : flushOf'[l] = IF l \in ToSet(lineBuffer) THEN last ELSE flushOf[l] BY DEF last
<1>6. \A l \in Lines : /\ l \in ToSet(lineBuffer) \/ ~(l < next) => flushOf[l] = 0
                       /\ flushOf[l] # 0 => flushOf[l] \in Lines /\ flushOf[flushOf[l]] # 0
                       /\ l \in ToSet(lineBuffer) => l < next
  BY DEF BridgeIInv, InFlushOrder, PlacedOnce
<1>7. ToSet(lineBuffer') = {} BY NoLines
<1>8. \A l \in Lines : l \notin ToSet(lineBuffer) => flushOf[l] # last BY <1>2, <1>3, <1>6
<1>9. \A l \in Lines : l \in ToSet(lineBuffer') \/ ~(l < next') => flushOf'[l] = 0 BY <1>5, <1>6, <1>7
<1>10. \A l \in Lines : flushOf'[l] # 0 => flushOf'[l] \in Lines /\ flushOf'[flushOf'[l]] # 0
  BY <1>2, <1>3, <1>5, <1>6
<1> QED BY <1>2, <1>3, <1>4, <1>5, <1>8, <1>9, <1>10 DEF last

LEMMA FlushKeeps ==
  ASSUME BridgeIInv, Flush, UNCHANGED <<routed, next, tgTrouble>>,
         immediates' \in Nat, armed \/ immediates' = immediates - 1,
         lineBuffer = <<>> => immediates' <= immediates
  PROVE  BridgeIInv'
<1>1. CASE lineBuffer = <<>>
  <2>1. UNCHANGED <<lineBuffer, armed, flights, flushOf, arrived, dropped>> /\ Legs' = Legs
    BY <1>1 DEF Flush, wireVars, Legs
  <2>2. TelegramTypeOK' BY <2>1 DEF BridgeIInv, TelegramTypeOK
  <2>3. NoLineStrands' /\ TimerHasLines' /\ OneFlight'
    BY <1>1, <2>1 DEF BridgeIInv, NoLineStrands, TimerHasLines, OneFlight
  <2> QED BY <2>1, <2>2, <2>3, LinesStay DEF BridgeIInv
<1>2. CASE lineBuffer # <<>>
  <2> DEFINE taken == lineBuffer
             last == Last(lineBuffer)
  <2>1. /\ lineBuffer' = <<>> /\ armed' = FALSE /\ arrived' = arrived
        /\ flushOf' = [l \in Lines |-> IF l \in ToSet(lineBuffer) THEN Last(lineBuffer) ELSE flushOf[l]]
        /\ IF routed
             THEN flights' = flights \union {[left |-> lineBuffer, mode |-> "sending"]} /\ dropped' = dropped
             ELSE dropped' = dropped \union ToSet(lineBuffer) /\ flights' = flights
    BY <1>2 DEF Flush
  <2>2. lineBuffer \in Seq(Lines) /\ ToSet(lineBuffer) \subseteq Lines /\ Rising(lineBuffer)
    BY InSequence DEF BridgeIInv, TelegramTypeOK, PlacedOnce
  <2>3. /\ last \in Lines /\ last # 0 /\ last \in ToSet(lineBuffer)
        /\ flushOf' \in [Lines -> 0 .. MaxLines]
        /\ \A l \in Lines : /\ l \in ToSet(lineBuffer') \/ ~(l < next') => flushOf'[l] = 0
                            /\ flushOf'[l] # 0 => flushOf'[l] \in Lines /\ flushOf'[flushOf'[l]] # 0
                            /\ l \in ToSet(lineBuffer) => flushOf'[l] = last
                            /\ l \notin ToSet(lineBuffer) => flushOf'[l] = flushOf[l] /\ flushOf[l] # last
    BY <1>2, <2>1, FlushMarks
  <2>4. ToSet(lineBuffer') = {} /\ Rising(lineBuffer') /\ lineBuffer' \in Seq(Lines) BY <2>1, NoLines
  <2>5. \A s \in Legs : s \in Seq(Lines) /\ ToSet(s) \subseteq Lines
    BY InSequence DEF BridgeIInv, TelegramTypeOK, Flights, Legs
  <2>6. /\ NoLineStrands' /\ TimerHasLines' BY <2>1 DEF NoLineStrands, TimerHasLines
  <2>7. arrived \in Seq(Lines) /\ ToSet(arrived) \subseteq Lines BY InSequence DEF BridgeIInv, TelegramTypeOK
  <2>8. /\ Rising(lineBuffer) /\ \A s \in Legs : s # <<>> /\ Rising(s)
        /\ \A i, j \in 1 .. Len(arrived) : arrived[i] = arrived[j] => i = j
        /\ \A s, t \in Legs, l \in Lines : l \in ToSet(s) /\ l \in ToSet(t) => s = t
        /\ \A l \in Lines :
             /\ l < next <=> \/ l \in ToSet(lineBuffer) \/ l \in ToSet(arrived) \/ l \in dropped
                             \/ \E s \in Legs : l \in ToSet(s)
             /\ l \in ToSet(lineBuffer) => l \notin ToSet(arrived) /\ l \notin dropped
             /\ \A s \in Legs : l \in ToSet(s) =>
                                l \notin ToSet(lineBuffer) /\ l \notin ToSet(arrived) /\ l \notin dropped
             /\ ~(l \in ToSet(arrived) /\ l \in dropped)
    BY DEF BridgeIInv, PlacedOnce
  <2>9. /\ \A s \in Legs : \A k, l \in ToSet(s) : flushOf[k] = flushOf[l] /\ flushOf[l] # 0
        /\ \A s, t \in Legs : \A k \in ToSet(s), l \in ToSet(t) : flushOf[k] = flushOf[l] => s = t
        /\ \A l \in ToSet(arrived) :
             /\ flushOf[l] # 0
             /\ \A s \in Legs : \A k \in ToSet(s) : flushOf[k] = flushOf[l] => l < k
        /\ FlushKeepsOrder
    BY DEF BridgeIInv, InFlushOrder
  \* Lines that were taken before keep their mark, and it is not the new one.
  <2>10. \A l \in ToSet(arrived) : flushOf'[l] = flushOf[l] /\ flushOf[l] # last BY <2>3, <2>7, <2>8
  <2>11. \A s \in Legs : \A l \in ToSet(s) : flushOf'[l] = flushOf[l] /\ flushOf[l] # last
    BY <2>3, <2>5, <2>8
  <2>12. FlushKeepsOrder'
    <3>1. \A i \in 1 .. Len(arrived) : arrived[i] \in ToSet(arrived) BY <2>7, InSequence
    <3> SUFFICES ASSUME NEW i \in 1 .. Len(arrived), NEW j \in 1 .. Len(arrived), i < j,
                        flushOf'[arrived[i]] = flushOf'[arrived[j]]
                 PROVE  arrived[i] < arrived[j]
      BY <2>1 DEF FlushKeepsOrder
    <3>2. flushOf[arrived[i]] = flushOf[arrived[j]] BY <2>10, <3>1
    <3> QED BY <2>9, <3>2 DEF FlushKeepsOrder
  <2>13. CASE ~routed
    <3>1. dropped' = dropped \union ToSet(lineBuffer) /\ flights' = flights /\ Legs' = Legs
      BY <2>1, <2>13 DEF Legs
    <3>2. TelegramTypeOK' BY <2>1, <2>2, <2>3, <2>4, <3>1 DEF BridgeIInv, TelegramTypeOK
    <3>3. OneFlight' BY <3>1 DEF BridgeIInv, OneFlight
    <3>4. PlacedOnce' BY <2>1, <2>4, <2>8, <3>1 DEF PlacedOnce
    <3>5. InFlushOrder'
      <4>1. \A s \in Legs' : \A k, l \in ToSet(s) : flushOf'[k] = flushOf'[l] /\ flushOf'[l] # 0
        BY <2>9, <2>11, <3>1
      <4>2. \A s, t \in Legs' : \A k \in ToSet(s), l \in ToSet(t) : flushOf'[k] = flushOf'[l] => s = t
        BY <2>9, <2>11, <3>1
      <4>3. \A l \in ToSet(arrived') :
              /\ flushOf'[l] # 0
              /\ \A s \in Legs' : \A k \in ToSet(s) : flushOf'[k] = flushOf'[l] => l < k
        <5> SUFFICES ASSUME NEW l \in ToSet(arrived)
                     PROVE  flushOf'[l] # 0 /\ \A s \in Legs : \A k \in ToSet(s) : flushOf'[k] = flushOf'[l] => l < k
          BY <2>1, <3>1
        <5>1. flushOf'[l] # 0 BY <2>9, <2>10
        <5>2. \A s \in Legs : \A k \in ToSet(s) : flushOf'[k] = flushOf'[l] => l < k BY <2>9, <2>10, <2>11
        <5> QED BY <5>1, <5>2
      <4>4. /\ \A l \in Lines : l \in ToSet(lineBuffer') \/ ~(l < next') => flushOf'[l] = 0
            /\ \A l \in Lines : flushOf'[l] # 0 => flushOf'[l] \in Lines /\ flushOf'[flushOf'[l]] # 0
        BY <2>3
      <4> QED BY <2>12, <4>1, <4>2, <4>3, <4>4 DEF InFlushOrder
    <3> QED BY <2>6, <3>2, <3>3, <3>4, <3>5 DEF BridgeIInv
  <2>14. CASE routed
    <3> DEFINE g == [left |-> lineBuffer, mode |-> "sending"]
    <3>1. flights' = flights \union {g} /\ dropped' = dropped BY <2>1, <2>14
    <3>2. g \in Flights /\ g.left = lineBuffer BY <2>2 DEF Flights
    <3> HIDE DEF g
    <3>3. Legs' = Legs \union {lineBuffer} BY <3>1, <3>2 DEF Legs
    <3>4. TelegramTypeOK'
      <4>1. flights' \subseteq Flights BY <3>1, <3>2 DEF BridgeIInv, TelegramTypeOK
      <4>2. armed' \in BOOLEAN BY <2>1
      <4> QED BY <2>1, <2>3, <2>4, <3>1, <4>1, <4>2 DEF BridgeIInv, TelegramTypeOK
    <3>5. \A s \in Legs : \A l \in ToSet(s) : l \notin ToSet(lineBuffer) BY <2>5, <2>8
    <3>6. \A s \in Legs : s # lineBuffer BY <2>3, <3>5
    <3>7. OneFlight' BY <3>1, <3>2, <3>6 DEF BridgeIInv, OneFlight, Legs
    <3>8. PlacedOnce'
      <4>1. \A s \in Legs' : s # <<>> /\ Rising(s) BY <1>2, <2>8, <3>3
      <4>2. \A s, t \in Legs', l \in Lines : l \in ToSet(s) /\ l \in ToSet(t) => s = t BY <2>8, <3>3, <3>5
      <4>3. ASSUME NEW l \in Lines
            PROVE  /\ l < next' <=> \/ l \in ToSet(lineBuffer') \/ l \in ToSet(arrived') \/ l \in dropped'
                                    \/ \E s \in Legs' : l \in ToSet(s)
                   /\ l \in ToSet(lineBuffer') => l \notin ToSet(arrived') /\ l \notin dropped'
                   /\ \A s \in Legs' : l \in ToSet(s) =>
                        l \notin ToSet(lineBuffer') /\ l \notin ToSet(arrived') /\ l \notin dropped'
                   /\ ~(l \in ToSet(arrived') /\ l \in dropped')
        <5>1. (\E s \in Legs' : l \in ToSet(s)) <=> l \in ToSet(lineBuffer) \/ \E s \in Legs : l \in ToSet(s)
          BY <3>3
        <5>2. \A s \in Legs' : l \in ToSet(s) => l \notin ToSet(arrived) /\ l \notin dropped BY <2>8, <3>3
        <5> QED BY <2>1, <2>4, <2>8, <3>1, <5>1, <5>2
      <4> QED BY <2>1, <2>4, <2>8, <4>1, <4>2, <4>3 DEF PlacedOnce
    <3>9. InFlushOrder'
      <4>1. \A l \in ToSet(lineBuffer) : flushOf'[l] = last BY <2>2, <2>3
      <4>2. \A s \in Legs' : \A k, l \in ToSet(s) : flushOf'[k] = flushOf'[l] /\ flushOf'[l] # 0
        BY <2>3, <2>9, <2>11, <3>3, <4>1
      <4>3. \A s, t \in Legs' : \A k \in ToSet(s), l \in ToSet(t) : flushOf'[k] = flushOf'[l] => s = t
        BY <2>9, <2>11, <3>3, <4>1
      <4>4. \A l \in ToSet(arrived') :
              /\ flushOf'[l] # 0
              /\ \A s \in Legs' : \A k \in ToSet(s) : flushOf'[k] = flushOf'[l] => l < k
        BY <2>1, <2>9, <2>10, <2>11, <3>3, <4>1
      <4> QED BY <2>3, <2>12, <4>2, <4>3, <4>4 DEF InFlushOrder
    <3> QED BY <2>6, <3>4, <3>7, <3>8, <3>9 DEF BridgeIInv
  <2> QED BY <2>13, <2>14
<1> QED BY <1>1, <1>2

\* A stop gives up what waits and what is on its way.
LEMMA StopKeeps == ASSUME BridgeIInv, BridgeStops PROVE BridgeIInv'
<1> USE DEF BridgeIInv
<1>1. /\ lineBuffer' = <<>> /\ armed' = FALSE /\ immediates' = 0 /\ flights' = {} /\ Legs' = {}
      /\ UNCHANGED <<routed, next, flushOf, arrived>> /\ tgTrouble' = tgTrouble + 1
      /\ dropped' = dropped \union ToSet(lineBuffer) \union UNION {ToSet(f.left) : f \in flights}
  BY DEF BridgeStops, TgTrouble, Legs
<1>2. ToSet(lineBuffer') = {} /\ Rising(lineBuffer') /\ lineBuffer' \in Seq(Lines) BY <1>1, NoLines
<1>3. \A l : l \in dropped' <=> l \in dropped \/ l \in ToSet(lineBuffer) \/ \E s \in Legs : l \in ToSet(s)
  BY <1>1 DEF Legs
<1>4. dropped' \subseteq Lines BY <1>3, InSequence DEF TelegramTypeOK, Flights, Legs
<1>5. TelegramTypeOK'
  <2>1. tgTrouble' \in Nat BY <1>1 DEF TelegramTypeOK
  <2>2. armed' \in BOOLEAN /\ immediates' \in Nat /\ flights' \subseteq Flights BY <1>1
  <2> QED BY <1>1, <1>2, <1>4, <2>1, <2>2 DEF TelegramTypeOK
<1>6. NoLineStrands' /\ TimerHasLines' /\ OneFlight' BY <1>1 DEF NoLineStrands, TimerHasLines, OneFlight
<1>7. PlacedOnce' BY <1>1, <1>2, <1>3 DEF PlacedOnce
<1>8. InFlushOrder'
  <2>1. \A l \in Lines : l \in ToSet(lineBuffer') \/ ~(l < next') => flushOf'[l] = 0
    BY <1>1, <1>2 DEF InFlushOrder
  <2> QED BY <1>1, <2>1 DEF InFlushOrder, FlushKeepsOrder
<1> QED BY <1>5, <1>6, <1>7, <1>8

LEMMA BridgeStep == ASSUME BridgeIInv, [TelegramNext]_tgVars PROVE BridgeIInv'
<1>1. armed \in BOOLEAN /\ immediates \in Nat /\ tgTrouble \in Nat BY DEF BridgeIInv, TelegramTypeOK
<1>2. CASE Forward BY <1>1, <1>2, QueuedKeeps DEF Forward
<1>3. CASE ForwardError
  <2>1. Queued /\ armed' = FALSE /\ immediates' \in Nat /\ immediates' > 0 BY <1>1, <1>3 DEF ForwardError
  <2>2. armed' \in BOOLEAN BY <2>1
  <2> QED BY <2>1, <2>2, QueuedKeeps
<1>4. CASE TimerFlush BY <1>1, <1>4, FlushKeeps DEF TimerFlush
<1>5. CASE ImmediateFlush BY <1>1, <1>5, FlushKeeps DEF ImmediateFlush
<1>6. CASE \E f \in flights : Arrives(f)
  BY <1>1, <1>6, SentKeeps DEF Arrives, senderVars
<1>7. CASE \E f \in flights : SendFails(f)
  BY <1>1, <1>7, SentKeeps DEF SendFails, TgTrouble
<1>8. CASE \E f \in flights : ToldToWait(f)
  BY <1>1, <1>8, ModeKeeps DEF ToldToWait, TgTrouble
<1>9. CASE \E f \in flights : WaitOver(f)
  BY <1>1, <1>9, ModeKeeps DEF WaitOver
<1>10. CASE RoutingChanges
  <2>1. /\ routed' = ~routed /\ UNCHANGED <<lineBuffer, armed, immediates, flights, next, flushOf, arrived, dropped>>
        /\ tgTrouble' = tgTrouble + 1 /\ Legs' = Legs
    BY <1>10 DEF RoutingChanges, wireVars, TgTrouble, Legs
  <2>2. TelegramTypeOK' BY <1>1, <2>1 DEF BridgeIInv, TelegramTypeOK
  <2>3. NoLineStrands' /\ TimerHasLines' /\ OneFlight'
    BY <2>1 DEF BridgeIInv, NoLineStrands, TimerHasLines, OneFlight
  <2> QED BY <2>1, <2>2, <2>3, LinesStay DEF BridgeIInv
<1>11. CASE BridgeStops BY <1>11, StopKeeps
<1>12. CASE UNCHANGED tgVars
  <2>1. /\ UNCHANGED <<routed, lineBuffer, armed, immediates, flights, next, flushOf, arrived, dropped, tgTrouble>>
        /\ Legs' = Legs
    BY <1>12 DEF tgVars, wireVars, Legs
  <2>2. TelegramTypeOK' BY <2>1 DEF BridgeIInv, TelegramTypeOK
  <2>3. NoLineStrands' /\ TimerHasLines' /\ OneFlight'
    BY <2>1 DEF BridgeIInv, NoLineStrands, TimerHasLines, OneFlight
  <2> QED BY <2>1, <2>2, <2>3, LinesStay DEF BridgeIInv
<1> QED BY <1>2, <1>3, <1>4, <1>5, <1>6, <1>7, <1>8, <1>9, <1>10, <1>11, <1>12 DEF TelegramNext, FlightStep

\* Whatever flushes overlap, and whenever the routing changes or the worker stops, no
\* line of a channel strands, doubles or vanishes, and those of one flush arrive in
\* order (services/telegram/index.js, forward and _flushChannel).
THEOREM LinesAreKept == TelegramSpec => []BridgeInv
<1>1. TelegramInit => BridgeIInv BY BridgeStart
<1>2. BridgeIInv /\ [TelegramNext]_tgVars => BridgeIInv' BY BridgeStep
<1>3. BridgeIInv => BridgeInv BY PlacedOnceCounts DEF BridgeIInv, BridgeInv, InFlushOrder
<1> QED BY <1>1, <1>2, <1>3, PTL DEF TelegramSpec

-----------------------------------------------------------------------------
(* What is sent to a chat *)

\* What a list holds went out, in this order.
InLine(list, past) ==
  /\ \A x \in DOMAIN list : list[x] \in ToSet(past)
  /\ \A x, y \in DOMAIN list : \A a, b \in DOMAIN past :
       x < y /\ past[a] = list[x] /\ past[b] = list[y] => a < b

\* The record of a send, before its call and after it.
CallsMade ==
  \A n \in Sends :
    /\ n > made <=> stage[n] = "none"
    /\ n > made => call[n] = NotCalled
    /\ call[n].tracked => call[n].on \in 1 .. sock
    /\ stage[n] \in {"typing", "queued"} => call[n].tracked

\* What waits in a queue is there once, and the queue has no room.
QueuesHold ==
  \A g \in Sockets :
    /\ \A x \in DOMAIN backlog[g] :
         LET n == backlog[g][x] IN stage[n] = "queued" /\ call[n].tracked /\ call[n].on = g
    /\ \A x, y \in DOMAIN backlog[g] : backlog[g][x] = backlog[g][y] => x = y
    /\ Cardinality(Pending(g)) <= SendConcurrency
    /\ backlog[g] # <<>> => Cardinality(Pending(g)) = SendConcurrency

\* The history and the list.
WentOut ==
  /\ IsInjective(delivered)
  /\ \A n \in Sends : stage[n] = "sent" <=> n \in ToSet(delivered)
  /\ InLine(ring, delivered)
  /\ \A x \in DOMAIN ring : call[ring[x]].tracked /\ (ring[x] \in deleted => ring[x] \in unsure)

\* What a send deletes went out before, and when the send is over it has been tried.
Deletes ==
  /\ \A n \in deleted \union unsure : stage[n] = "sent"
  /\ \A n \in Sends :
       /\ call[n].deletes # 0 => stage[call[n].deletes] = "sent"
       /\ stage[n] \in {"sent", "failed"} => Target(n) \subseteq deleted \union unsure

\* What a purge has to delete went out, and it awaits the deletion of the first of it.
PurgeKnows ==
  \A p \in Purgers :
    /\ \A x \in DOMAIN purge[p].todo : stage[purge[p].todo[x]] = "sent"
    /\ purge[p].awaits # 0 => /\ purge[p].todo # <<>> /\ purge[p].awaits <= made
                              /\ call[purge[p].awaits].deletes = Head(purge[p].todo)

\* TypingEnds, on the open socket.
TypingHasEnd ==
  /\ up => sock # 0
  /\ shown =>
       /\ up
       /\ \/ pauseLost
          \/ thinking = sock
          \/ \E n \in Sends : /\ call[n].long /\ call[n].on = sock
                              /\ stage[n] \in {"typing", "queued", "flying", "sunk"}

OutboundIInv ==
  /\ OutboundTypeOK /\ CallsMade /\ QueuesHold /\ WentOut /\ Deletes /\ PurgeKnows /\ TypingHasEnd
  /\ RingIsComplete /\ PurgeCovers

-----------------------------------------------------------------------------
(* Lists *)

LEMMA EntryOf ==
  ASSUME NEW S, NEW s \in Seq(S)
  PROVE  /\ Len(s) \in Nat /\ DOMAIN s = 1 .. Len(s) /\ \A x \in DOMAIN s : s[x] \in S
         /\ s = <<>> <=> Len(s) = 0
         /\ \A e : e \in ToSet(s) <=> \E x \in DOMAIN s : s[x] = e
BY LenProperties, ElementOfSeq, EmptySeq DEF ToSet

LEMMA Lengthened ==
  ASSUME NEW S, NEW s \in Seq(S), NEW e \in S
  PROVE  /\ Append(s, e) \in Seq(S) /\ Len(Append(s, e)) = Len(s) + 1
         /\ DOMAIN Append(s, e) = 1 .. Len(s) + 1
         /\ \A x \in 1 .. Len(s) : Append(s, e)[x] = s[x]
         /\ Append(s, e)[Len(s) + 1] = e
         /\ ToSet(Append(s, e)) = ToSet(s) \union {e}
<1>1. /\ Append(s, e) \in Seq(S) /\ Len(Append(s, e)) = Len(s) + 1 /\ Append(s, e)[Len(s) + 1] = e
      /\ (\A x \in 1 .. Len(s) : Append(s, e)[x] = s[x]) /\ Len(s) \in Nat
  BY AppendProperties, LenProperties
<1>2. DOMAIN Append(s, e) = 1 .. Len(s) + 1 /\ DOMAIN s = 1 .. Len(s)
  BY <1>1, EntryOf
<1>3. \A x : x \in 1 .. Len(s) + 1 <=> x \in 1 .. Len(s) \/ x = Len(s) + 1
  BY <1>1
<1>4. ToSet(Append(s, e)) = ToSet(s) \union {e}
  BY <1>1, <1>2, <1>3 DEF ToSet
<1> QED
  BY <1>1, <1>2, <1>4

LEMMA Shortened ==
  ASSUME NEW S, NEW s \in Seq(S), s # <<>>
  PROVE  /\ Head(s) \in S /\ Head(s) = s[1] /\ 1 \in DOMAIN s
         /\ Tail(s) \in Seq(S) /\ Len(Tail(s)) = Len(s) - 1
         /\ DOMAIN Tail(s) = 1 .. Len(s) - 1
         /\ \A x \in 1 .. Len(s) - 1 : Tail(s)[x] = s[x + 1] /\ x + 1 \in DOMAIN s
<1>1. /\ Head(s) \in S /\ Tail(s) \in Seq(S) /\ Len(Tail(s)) = Len(s) - 1 /\ Head(s) = s[1]
      /\ (\A x \in 1 .. Len(Tail(s)) : Tail(s)[x] = s[x + 1]) /\ Len(s) \in Nat \ {0}
  BY HeadTailProperties, LenProperties, EmptySeq
<1>2. DOMAIN Tail(s) = 1 .. Len(s) - 1 /\ DOMAIN s = 1 .. Len(s)
  BY <1>1, EntryOf
<1> QED
  BY <1>1, <1>2

LEMMA WithoutOne ==
  ASSUME NEW S, NEW s \in Seq(S), NEW i \in 1 .. Len(s)
  PROVE  /\ RemoveAt(s, i) \in Seq(S) /\ Len(RemoveAt(s, i)) = Len(s) - 1
         /\ \A x \in 1 .. Len(s) - 1 : RemoveAt(s, i)[x] = IF x < i THEN s[x] ELSE s[x + 1]
<1> DEFINE a == SubSeq(s, 1, i - 1)
           b == SubSeq(s, i + 1, Len(s))
<1>1. Len(s) \in Nat /\ DOMAIN s = 1 .. Len(s)
  BY EntryOf
<1>2. a \in Seq(S) /\ Len(a) = i - 1 /\ \A x \in 1 .. i - 1 : a[x] = s[x]
  BY <1>1
<1>3. b \in Seq(S) /\ Len(b) = Len(s) - i /\ \A x \in 1 .. Len(s) - i : b[x] = s[x + i]
  <2>1. i + 1 \in Int /\ Len(s) \in Int /\ \A x \in i + 1 .. Len(s) : s[x] \in S
    BY <1>1
  <2>2. /\ b \in Seq(S) /\ Len(b) = IF i + 1 <= Len(s) THEN Len(s) - (i + 1) + 1 ELSE 0
        /\ \A x \in 1 .. Len(s) - (i + 1) + 1 : b[x] = s[i + 1 + x - 1]
    BY <2>1, SubSeqProperties
  <2> HIDE DEF b
  <2>3. i \in Int /\ Len(s) \in Int /\ i <= Len(s)
    BY <1>1
  <2>4. Len(s) - (i + 1) + 1 = Len(s) - i /\ (~(i + 1 <= Len(s)) => Len(s) - i = 0)
    BY <2>3
  <2>5. \A x \in 1 .. Len(s) - i : i + 1 + x - 1 = x + i
    BY <2>3
  <2>6. Len(b) = Len(s) - i
    BY <2>2, <2>4
  <2>7. ASSUME NEW x \in 1 .. Len(s) - i PROVE b[x] = s[x + i]
    BY <2>2, <2>4, <2>5
  <2> QED
    BY <2>2, <2>6, <2>7
<1>4. RemoveAt(s, i) = a \o b
  BY DEF RemoveAt
<1> HIDE DEF a, b
<1>5. /\ a \o b \in Seq(S) /\ Len(a \o b) = Len(a) + Len(b)
      /\ \A x \in 1 .. Len(a) + Len(b) : (a \o b)[x] = IF x <= Len(a) THEN a[x] ELSE b[x - Len(a)]
  BY <1>2, <1>3, ConcatProperties
<1>6. ASSUME NEW x \in 1 .. Len(s) - 1
      PROVE  RemoveAt(s, i)[x] = IF x < i THEN s[x] ELSE s[x + 1]
  <2>1. CASE x < i
    <3>1. x \in 1 .. i - 1
      BY <1>1, <2>1
    <3> QED
      BY <1>1, <1>2, <1>3, <1>4, <1>5, <2>1, <3>1
  <2>2. CASE ~(x < i)
    <3>1. x - (i - 1) \in 1 .. Len(s) - i /\ (x - (i - 1)) + i = x + 1
      BY <1>1, <2>2
    <3>2. b[x - (i - 1)] = s[x + 1]
      BY <1>3, <3>1
    <3> QED
      BY <1>1, <1>2, <1>3, <1>4, <1>5, <2>2, <3>2
  <2> QED
    BY <2>1, <2>2
<1> QED
  BY <1>1, <1>2, <1>3, <1>4, <1>5, <1>6

-----------------------------------------------------------------------------

LEMMA PendingFinite ==
  ASSUME NEW g
  PROVE  IsFiniteSet(Pending(g)) /\ Cardinality(Pending(g)) \in Nat
<1>1. IsFiniteSet(Sends)
  BY FS_Interval, OutboundAssumption DEF Sends
<1>2. Pending(g) \in SUBSET Sends
  BY DEF Pending
<1>3. IsFiniteSet(Pending(g))
  BY <1>1, <1>2, FS_Subset
<1> QED
  BY <1>3, FS_CardinalityType

LEMMA SendOf ==
  ASSUME OutboundTypeOK, NEW n \in Sends
  PROVE  /\ n \in Nat /\ n # 0 /\ made \in Nat /\ sock \in Nat
         /\ stage[n] \in Stages /\ call[n].on \in 0 .. MaxSockets
         /\ call[n].tracked \in BOOLEAN /\ call[n].long \in BOOLEAN /\ call[n].deletes \in 0 .. MaxSends
<1>1. /\ sock \in 0 .. MaxSockets /\ made \in 0 .. MaxSends /\ stage[n] \in Stages
      /\ call[n] \in [on : 0 .. MaxSockets, tracked : BOOLEAN, long : BOOLEAN, deletes : 0 .. MaxSends]
  BY DEF OutboundTypeOK
<1>2. n \in Nat /\ n # 0
  BY DEF Sends
<1> QED
  BY <1>1, <1>2

\* The queue of g takes n or lets it pass.
LEMMA EnqueueMoves ==
  ASSUME OutboundTypeOK, NEW n \in Sends, NEW g \in Sockets, Enqueue(n, g)
  PROVE  /\ stage' \in [Sends -> Stages] /\ backlog' \in [Sockets -> Seq(Sends)]
         /\ stage'[n] \in {"queued", "flying", "sunk"}
         /\ \A m \in Sends : m # n => stage'[m] = stage[m]
<1>1. Append(backlog[g], n) \in Seq(Sends)
  BY Lengthened DEF OutboundTypeOK
<1>2. Reaches(g) \in {"flying", "sunk"}
  BY DEF Reaches
<1> QED
  BY <1>1, <1>2 DEF OutboundTypeOK, Enqueue, Stages

LEMMA EndsMoves ==
  ASSUME OutboundTypeOK, CallsMade, QueuesHold, NEW n \in Sends, NEW end \in {"sent", "failed"},
         stage[n] \in {"flying", "sunk"}, EndsAs(n, end)
  PROVE  /\ stage' \in [Sends -> Stages] /\ backlog' \in [Sockets -> Seq(Sends)]
         /\ stage'[n] = end
         /\ \A m \in Sends : m # n =>
              stage'[m] = stage[m] \/ (stage[m] = "queued" /\ stage'[m] \in {"flying", "sunk"})
<1> DEFINE g == call[n].on
<1>1. CASE ~(call[n].tracked /\ backlog[g] # <<>>)
  BY <1>1 DEF OutboundTypeOK, EndsAs, Stages
<1>2. CASE call[n].tracked /\ backlog[g] # <<>>
  <2>1. g \in Sockets
    BY <1>2 DEF CallsMade, OutboundTypeOK, Sockets
  <2>2. backlog[g] \in Seq(Sends)
    BY <2>1 DEF OutboundTypeOK
  <2>3. /\ Head(backlog[g]) \in Sends /\ Tail(backlog[g]) \in Seq(Sends)
        /\ stage[Head(backlog[g])] = "queued"
    BY <1>2, <2>1, <2>2, Shortened DEF QueuesHold
  <2>4. Reaches(g) \in {"flying", "sunk"}
    BY DEF Reaches
  <2>5. /\ stage' = [stage EXCEPT ![n] = end, ![Head(backlog[g])] = Reaches(g)]
        /\ backlog' = [backlog EXCEPT ![g] = Tail(@)]
    BY <1>2 DEF EndsAs
  <2> HIDE DEF g
  <2> QED
    BY <2>1, <2>3, <2>4, <2>5 DEF OutboundTypeOK, Stages
<1> QED
  BY <1>1, <1>2

\* The queues, when nothing of them moves.
LEMMA QueuesStay ==
  ASSUME QueuesHold, UNCHANGED backlog,
         \A n \in Sends : /\ stage[n] = "queued" => stage'[n] = "queued" /\ call'[n] = call[n]
                          /\ (stage[n] \in {"flying", "sunk"} /\ call[n].tracked)
                               <=> (stage'[n] \in {"flying", "sunk"} /\ call'[n].tracked)
                          /\ stage[n] \in {"flying", "sunk"} => call'[n] = call[n],
         OutboundTypeOK
  PROVE  QueuesHold'
<1> SUFFICES ASSUME NEW g \in Sockets
             PROVE  /\ \A x \in DOMAIN backlog'[g] :
                         LET n == backlog'[g][x] IN stage'[n] = "queued" /\ call'[n].tracked /\ call'[n].on = g
                    /\ \A x, y \in DOMAIN backlog'[g] : backlog'[g][x] = backlog'[g][y] => x = y
                    /\ Cardinality(Pending(g)') <= SendConcurrency
                    /\ backlog'[g] # <<>> => Cardinality(Pending(g)') = SendConcurrency
  BY DEF QueuesHold
<1>1. Pending(g)' = Pending(g)
  BY DEF Pending
<1>2. backlog[g] \in Seq(Sends) /\ backlog'[g] = backlog[g]
  BY DEF OutboundTypeOK
<1>3. \A x \in DOMAIN backlog[g] : backlog[g][x] \in Sends
  BY <1>2, EntryOf
<1> QED
  BY <1>1, <1>2, <1>3 DEF QueuesHold

\* ... when n is added to the queue of g ...
LEMMA EnqueueHolds ==
  ASSUME OutboundTypeOK, QueuesHold, NEW n \in Sends, NEW g \in Sockets, Enqueue(n, g),
         stage[n] \in {"none", "typing"},
         \A m \in Sends : m # n => call'[m] = call[m],
         call'[n].tracked, call'[n].on = g
  PROVE  QueuesHold'
<1> SUFFICES ASSUME NEW h \in Sockets
             PROVE  /\ \A x \in DOMAIN backlog'[h] :
                         LET k == backlog'[h][x] IN stage'[k] = "queued" /\ call'[k].tracked /\ call'[k].on = h
                    /\ \A x, y \in DOMAIN backlog'[h] : backlog'[h][x] = backlog'[h][y] => x = y
                    /\ Cardinality(Pending(h)') <= SendConcurrency
                    /\ backlog'[h] # <<>> => Cardinality(Pending(h)') = SendConcurrency
  BY DEF QueuesHold
<1>1. backlog[h] \in Seq(Sends) /\ backlog[g] \in Seq(Sends) /\ Reaches(g) \in {"flying", "sunk"}
  BY DEF OutboundTypeOK, Reaches
<1>2. /\ \A x \in DOMAIN backlog[h] :
           /\ backlog[h][x] \in Sends /\ stage[backlog[h][x]] = "queued" /\ backlog[h][x] # n
           /\ call[backlog[h][x]].tracked /\ call[backlog[h][x]].on = h
      /\ \A x, y \in DOMAIN backlog[h] : backlog[h][x] = backlog[h][y] => x = y
  BY <1>1, EntryOf DEF QueuesHold
<1>3. /\ Cardinality(Pending(h)) <= SendConcurrency
      /\ backlog[h] # <<>> => Cardinality(Pending(h)) = SendConcurrency
      /\ Cardinality(Pending(h)) \in Nat /\ IsFiniteSet(Pending(h)) /\ SendConcurrency \in Nat \ {0}
  BY PendingFinite, OutboundAssumption DEF QueuesHold
<1>4. n \notin Pending(h) /\ \A m \in Sends : m # n => stage'[m] = stage[m]
  BY EnqueueMoves DEF Pending
<1>5. CASE h # g
  <2>1. Pending(h)' = Pending(h)
    BY <1>4, <1>5 DEF Pending
  <2>2. backlog'[h] = backlog[h]
    BY <1>5 DEF Enqueue, OutboundTypeOK
  <2> QED
    BY <1>2, <1>3, <1>4, <2>1, <2>2
<1>6. CASE h = g /\ Cardinality(Pending(g)) < SendConcurrency
  <2>1. stage' = [stage EXCEPT ![n] = Reaches(g)] /\ backlog' = backlog /\ backlog[h] = <<>>
    BY <1>3, <1>6 DEF Enqueue
  <2>2. stage'[n] \in {"flying", "sunk"}
    BY <1>1, <2>1 DEF OutboundTypeOK
  <2>3. Pending(h)' = Pending(h) \union {n}
    BY <1>4, <1>6, <2>2 DEF Pending
  <2>4. Cardinality(Pending(h)') = Cardinality(Pending(h)) + 1
    <3>1. Cardinality(Pending(h) \union {n}) = Cardinality(Pending(h)) + 1
      BY <1>3, <1>4, FS_AddElement
    <3> QED
      BY <2>3, <3>1
  <2>5. DOMAIN backlog'[h] = {}
    BY <2>1
  <2> QED
    BY <1>3, <1>6, <2>1, <2>4, <2>5
<1>7. CASE h = g /\ ~(Cardinality(Pending(g)) < SendConcurrency)
  <2>1. stage' = [stage EXCEPT ![n] = "queued"] /\ backlog' = [backlog EXCEPT ![g] = Append(@, n)]
    BY <1>7 DEF Enqueue
  <2>2. stage'[n] = "queued" /\ backlog'[h] = Append(backlog[h], n)
    BY <1>7, <2>1 DEF OutboundTypeOK
  <2>3. Pending(h)' = Pending(h)
    BY <1>4, <1>7, <2>2 DEF Pending
  <2>4. /\ DOMAIN backlog'[h] = 1 .. Len(backlog[h]) + 1 /\ Len(backlog[h]) \in Nat
        /\ DOMAIN backlog[h] = 1 .. Len(backlog[h])
        /\ \A x \in 1 .. Len(backlog[h]) : backlog'[h][x] = backlog[h][x]
        /\ backlog'[h][Len(backlog[h]) + 1] = n
    BY <1>1, <2>2, Lengthened, EntryOf
  <2>5. \A x \in DOMAIN backlog'[h] : x \in DOMAIN backlog[h] \/ x = Len(backlog[h]) + 1
    BY <2>4
  <2>6. \A x \in DOMAIN backlog'[h] :
          stage'[backlog'[h][x]] = "queued" /\ call'[backlog'[h][x]].tracked /\ call'[backlog'[h][x]].on = h
    BY <1>2, <1>4, <1>7, <2>2, <2>4, <2>5
  <2>7. \A x, y \in DOMAIN backlog'[h] : backlog'[h][x] = backlog'[h][y] => x = y
    BY <1>2, <2>4, <2>5
  <2> QED
    BY <1>3, <1>7, <2>3, <2>6, <2>7
<1> QED
  BY <1>5, <1>6, <1>7

\* ... and when n leaves it.
LEMMA EndsHolds ==
  ASSUME OutboundTypeOK, CallsMade, QueuesHold, NEW n \in Sends, NEW end \in {"sent", "failed"},
         stage[n] \in {"flying", "sunk"}, EndsAs(n, end), UNCHANGED call
  PROVE  QueuesHold'
<1> SUFFICES ASSUME NEW h \in Sockets
             PROVE  /\ \A x \in DOMAIN backlog'[h] :
                         LET k == backlog'[h][x] IN stage'[k] = "queued" /\ call'[k].tracked /\ call'[k].on = h
                    /\ \A x, y \in DOMAIN backlog'[h] : backlog'[h][x] = backlog'[h][y] => x = y
                    /\ Cardinality(Pending(h)') <= SendConcurrency
                    /\ backlog'[h] # <<>> => Cardinality(Pending(h)') = SendConcurrency
  BY DEF QueuesHold
<1> DEFINE g == call[n].on
           line == backlog[h]
<1>1. line \in Seq(Sends) /\ Reaches(g) \in {"flying", "sunk"}
  BY DEF OutboundTypeOK, Reaches
<1>2. /\ \A x \in DOMAIN line :
           /\ line[x] \in Sends /\ stage[line[x]] = "queued" /\ line[x] # n
           /\ call[line[x]].tracked /\ call[line[x]].on = h
      /\ \A x, y \in DOMAIN line : line[x] = line[y] => x = y
  BY <1>1, EntryOf DEF QueuesHold
<1>3. /\ Cardinality(Pending(h)) <= SendConcurrency
      /\ line # <<>> => Cardinality(Pending(h)) = SendConcurrency
      /\ Cardinality(Pending(h)) \in Nat /\ IsFiniteSet(Pending(h)) /\ SendConcurrency \in Nat \ {0}
  BY PendingFinite, OutboundAssumption DEF QueuesHold
<1>4. CASE ~call[n].tracked
  <2>1. stage' = [stage EXCEPT ![n] = end] /\ backlog' = backlog
    BY <1>4 DEF EndsAs
  <2>2. \A m \in Sends : m # n => stage'[m] = stage[m]
    BY <2>1 DEF OutboundTypeOK
  <2>3. Pending(h)' = Pending(h)
    BY <1>4, <2>2 DEF Pending
  <2> QED
    BY <1>2, <1>3, <2>1, <2>2, <2>3
<1>5. CASE call[n].tracked /\ backlog[g] = <<>>
  <2>1. stage' = [stage EXCEPT ![n] = end] /\ backlog' = backlog
    BY <1>5 DEF EndsAs
  <2>2. stage'[n] = end /\ \A m \in Sends : m # n => stage'[m] = stage[m]
    BY <2>1 DEF OutboundTypeOK
  <2>3. Pending(h)' = Pending(h) \ {n}
    BY <2>2 DEF Pending
  <2>4. Cardinality(Pending(h)') <= Cardinality(Pending(h)) /\ Cardinality(Pending(h)') \in Nat
    <3>1. IsFiniteSet(Pending(h) \ {n}) /\ Cardinality(Pending(h) \ {n}) <= Cardinality(Pending(h))
      BY <1>3, FS_Subset
    <3>2. Cardinality(Pending(h) \ {n}) \in Nat
      BY <3>1, FS_CardinalityType
    <3> QED
      BY <2>3, <3>1, <3>2
  <2>5. h # g => n \notin Pending(h)
    BY DEF Pending
  <2>6. h # g => Pending(h)' = Pending(h)
    BY <2>3, <2>5
  <2> HIDE DEF g
  <2> QED
    BY <1>2, <1>3, <1>5, <2>1, <2>2, <2>4, <2>6
<1>6. CASE call[n].tracked /\ backlog[g] # <<>>
  <2> DEFINE first == Head(backlog[g])
  <2>1. g \in Sockets
    BY <1>6 DEF CallsMade, OutboundTypeOK, Sockets
  <2>2. backlog[g] \in Seq(Sends)
    BY <2>1 DEF OutboundTypeOK
  <2>3. /\ first \in Sends /\ stage[first] = "queued" /\ call[first].tracked /\ call[first].on = g
        /\ first = backlog[g][1]
    BY <1>6, <2>1, <2>2, Shortened DEF QueuesHold
  <2>4. /\ stage' = [stage EXCEPT ![n] = end, ![first] = Reaches(g)]
        /\ backlog' = [backlog EXCEPT ![g] = Tail(@)]
    BY <1>6 DEF EndsAs
  <2>5. /\ stage'[n] = end /\ stage'[first] \in {"flying", "sunk"} /\ n # first
        /\ \A m \in Sends : m # n /\ m # first => stage'[m] = stage[m]
    BY <1>1, <2>3, <2>4 DEF OutboundTypeOK
  <2>6. CASE h # g
    <3>1. Pending(h)' = Pending(h)
      BY <2>3, <2>5, <2>6 DEF Pending
    <3>2. backlog'[h] = line
      BY <2>4, <2>6 DEF OutboundTypeOK
    <3>3. \A x \in DOMAIN line : line[x] # first
      BY <1>2, <2>3, <2>6
    <3> HIDE DEF line, first, g
    <3> QED
      BY <1>2, <1>3, <2>5, <3>1, <3>2, <3>3
  <2>7. CASE h = g
    <3>1. Pending(h)' = (Pending(h) \ {n}) \union {first}
      BY <1>6, <2>3, <2>5, <2>7 DEF Pending
    <3>2. n \in Pending(h) /\ first \notin Pending(h)
      BY <1>6, <2>3, <2>7 DEF Pending
    <3>3. Cardinality(Pending(h) \ {n}) = Cardinality(Pending(h)) - 1 /\ IsFiniteSet(Pending(h) \ {n})
      BY <1>3, <3>2, FS_RemoveElement
    <3>4. Cardinality(Pending(h)') = Cardinality(Pending(h) \ {n}) + 1
      BY <3>1, <3>2, <3>3, FS_AddElement
    <3>5. Cardinality(Pending(h)') = SendConcurrency
      BY <1>3, <1>6, <2>7, <3>3, <3>4
    <3>6. backlog'[h] = Tail(line) /\ line # <<>>
      BY <1>6, <2>1, <2>4, <2>7 DEF OutboundTypeOK
    <3>7. /\ DOMAIN Tail(line) = 1 .. Len(line) - 1 /\ Len(line) \in Nat /\ DOMAIN line = 1 .. Len(line)
          /\ \A x \in 1 .. Len(line) - 1 : Tail(line)[x] = line[x + 1] /\ x + 1 \in DOMAIN line
          /\ first = line[1] /\ 1 \in DOMAIN line
      BY <1>1, <2>3, <2>7, <3>6, Shortened, EntryOf
    <3> HIDE DEF line, first, g
    <3>8. \A x \in 1 .. Len(line) - 1 : line[x + 1] # first
      BY <1>2, <3>7
    <3>9. \A x \in DOMAIN backlog'[h] :
            LET k == backlog'[h][x] IN stage'[k] = "queued" /\ call'[k].tracked /\ call'[k].on = h
      BY <1>2, <2>5, <3>6, <3>7, <3>8
    <3>10. \A x, y \in DOMAIN backlog'[h] : backlog'[h][x] = backlog'[h][y] => x = y
      BY <1>2, <3>6, <3>7
    <3> QED
      BY <1>3, <3>5, <3>9, <3>10
  <2> QED
    BY <2>6, <2>7
<1> QED
  BY <1>4, <1>5, <1>6

-----------------------------------------------------------------------------
(* What went out *)

\* A shorter list is still in line ...
LEMMA TailInLine ==
  ASSUME NEW s \in Seq(Sends), NEW past \in Seq(Sends), InLine(s, past), s # <<>>
  PROVE  InLine(Tail(s), past)
<1>1. /\ DOMAIN Tail(s) = 1 .. Len(s) - 1 /\ Len(s) \in Nat
      /\ \A x \in 1 .. Len(s) - 1 : Tail(s)[x] = s[x + 1] /\ x + 1 \in DOMAIN s
  BY Shortened, EntryOf
<1> QED
  BY <1>1 DEF InLine

LEMMA WithoutInLine ==
  ASSUME NEW s \in Seq(Sends), NEW past \in Seq(Sends), InLine(s, past), NEW i \in 1 .. Len(s)
  PROVE  InLine(RemoveAt(s, i), past)
<1> DEFINE t == RemoveAt(s, i)
           from(x) == IF x < i THEN x ELSE x + 1
<1>1. /\ Len(s) \in Nat /\ DOMAIN s = 1 .. Len(s) /\ DOMAIN t = 1 .. Len(s) - 1
      /\ \A x \in 1 .. Len(s) - 1 : t[x] = s[from(x)]
  BY WithoutOne, EntryOf
<1>2. \A x \in DOMAIN t : from(x) \in DOMAIN s
  BY <1>1
<1>3. \A x, y \in DOMAIN t : x < y => from(x) < from(y)
  BY <1>1
<1> HIDE DEF t, from
<1>4. InLine(t, past)
  BY <1>1, <1>2, <1>3 DEF InLine
<1> QED
  BY <1>4 DEF t

\* ... and so is one that has the last that went out.
LEMMA LongerInLine ==
  ASSUME NEW s \in Seq(Sends), NEW past \in Seq(Sends), InLine(s, past), NEW n \in Sends, n \notin ToSet(past)
  PROVE  InLine(s, Append(past, n)) /\ InLine(Append(s, n), Append(past, n))
<1> DEFINE t == Append(s, n)
           now == Append(past, n)
<1>1. /\ Len(s) \in Nat /\ DOMAIN s = 1 .. Len(s) /\ DOMAIN t = 1 .. Len(s) + 1
      /\ \A x \in 1 .. Len(s) : t[x] = s[x]
      /\ t[Len(s) + 1] = n
  BY Lengthened, EntryOf
<1>2. /\ Len(past) \in Nat /\ DOMAIN past = 1 .. Len(past) /\ DOMAIN now = 1 .. Len(past) + 1
      /\ \A x \in 1 .. Len(past) : now[x] = past[x]
      /\ now[Len(past) + 1] = n /\ ToSet(now) = ToSet(past) \union {n}
  BY Lengthened, EntryOf
<1>3. \A x \in DOMAIN s : s[x] # n
  BY DEF InLine
<1>4. \A a \in DOMAIN past : past[a] # n
  BY DEF ToSet
<1> HIDE DEF t, now
<1>5. InLine(s, now)
  <2> SUFFICES ASSUME NEW x \in DOMAIN s, NEW y \in DOMAIN s, NEW a \in DOMAIN now, NEW b \in DOMAIN now,
                      x < y, now[a] = s[x], now[b] = s[y]
               PROVE  a < b
    BY <1>2 DEF InLine
  <2>1. a \in DOMAIN past /\ b \in DOMAIN past
    BY <1>2, <1>3
  <2> QED
    BY <1>2, <2>1 DEF InLine
<1>6. InLine(t, now)
  <2>1. \A x \in DOMAIN t : t[x] \in ToSet(now)
    BY <1>1, <1>2 DEF InLine
  <2> SUFFICES ASSUME NEW x \in DOMAIN t, NEW y \in DOMAIN t, NEW a \in DOMAIN now, NEW b \in DOMAIN now,
                      x < y, now[a] = t[x], now[b] = t[y]
               PROVE  a < b
    BY <2>1 DEF InLine
  <2>2. CASE y \in DOMAIN s
    <3>1. x \in DOMAIN s /\ t[x] = s[x] /\ t[y] = s[y]
      BY <1>1, <2>2
    <3> QED
      BY <1>5, <2>2, <3>1 DEF InLine
  <2>3. CASE y = Len(s) + 1
    <3>1. x \in DOMAIN s /\ t[x] = s[x] /\ t[y] = n
      BY <1>1, <2>3
    <3>2. b = Len(past) + 1 /\ a \in DOMAIN past
      BY <1>2, <1>3, <1>4, <3>1
    <3> QED
      BY <1>2, <3>2
  <2> QED
    BY <1>1, <2>2, <2>3
<1> QED
  BY <1>5, <1>6 DEF t, now

LEMMA InLineOnce ==
  ASSUME NEW s \in Seq(Sends), NEW past \in Seq(Sends), InLine(s, past)
  PROVE  IsInjective(s)
<1> SUFFICES ASSUME NEW x \in DOMAIN s, NEW y \in DOMAIN s, s[x] = s[y], x # y
             PROVE  FALSE
  BY DEF IsInjective
<1>1. x \in Nat /\ y \in Nat /\ DOMAIN past \subseteq Nat
  BY EntryOf
<1>2. PICK a \in DOMAIN past : past[a] = s[x]
  BY DEF InLine, ToSet
<1>3. x < y \/ y < x
  BY <1>1
<1>4. a < a
  BY <1>2, <1>3 DEF InLine
<1> QED
  BY <1>1, <1>4

\* What the list is after a send arrived: it keeps all of what it had but what was
\* deleted and, when there is no room, the oldest.
LEMMA PushedList ==
  ASSUME ring \in Seq(Sends), Len(ring) <= MaxPerChat, NEW n \in Sends
  PROVE  /\ Pushed(n) \in Seq(Sends) /\ Len(Pushed(n)) <= MaxPerChat
         /\ \A k \in ToSet(Pushed(n)) : k \in ToSet(ring) \/ k = n
         /\ n \in ToSet(Pushed(n))
         /\ \A x \in DOMAIN ring : ring[x] \in ToSet(Pushed(n)) \/ (x = 1 /\ Len(ring) = MaxPerChat)
         /\ \A past \in Seq(Sends) : InLine(ring, past) /\ n \notin ToSet(past) => InLine(Pushed(n), Append(past, n))
<1> DEFINE all == Append(ring, n)
<1>1. /\ all \in Seq(Sends) /\ Len(all) = Len(ring) + 1 /\ DOMAIN all = 1 .. Len(ring) + 1
      /\ \A x \in 1 .. Len(ring) : all[x] = ring[x]
      /\ all[Len(ring) + 1] = n /\ ToSet(all) = ToSet(ring) \union {n}
      /\ Len(ring) \in Nat /\ DOMAIN ring = 1 .. Len(ring) /\ MaxPerChat \in Nat \ {0}
      /\ all # <<>>
  BY Lengthened, EntryOf, OutboundAssumption
<1>2. \A past \in Seq(Sends) : InLine(ring, past) /\ n \notin ToSet(past) => InLine(all, Append(past, n))
  BY LongerInLine
<1>3. Pushed(n) = IF Len(all) > MaxPerChat THEN Tail(all) ELSE all
  BY DEF Pushed
<1> HIDE DEF all
<1>4. CASE ~(Len(all) > MaxPerChat)
  <2>1. Pushed(n) = all /\ Len(all) <= MaxPerChat
    BY <1>1, <1>3, <1>4
  <2>2. \A x \in DOMAIN ring : ring[x] \in ToSet(ring)
    BY DEF ToSet
  <2> QED
    BY <1>1, <1>2, <2>1, <2>2
<1>5. CASE Len(all) > MaxPerChat
  <2>1. Pushed(n) = Tail(all) /\ Len(ring) = MaxPerChat
    <3>1. Len(all) = Len(ring) + 1 /\ Len(ring) \in Nat /\ MaxPerChat \in Nat
      BY <1>1
    <3> QED
      BY <1>3, <1>5, <3>1
  <2>2. /\ Tail(all) \in Seq(Sends) /\ Len(Tail(all)) = Len(ring) /\ DOMAIN Tail(all) = 1 .. Len(ring)
        /\ \A x \in 1 .. Len(ring) : Tail(all)[x] = all[x + 1] /\ x + 1 \in DOMAIN all
    BY <1>1, Shortened
  <2>3. \A k \in ToSet(Tail(all)) : k \in ToSet(all)
    BY <2>2 DEF ToSet
  <2>4. Tail(all)[Len(ring)] = n /\ Len(ring) \in DOMAIN Tail(all)
    BY <1>1, <2>1, <2>2
  <2>5. \A x \in DOMAIN ring : x # 1 => x - 1 \in DOMAIN Tail(all) /\ Tail(all)[x - 1] = ring[x]
    BY <1>1, <2>2
  <2>6. n \in ToSet(Tail(all)) /\ \A x \in DOMAIN ring : x # 1 => ring[x] \in ToSet(Tail(all))
    BY <2>4, <2>5 DEF ToSet
  <2>7. \A past \in Seq(Sends) : InLine(ring, past) /\ n \notin ToSet(past) => InLine(Tail(all), Append(past, n))
    BY <1>1, <1>2, TailInLine, Lengthened
  <2> QED
    BY <1>1, <2>1, <2>2, <2>3, <2>6, <2>7
<1> QED
  BY <1>4, <1>5

LEMMA ForgottenList ==
  ASSUME NEW s \in Seq(Sends), NEW k
  PROVE  /\ Forgotten(s, k) \in Seq(Sends) /\ Len(Forgotten(s, k)) <= Len(s)
         /\ \A e \in ToSet(Forgotten(s, k)) : e \in ToSet(s)
         /\ \A e \in ToSet(s) : e # k => e \in ToSet(Forgotten(s, k))
         /\ IsInjective(s) => k \notin ToSet(Forgotten(s, k))
         /\ \A past \in Seq(Sends) : InLine(s, past) => InLine(Forgotten(s, k), past)
<1>1. CASE k \notin ToSet(s)
  <2>1. Len(s) \in Nat
    BY EntryOf
  <2> QED
    BY <1>1, <2>1 DEF Forgotten
<1>2. CASE k \in ToSet(s)
  <2> DEFINE i == CHOOSE x \in DOMAIN s : s[x] = k
             t == RemoveAt(s, i)
  <2>1. Forgotten(s, k) = t
    BY <1>2 DEF Forgotten
  <2>2. Len(s) \in Nat /\ DOMAIN s = 1 .. Len(s) /\ \E x \in DOMAIN s : s[x] = k
    BY <1>2, EntryOf
  <2>3. i \in 1 .. Len(s) /\ s[i] = k
    BY <2>2
  <2> HIDE DEF i
  <2>4. /\ t \in Seq(Sends) /\ Len(t) = Len(s) - 1 /\ DOMAIN t = 1 .. Len(s) - 1
        /\ \A x \in 1 .. Len(s) - 1 : t[x] = IF x < i THEN s[x] ELSE s[x + 1]
    BY <2>3, WithoutOne, EntryOf
  <2>5. \A past \in Seq(Sends) : InLine(s, past) => InLine(t, past)
    BY <2>3, WithoutInLine
  <2> HIDE DEF t
  <2>6. \A e \in ToSet(t) : e \in ToSet(s)
    BY <2>2, <2>3, <2>4 DEF ToSet
  <2>7. ASSUME NEW e \in ToSet(s), e # k
        PROVE  e \in ToSet(t)
    <3>1. PICK x \in DOMAIN s : s[x] = e
      BY EntryOf
    <3>2. CASE x < i
      <4>1. x \in DOMAIN t /\ t[x] = e
        BY <2>2, <2>3, <2>4, <3>1, <3>2
      <4> QED
        BY <4>1 DEF ToSet
    <3>3. CASE ~(x < i)
      <4>1. x # i
        BY <2>3, <2>7, <3>1
      <4>2. x - 1 \in DOMAIN t /\ t[x - 1] = e
        BY <2>2, <2>3, <2>4, <3>1, <3>3, <4>1
      <4> QED
        BY <4>2 DEF ToSet
    <3> QED
      BY <3>2, <3>3
  <2>8. ASSUME IsInjective(s), k \in ToSet(t)
        PROVE  FALSE
    <3>1. PICK x \in DOMAIN t : t[x] = k
      BY <2>4, <2>8, EntryOf
    <3>2. CASE x < i
      <4>1. x \in DOMAIN s /\ s[x] = k /\ x # i /\ i \in DOMAIN s
        BY <2>2, <2>3, <2>4, <3>1, <3>2
      <4> QED
        BY <2>3, <2>8, <4>1 DEF IsInjective
    <3>3. CASE ~(x < i)
      <4>1. x + 1 \in DOMAIN s /\ s[x + 1] = k /\ x + 1 # i /\ i \in DOMAIN s
        BY <2>2, <2>3, <2>4, <3>1, <3>3
      <4> QED
        BY <2>3, <2>8, <4>1 DEF IsInjective
    <3> QED
      BY <3>2, <3>3
  <2>9. Len(t) <= Len(s)
    BY <2>2, <2>4
  <2> QED
    BY <2>1, <2>4, <2>5, <2>6, <2>7, <2>8, <2>9
<1> QED
  BY <1>1, <1>2

\* What the list loses when it is full has as many after it as the list can have.
LEMMA EvictedCounts ==
  ASSUME ring \in Seq(Sends), NEW past \in Seq(Sends), InLine(ring, past), Len(ring) = MaxPerChat,
         \A x \in DOMAIN ring : call[ring[x]].tracked,
         NEW n \in Sends, n \notin ToSet(past), call[n].tracked,
         NEW a \in DOMAIN past, past[a] = ring[1]
  PROVE  Cardinality({j \in a + 1 .. Len(past) + 1 : call[Append(past, n)[j]].tracked}) >= MaxPerChat
<1> DEFINE now == Append(past, n)
           later == {j \in a + 1 .. Len(past) + 1 : call[now[j]].tracked}
           at(q) == CHOOSE b \in DOMAIN past : past[b] = ring[q + 1]
           f == [q \in 1 .. MaxPerChat |-> IF q = MaxPerChat THEN Len(past) + 1 ELSE at(q)]
<1>1. /\ MaxPerChat \in Nat \ {0} /\ DOMAIN ring = 1 .. MaxPerChat
      /\ Len(past) \in Nat /\ DOMAIN past = 1 .. Len(past)
      /\ \A x \in 1 .. Len(past) : now[x] = past[x]
      /\ now[Len(past) + 1] = n
  BY OutboundAssumption, EntryOf, Lengthened
<1>2. ASSUME NEW q \in 1 .. MaxPerChat, q # MaxPerChat
      PROVE  at(q) \in DOMAIN past /\ past[at(q)] = ring[q + 1] /\ a < at(q) /\ call[past[at(q)]].tracked
  <2>1. q + 1 \in DOMAIN ring /\ 1 \in DOMAIN ring /\ 1 < q + 1
    BY <1>1, <1>2
  <2>2. ring[q + 1] \in ToSet(past)
    BY <2>1 DEF InLine
  <2>3. \E b \in DOMAIN past : past[b] = ring[q + 1]
    BY <2>2, EntryOf
  <2>4. at(q) \in DOMAIN past /\ past[at(q)] = ring[q + 1]
    BY <2>3
  <2> HIDE DEF at
  <2>5. a < at(q)
    BY <2>1, <2>4 DEF InLine
  <2> QED
    BY <2>1, <2>4, <2>5
<1> HIDE DEF at, now
<1>3. ASSUME NEW q \in 1 .. MaxPerChat
      PROVE  f[q] \in later
  <2>1. CASE q = MaxPerChat
    BY <1>1, <2>1
  <2>2. CASE q # MaxPerChat
    BY <1>1, <1>2, <2>2
  <2> QED
    BY <2>1, <2>2
<1>4. ASSUME NEW q \in 1 .. MaxPerChat, NEW r \in 1 .. MaxPerChat, f[q] = f[r]
      PROVE  q = r
  <2>1. CASE q = MaxPerChat \/ r = MaxPerChat
    BY <1>1, <1>2, <1>4, <2>1
  <2>2. CASE q # MaxPerChat /\ r # MaxPerChat
    <3>1. ring[q + 1] = ring[r + 1] /\ q + 1 \in DOMAIN ring /\ r + 1 \in DOMAIN ring
      BY <1>1, <1>2, <1>4, <2>2
    <3>2. q + 1 = r + 1
      BY <3>1, InLineOnce DEF IsInjective
    <3> QED
      BY <3>2
  <2> QED
    BY <2>1, <2>2
<1>5. f \in [1 .. MaxPerChat -> later]
  BY <1>3
<1>6. f \in Injection(1 .. MaxPerChat, later)
  BY <1>4, <1>5 DEF Injection, IsInjective
<1>7. IsFiniteSet(a + 1 .. Len(past) + 1) /\ Cardinality(1 .. MaxPerChat) = MaxPerChat
  BY <1>1, FS_Interval
<1>8. IsFiniteSet(later)
  BY <1>7, FS_Subset
<1> HIDE DEF f, later
<1>9. MaxPerChat <= Cardinality(later) /\ Cardinality(later) \in Nat
  BY <1>6, <1>7, <1>8, FS_Injection, FS_CardinalityType
<1> QED
  BY <1>1, <1>9 DEF later, now

\* A later end can only be further away.
LEMMA LaterCounts ==
  ASSUME NEW past \in Seq(Sends), NEW n \in Sends, NEW a \in DOMAIN past,
         Cardinality({j \in a + 1 .. Len(past) : call[past[j]].tracked}) >= MaxPerChat
  PROVE  Cardinality({j \in a + 1 .. Len(past) + 1 : call[Append(past, n)[j]].tracked}) >= MaxPerChat
<1> DEFINE now == Append(past, n)
           before == {j \in a + 1 .. Len(past) : call[past[j]].tracked}
           later == {j \in a + 1 .. Len(past) + 1 : call[now[j]].tracked}
<1>1. /\ Len(past) \in Nat /\ DOMAIN past = 1 .. Len(past) /\ MaxPerChat \in Nat
      /\ \A x \in 1 .. Len(past) : now[x] = past[x]
  BY OutboundAssumption, EntryOf, Lengthened
<1> HIDE DEF now
<1>2. before \in SUBSET later
  BY <1>1
<1>3. IsFiniteSet(a + 1 .. Len(past) + 1)
  BY <1>1, FS_Interval
<1>4. IsFiniteSet(later)
  BY <1>3, FS_Subset
<1>5. Cardinality(before) >= MaxPerChat
  OBVIOUS
<1> HIDE DEF before, later
<1>6. Cardinality(before) <= Cardinality(later) /\ Cardinality(later) \in Nat /\ Cardinality(before) \in Nat
  BY <1>2, <1>4, FS_Subset, FS_CardinalityType
<1>7. Cardinality(later) >= MaxPerChat
  BY <1>1, <1>5, <1>6
<1> QED
  BY <1>7 DEF later, now

-----------------------------------------------------------------------------
(* What a step leaves alone *)

LEMMA CallsStay ==
  ASSUME OutboundTypeOK, CallsMade, UNCHANGED <<made, call>>, sock' \in Nat, sock' >= sock,
         \A m \in Sends : /\ stage'[m] = "none" <=> stage[m] = "none"
                          /\ stage'[m] \in {"typing", "queued"} => call[m].tracked
  PROVE  CallsMade'
BY SendOf DEF CallsMade

\* Nothing arrives or fails; a send that is called deletes what was sent.
LEMMA RecordStays ==
  ASSUME OutboundIInv, UNCHANGED trackVars,
         \A m \in Sends : /\ stage[m] \in {"sent", "failed"} \/ stage'[m] \in {"sent", "failed"} =>
                               stage'[m] = stage[m] /\ call'[m] = call[m]
                          /\ call'[m].deletes \in 0 .. MaxSends
                          /\ call'[m].deletes # 0 => stage[call'[m].deletes] = "sent"
  PROVE  WentOut' /\ RingIsComplete' /\ Deletes'
<1>1. \A m \in Sends : stage'[m] = "sent" <=> stage[m] = "sent"
  OBVIOUS
<1>2. \A i \in DOMAIN delivered : delivered[i] \in Sends /\ call'[delivered[i]] = call[delivered[i]]
  <2>1. \A i \in DOMAIN delivered : delivered[i] \in Sends /\ delivered[i] \in ToSet(delivered)
    BY EntryOf DEF OutboundIInv, OutboundTypeOK
  <2> QED
    BY <2>1 DEF OutboundIInv, WentOut
<1>3. \A x \in DOMAIN ring : ring[x] \in Sends /\ call'[ring[x]] = call[ring[x]]
  <2>1. \A x \in DOMAIN ring : ring[x] \in Sends /\ ring[x] \in ToSet(delivered)
    BY EntryOf DEF OutboundIInv, OutboundTypeOK, WentOut, InLine
  <2> QED
    BY <2>1 DEF OutboundIInv, WentOut
<1>4. /\ delivered' = delivered /\ ring' = ring /\ deleted' = deleted /\ unsure' = unsure
  BY DEF trackVars
<1>5. WentOut'
  BY <1>1, <1>3, <1>4 DEF OutboundIInv, WentOut, InLine
<1>6. RingIsComplete'
  <2> SUFFICES ASSUME NEW i \in DOMAIN delivered,
                      call'[delivered[i]].tracked, delivered[i] \notin ToSet(ring), delivered[i] \notin deleted
               PROVE  Cardinality({j \in i + 1 .. Len(delivered) : call'[delivered[j]].tracked}) >= MaxPerChat
    BY <1>4 DEF RingIsComplete
  <2>1. Len(delivered) \in Nat /\ DOMAIN delivered = 1 .. Len(delivered)
    BY EntryOf DEF OutboundIInv, OutboundTypeOK
  <2>2. {j \in i + 1 .. Len(delivered) : call'[delivered[j]].tracked} = {j \in i + 1 .. Len(delivered) : call[delivered[j]].tracked}
    BY <1>2, <2>1
  <2> QED
    BY <1>2, <2>2 DEF OutboundIInv, RingIsComplete
<1>7. Deletes'
  <2>1. \A n \in deleted' \union unsure' : stage'[n] = "sent"
    BY <1>1, <1>4 DEF OutboundIInv, OutboundTypeOK, Deletes
  <2>2. ASSUME NEW n \in Sends
        PROVE  /\ call'[n].deletes # 0 => stage'[call'[n].deletes] = "sent"
               /\ stage'[n] \in {"sent", "failed"} => Target(n)' \subseteq deleted' \union unsure'
    BY <1>1, <1>4 DEF OutboundIInv, Deletes, Target, Sends
  <2> QED
    BY <2>1, <2>2 DEF Deletes
<1> QED
  BY <1>5, <1>6, <1>7

LEMMA PurgesStay ==
  ASSUME OutboundIInv, UNCHANGED purgeVars, made' \in Nat, made' >= made,
         \A m \in Sends : /\ stage[m] = "sent" => stage'[m] = "sent"
                          /\ m <= made => call'[m] = call[m],
         deleted \subseteq deleted', unsure \subseteq unsure'
  PROVE  PurgeKnows' /\ PurgeCovers'
<1>1. purge' = purge /\ scope' = scope
  BY DEF purgeVars
<1>2. PurgeCovers'
  BY <1>1 DEF OutboundIInv, PurgeCovers
<1>3. ASSUME NEW p \in Purgers
      PROVE  /\ \A x \in DOMAIN purge[p].todo : stage'[purge[p].todo[x]] = "sent"
             /\ purge[p].awaits # 0 => /\ purge[p].todo # <<>> /\ purge[p].awaits <= made'
                                       /\ call'[purge[p].awaits].deletes = Head(purge[p].todo)
  <2>1. purge[p].todo \in Seq(Sends) /\ purge[p].awaits \in 0 .. MaxSends /\ made \in Nat
    BY DEF OutboundIInv, OutboundTypeOK
  <2>2. \A x \in DOMAIN purge[p].todo : purge[p].todo[x] \in Sends
    BY <2>1, EntryOf
  <2>3. purge[p].awaits # 0 => purge[p].awaits \in Sends
    BY <2>1 DEF Sends
  <2> QED
    BY <2>1, <2>2, <2>3 DEF OutboundIInv, PurgeKnows
<1> QED
  BY <1>1, <1>2, <1>3 DEF PurgeKnows

LEMMA TypingStays ==
  ASSUME TypingHasEnd, UNCHANGED <<sock, up, typingVars>>, thinking' = thinking,
         \A n \in Sends : call[n].long /\ call[n].on = sock /\ stage[n] \in {"typing", "queued", "flying", "sunk"} =>
            call'[n] = call[n] /\ stage'[n] \in {"typing", "queued", "flying", "sunk"}
  PROVE  TypingHasEnd'
BY DEF TypingHasEnd, typingVars

-----------------------------------------------------------------------------
(* Each action *)

LEMMA OutboundStarts == ASSUME OutboundInit PROVE OutboundIInv
<1>1. MaxSends \in Nat /\ MaxSockets \in Nat /\ MaxPerChat \in Nat \ {0} /\ MaxSendTrouble \in Nat
      /\ SendConcurrency \in Nat \ {0}
  BY OutboundAssumption
<1>2. <<>> \in Seq(Sends) /\ Len(<<>>) = 0 /\ ToSet(<<>>) = {} /\ DOMAIN <<>> = {}
  BY EmptySeq DEF ToSet
<1>3. OutboundTypeOK
  <2>1. NotCalled \in [on : 0 .. MaxSockets, tracked : BOOLEAN, long : BOOLEAN, deletes : 0 .. MaxSends]
    BY <1>1 DEF NotCalled
  <2>2. NoPurge \in [on : 0 .. MaxSockets, todo : Seq(Sends), awaits : 0 .. MaxSends]
    BY <1>1, <1>2 DEF NoPurge
  <2>3. /\ call \in [Sends -> [on : 0 .. MaxSockets, tracked : BOOLEAN, long : BOOLEAN, deletes : 0 .. MaxSends]]
        /\ purge \in [Purgers -> [on : 0 .. MaxSockets, todo : Seq(Sends), awaits : 0 .. MaxSends]]
        /\ stage \in [Sends -> Stages] /\ backlog \in [Sockets -> Seq(Sends)] /\ scope \in [Purgers -> SUBSET Sends]
    BY <1>2, <2>1, <2>2 DEF OutboundInit, Stages
  <2>4. ring \in Seq(Sends) /\ Len(ring) <= MaxPerChat /\ delivered \in Seq(Sends)
    BY <1>1, <1>2 DEF OutboundInit
  <2> QED
    <3>1. /\ sock \in 0 .. MaxSockets /\ made \in 0 .. MaxSends /\ thinking \in 0 .. MaxSockets
          /\ sendTrouble \in 0 .. MaxSendTrouble
      BY <1>1 DEF OutboundInit
    <3>2. /\ up \in BOOLEAN /\ shown \in BOOLEAN /\ pauseLost \in BOOLEAN
          /\ wrapped \subseteq 1 .. sock /\ deleted \subseteq Sends /\ unsure \subseteq Sends
      BY DEF OutboundInit
    <3> QED
      BY <2>3, <2>4, <3>1, <3>2 DEF OutboundTypeOK
<1>4. CallsMade
  BY DEF OutboundInit, CallsMade, NotCalled, Sends
<1>5. QueuesHold
  <2>1. ASSUME NEW g \in Sockets
        PROVE  Cardinality(Pending(g)) <= SendConcurrency /\ backlog[g] = <<>>
    <3>1. Pending(g) = {}
      BY DEF OutboundInit, Pending
    <3> QED
      BY <1>1, <3>1, FS_EmptySet DEF OutboundInit
  <2> QED
    BY <1>2, <2>1 DEF QueuesHold
<1>6. WentOut /\ Deletes /\ RingIsComplete
  BY <1>2 DEF OutboundInit, WentOut, InLine, IsInjective, Deletes, RingIsComplete, NotCalled
<1>7. PurgeKnows /\ PurgeCovers /\ TypingHasEnd
  BY <1>2 DEF OutboundInit, PurgeKnows, PurgeCovers, TypingHasEnd, NoPurge
<1> QED
  BY <1>3, <1>4, <1>5, <1>6, <1>7 DEF OutboundIInv

\* No send is called, moves or is over.
LEMMA SendsRest ==
  ASSUME OutboundIInv, OutboundTypeOK', UNCHANGED <<made, call, stage, backlog, trackVars>>, sock' >= sock
  PROVE  CallsMade' /\ QueuesHold' /\ WentOut' /\ RingIsComplete' /\ Deletes'
<1>1. CallsMade'
  <2>1. sock' \in Nat
    BY DEF OutboundTypeOK
  <2> QED
    BY <2>1, CallsStay DEF OutboundIInv, CallsMade
<1>2. QueuesHold'
  BY QueuesStay DEF OutboundIInv
<1>3. \A m \in Sends : call[m].deletes \in 0 .. MaxSends /\ (call[m].deletes # 0 => stage[call[m].deletes] = "sent")
  BY SendOf DEF OutboundIInv, Deletes
<1>4. WentOut' /\ RingIsComplete' /\ Deletes'
  BY <1>3, RecordStays
<1> QED
  BY <1>1, <1>2, <1>4

LEMMA PurgesRest ==
  ASSUME OutboundIInv, UNCHANGED <<made, call, stage, purgeVars, trackVars>>
  PROVE  PurgeKnows' /\ PurgeCovers'
<1>1. made' \in Nat /\ made' >= made
  BY DEF OutboundIInv, OutboundTypeOK
<1> QED
  BY <1>1, PurgesStay DEF trackVars

LEMMA SocketOpensKeeps == ASSUME OutboundIInv, SocketOpens PROVE OutboundIInv'
<1>1. OutboundTypeOK' /\ sock' >= sock /\ sock' # 0
  <2>1. sock \in 0 .. MaxSockets /\ sock < MaxSockets /\ sock' = sock + 1 /\ MaxSockets \in Nat
    BY OutboundAssumption DEF OutboundIInv, OutboundTypeOK, SocketOpens
  <2>2. sock' \in 0 .. MaxSockets /\ sock' >= sock /\ sock' # 0 /\ 1 .. sock \subseteq 1 .. sock'
    BY <2>1
  <2> QED
    BY <2>2 DEF OutboundIInv, OutboundTypeOK, SocketOpens, Quiet, purgeVars, trackVars
<1>2. CallsMade' /\ QueuesHold' /\ WentOut' /\ RingIsComplete' /\ Deletes'
  BY <1>1, SendsRest DEF SocketOpens
<1>3. PurgeKnows' /\ PurgeCovers'
  BY PurgesRest DEF SocketOpens
<1>4. TypingHasEnd'
  BY <1>1 DEF SocketOpens, Quiet, TypingHasEnd
<1> QED
  BY <1>1, <1>2, <1>3, <1>4 DEF OutboundIInv

LEMMA SocketClosesKeeps == ASSUME OutboundIInv, SocketCloses PROVE OutboundIInv'
<1>1. OutboundTypeOK' /\ sock' >= sock
  <2>1. /\ UNCHANGED <<sock, wrapped, made, call, stage, backlog, thinking, sendTrouble, purgeVars, trackVars>>
        /\ up' = FALSE /\ shown' = FALSE /\ pauseLost' = FALSE
    BY DEF SocketCloses, Quiet
  <2>2. sock \in Nat
    BY DEF OutboundIInv, OutboundTypeOK
  <2> QED
    <3>1. up' \in BOOLEAN /\ shown' \in BOOLEAN /\ pauseLost' \in BOOLEAN
      BY <2>1
    <3>2. sock' >= sock
      BY <2>1, <2>2
    <3>3. /\ purge' = purge /\ scope' = scope /\ ring' = ring /\ delivered' = delivered
          /\ deleted' = deleted /\ unsure' = unsure
      BY <2>1 DEF purgeVars, trackVars
    <3> QED
      BY <2>1, <3>1, <3>2, <3>3 DEF OutboundIInv, OutboundTypeOK
<1>2. CallsMade' /\ QueuesHold' /\ WentOut' /\ RingIsComplete' /\ Deletes'
  BY <1>1, SendsRest DEF SocketCloses
<1>3. PurgeKnows' /\ PurgeCovers'
  BY PurgesRest DEF SocketCloses
<1>4. TypingHasEnd'
  BY DEF SocketCloses, Quiet, TypingHasEnd
<1> QED
  BY <1>1, <1>2, <1>3, <1>4 DEF OutboundIInv

LEMMA WrapsKeeps == ASSUME OutboundIInv, NEW g \in Sockets, Wraps(g) PROVE OutboundIInv'
<1>1. OutboundTypeOK' /\ sock' >= sock
  BY DEF OutboundIInv, OutboundTypeOK, Wraps, purgeVars, trackVars, typingVars
<1>2. CallsMade' /\ QueuesHold' /\ WentOut' /\ RingIsComplete' /\ Deletes'
  BY <1>1, SendsRest DEF Wraps
<1>3. PurgeKnows' /\ PurgeCovers'
  BY PurgesRest DEF Wraps
<1>4. TypingHasEnd'
  BY TypingStays DEF OutboundIInv, Wraps
<1> QED
  BY <1>1, <1>2, <1>3, <1>4 DEF OutboundIInv

\* "composing" and "paused".
LEMMA PausedKeeps ==
  ASSUME TypingHasEnd, shown \in BOOLEAN, pauseLost \in BOOLEAN, NEW g, Paused(g), UNCHANGED <<sock, up>>,
         thinking' = thinking \/ thinking = g,
         \A n \in Sends : call[n].long /\ call[n].on = sock /\ stage[n] \in {"typing", "queued", "flying", "sunk"} =>
            g = sock \/ (call'[n] = call[n] /\ stage'[n] \in {"typing", "queued", "flying", "sunk"})
  PROVE  TypingHasEnd' /\ shown' \in BOOLEAN /\ pauseLost' \in BOOLEAN
<1>1. CASE Open(g)
  BY <1>1 DEF Paused, Open, Quiet, TypingHasEnd
<1>2. CASE ~Open(g)
  BY <1>2 DEF Paused, Open, TypingHasEnd, typingVars
<1> QED
  BY <1>1, <1>2

LEMMA ThinksKeeps ==
  ASSUME OutboundIInv, Thinks \/ StillThinks \/ ThoughtOver
  PROVE  OutboundIInv'
<1> DEFINE g == IF Thinks THEN sock ELSE thinking
<1>1. ThinkingVars
  BY DEF Thinks, StillThinks, ThoughtOver
<1>2. TypingHasEnd' /\ shown' \in BOOLEAN /\ pauseLost' \in BOOLEAN /\ thinking' \in 0 .. MaxSockets
  <2>1. CASE Thinks
    BY <2>1 DEF OutboundIInv, OutboundTypeOK, TypingHasEnd, Thinks, Composing, Open, ThinkingVars
  <2>2. CASE StillThinks
    BY <2>2 DEF OutboundIInv, OutboundTypeOK, TypingHasEnd, StillThinks, Composing, Open, ThinkingVars
  <2>3. CASE ThoughtOver
    <3>1. Paused(thinking) /\ UNCHANGED <<sock, up, call, stage>> /\ thinking' = 0
      BY <2>3 DEF ThoughtOver, ThinkingVars
    <3>2. TypingHasEnd' /\ shown' \in BOOLEAN /\ pauseLost' \in BOOLEAN
      BY <3>1, PausedKeeps DEF OutboundIInv, OutboundTypeOK
    <3> QED
      BY <3>1, <3>2, OutboundAssumption
  <2> QED
    BY <2>1, <2>2, <2>3
<1>3. OutboundTypeOK' /\ sock' >= sock
  BY <1>1, <1>2 DEF OutboundIInv, OutboundTypeOK, ThinkingVars, purgeVars, trackVars
<1>4. CallsMade' /\ QueuesHold' /\ WentOut' /\ RingIsComplete' /\ Deletes'
  BY <1>1, <1>3, SendsRest DEF ThinkingVars
<1>5. PurgeKnows' /\ PurgeCovers'
  BY <1>1, PurgesRest DEF ThinkingVars
<1> QED
  BY <1>2, <1>3, <1>4, <1>5 DEF OutboundIInv

\* A send is called, of a handler or of a purge.
LEMMA CalledKeeps ==
  ASSUME OutboundIInv, NEW g \in 0 .. MaxSockets, NEW long \in BOOLEAN, NEW target \in 0 .. MaxSends,
         target # 0 => stage[target] = "sent", Called(g, long, target)
  PROVE  /\ made' = made + 1 /\ made' \in Sends /\ call'[made + 1].deletes = target
         /\ \A m \in Sends : m <= made => call'[m] = call[m] /\ stage'[m] = stage[m]
         /\ call' \in [Sends -> [on : 0 .. MaxSockets, tracked : BOOLEAN, long : BOOLEAN, deletes : 0 .. MaxSends]]
         /\ stage' \in [Sends -> Stages] /\ backlog' \in [Sockets -> Seq(Sends)]
         /\ shown' \in BOOLEAN /\ pauseLost' \in BOOLEAN
         /\ CallsMade' /\ QueuesHold' /\ WentOut' /\ RingIsComplete' /\ Deletes' /\ TypingHasEnd'
<1> DEFINE n == made + 1
           record == [on |-> g, tracked |-> g \in wrapped, long |-> long, deletes |-> target]
<1>1. /\ OutboundTypeOK /\ CallsMade /\ QueuesHold /\ TypingHasEnd
      /\ made \in Nat /\ sock \in Nat /\ wrapped \subseteq 1 .. sock /\ 1 .. sock \subseteq Sockets
  <2>1. OutboundTypeOK /\ CallsMade /\ QueuesHold /\ TypingHasEnd
    BY DEF OutboundIInv
  <2>2. made \in 0 .. MaxSends /\ sock \in 0 .. MaxSockets /\ wrapped \subseteq 1 .. sock
    BY <2>1 DEF OutboundTypeOK
  <2>3. 1 .. sock \subseteq Sockets
    BY <2>2, OutboundAssumption DEF Sockets
  <2> QED
    BY <2>1, <2>2, <2>3
<1>2. /\ n \in Sends /\ made' = n /\ call' = [call EXCEPT ![n] = record]
      /\ UNCHANGED <<sock, up, wrapped, thinking, sendTrouble, trackVars>>
  BY DEF Called
<1>3. record \in [on : 0 .. MaxSockets, tracked : BOOLEAN, long : BOOLEAN, deletes : 0 .. MaxSends]
  OBVIOUS
<1>4. /\ stage[n] = "none" /\ call[n] = NotCalled
      /\ \A m \in Sends : m > made <=> stage[m] = "none"
      /\ \A m \in Sends : m > made => call[m] = NotCalled
  BY <1>1, <1>2 DEF CallsMade
<1>5. /\ call'[n] = record /\ \A m \in Sends : m # n => call'[m] = call[m]
      /\ call' \in [Sends -> [on : 0 .. MaxSockets, tracked : BOOLEAN, long : BOOLEAN, deletes : 0 .. MaxSends]]
  BY <1>1, <1>2, <1>3 DEF OutboundTypeOK
<1>6. /\ record.on = g /\ record.tracked = (g \in wrapped) /\ record.long = long /\ record.deletes = target
  OBVIOUS
<1> HIDE DEF n, record
<1>7. /\ stage' \in [Sends -> Stages] /\ backlog' \in [Sockets -> Seq(Sends)]
      /\ stage'[n] \in {"typing", "queued", "flying", "sunk"} /\ \A m \in Sends : m # n => stage'[m] = stage[m]
      /\ QueuesHold'
      /\ stage'[n] \in {"typing", "queued"} => g \in wrapped
      /\ (UNCHANGED typingVars /\ ~long) \/ (long /\ Composing(g))
  <2>1. CASE g \notin wrapped /\ ~long /\ stage' = [stage EXCEPT ![n] = Reaches(g)] /\ UNCHANGED <<backlog, typingVars>>
    <3>1. Reaches(g) \in {"flying", "sunk"}
      BY DEF Reaches
    <3>2. /\ stage' \in [Sends -> Stages] /\ stage'[n] \in {"flying", "sunk"}
          /\ \A m \in Sends : m # n => stage'[m] = stage[m]
      BY <1>1, <1>2, <2>1, <3>1 DEF OutboundTypeOK, Stages
    <3>3. QueuesHold'
      BY <1>1, <1>4, <1>5, <1>6, <2>1, <3>2, QueuesStay
    <3> QED
      BY <1>1, <2>1, <3>2, <3>3 DEF OutboundTypeOK
  <2>2. CASE g \in wrapped /\ long /\ stage' = [stage EXCEPT ![n] = "typing"] /\ Composing(g) /\ UNCHANGED backlog
    <3>1. /\ stage' \in [Sends -> Stages] /\ stage'[n] = "typing"
          /\ \A m \in Sends : m # n => stage'[m] = stage[m]
      BY <1>1, <1>2, <2>2 DEF OutboundTypeOK, Stages
    <3>2. QueuesHold'
      BY <1>1, <1>4, <1>5, <1>6, <2>2, <3>1, QueuesStay
    <3> QED
      BY <1>1, <2>2, <3>1, <3>2 DEF OutboundTypeOK
  <2>3. CASE g \in wrapped /\ ~long /\ Enqueue(n, g) /\ UNCHANGED typingVars
    <3>1. g \in Sockets
      BY <1>1, <2>3
    <3>2. /\ stage' \in [Sends -> Stages] /\ backlog' \in [Sockets -> Seq(Sends)]
          /\ stage'[n] \in {"queued", "flying", "sunk"} /\ \A m \in Sends : m # n => stage'[m] = stage[m]
      BY <1>1, <1>2, <2>3, <3>1, EnqueueMoves
    <3>3. QueuesHold'
      BY <1>1, <1>2, <1>4, <1>5, <1>6, <2>3, <3>1, EnqueueHolds
    <3> QED
      BY <2>3, <3>2, <3>3
  <2> QED
    BY <2>1, <2>2, <2>3 DEF Called, n
<1>8. \A m \in Sends : m <= made => m # n /\ call'[m] = call[m] /\ stage'[m] = stage[m]
  BY <1>1, <1>5, <1>7 DEF n, Sends
<1>9. CallsMade'
  <2> SUFFICES ASSUME NEW m \in Sends
               PROVE  /\ m > made' <=> stage'[m] = "none"
                      /\ m > made' => call'[m] = NotCalled
                      /\ call'[m].tracked => call'[m].on \in 1 .. sock'
                      /\ stage'[m] \in {"typing", "queued"} => call'[m].tracked
    BY DEF CallsMade
  <2>1. CASE m = n
    BY <1>1, <1>2, <1>5, <1>6, <1>7, <2>1 DEF n
  <2>2. CASE m # n
    BY <1>1, <1>2, <1>4, <1>5, <1>7, <2>2 DEF n, CallsMade, Sends
  <2> QED
    BY <2>1, <2>2
<1>10. WentOut' /\ RingIsComplete' /\ Deletes'
  <2>1. \A m \in Sends : call[m].deletes \in 0 .. MaxSends /\ (call[m].deletes # 0 => stage[call[m].deletes] = "sent")
    BY SendOf DEF OutboundIInv, Deletes
  <2>2. ASSUME NEW m \in Sends
        PROVE  /\ stage[m] \in {"sent", "failed"} \/ stage'[m] \in {"sent", "failed"} =>
                       stage'[m] = stage[m] /\ call'[m] = call[m]
               /\ call'[m].deletes \in 0 .. MaxSends
               /\ call'[m].deletes # 0 => stage[call'[m].deletes] = "sent"
    BY <1>4, <1>5, <1>6, <1>7, <2>1
  <2> QED
    BY <1>2, <2>2, RecordStays
<1>11. TypingHasEnd' /\ shown' \in BOOLEAN /\ pauseLost' \in BOOLEAN
  <2>1. \A m \in Sends : stage[m] \in {"typing", "queued", "flying", "sunk"} => call'[m] = call[m] /\ stage'[m] = stage[m]
    BY <1>4, <1>5, <1>7
  <2>2. CASE UNCHANGED typingVars
    BY <1>1, <1>2, <2>1, <2>2, TypingStays DEF OutboundTypeOK, typingVars
  <2>3. CASE long /\ Composing(g)
    BY <1>1, <1>2, <1>5, <1>6, <1>7, <2>1, <2>3 DEF OutboundTypeOK, TypingHasEnd, Composing, Open
  <2> QED
    BY <1>7, <2>2, <2>3
<1> QED
  BY <1>2, <1>5, <1>6, <1>7, <1>8, <1>9, <1>10, <1>11 DEF n

LEMMA SaysKeeps == ASSUME OutboundIInv, Says PROVE OutboundIInv'
<1>1. PICK g \in 1 .. sock, long \in BOOLEAN : Called(g, long, 0) /\ UNCHANGED purgeVars
  BY DEF Says
<1>2. g \in 0 .. MaxSockets /\ 0 \in 0 .. MaxSends /\ made \in Nat
  BY OutboundAssumption DEF OutboundIInv, OutboundTypeOK
<1>3. /\ made' = made + 1 /\ made' \in Sends
      /\ \A m \in Sends : m <= made => call'[m] = call[m] /\ stage'[m] = stage[m]
      /\ call' \in [Sends -> [on : 0 .. MaxSockets, tracked : BOOLEAN, long : BOOLEAN, deletes : 0 .. MaxSends]]
      /\ stage' \in [Sends -> Stages] /\ backlog' \in [Sockets -> Seq(Sends)]
      /\ shown' \in BOOLEAN /\ pauseLost' \in BOOLEAN
      /\ CallsMade' /\ QueuesHold' /\ WentOut' /\ RingIsComplete' /\ Deletes' /\ TypingHasEnd'
  BY <1>1, <1>2, CalledKeeps
<1>4. UNCHANGED <<sock, up, wrapped, thinking, sendTrouble, trackVars, purgeVars>>
  BY <1>1 DEF Called
<1>5. OutboundTypeOK'
  BY <1>3, <1>4 DEF OutboundIInv, OutboundTypeOK, Sends, trackVars, purgeVars
<1>6. PurgeKnows' /\ PurgeCovers'
  <2>1. \A m \in Sends : stage[m] = "sent" => m <= made
    BY <1>2 DEF OutboundIInv, CallsMade, Sends
  <2>2. made' \in Nat /\ made' >= made
    BY <1>2, <1>3
  <2>3. deleted' = deleted /\ unsure' = unsure /\ UNCHANGED purgeVars
    BY <1>4 DEF trackVars
  <2> QED
    BY <1>3, <2>1, <2>2, <2>3, PurgesStay
<1> QED
  BY <1>3, <1>5, <1>6 DEF OutboundIInv

LEMMA TypingOverKeeps == ASSUME OutboundIInv, NEW n \in Sends, TypingOver(n) PROVE OutboundIInv'
<1> DEFINE g == call[n].on
<1>1. /\ OutboundTypeOK /\ CallsMade /\ QueuesHold /\ stage[n] = "typing" /\ Enqueue(n, g)
      /\ UNCHANGED <<sock, up, wrapped, made, call, thinking, sendTrouble, purgeVars, typingVars, trackVars>>
  BY DEF OutboundIInv, TypingOver
<1>2. g \in Sockets /\ call[n].tracked
  BY <1>1 DEF CallsMade, OutboundTypeOK, Sockets
<1>3. /\ stage' \in [Sends -> Stages] /\ backlog' \in [Sockets -> Seq(Sends)]
      /\ stage'[n] \in {"queued", "flying", "sunk"} /\ \A m \in Sends : m # n => stage'[m] = stage[m]
  BY <1>1, <1>2, EnqueueMoves
<1>4. QueuesHold'
  BY <1>1, <1>2, EnqueueHolds
<1> HIDE DEF g
<1>5. OutboundTypeOK'
  BY <1>1, <1>3 DEF OutboundTypeOK, trackVars, purgeVars, typingVars
<1>6. CallsMade'
  <2>1. \A m \in Sends : /\ stage'[m] = "none" <=> stage[m] = "none"
                         /\ stage'[m] \in {"typing", "queued"} => call[m].tracked
    BY <1>1, <1>2, <1>3 DEF CallsMade
  <2> QED
    BY <1>1, <2>1, CallsStay DEF OutboundTypeOK
<1>7. WentOut' /\ RingIsComplete' /\ Deletes'
  <2>1. \A m \in Sends : call[m].deletes \in 0 .. MaxSends /\ (call[m].deletes # 0 => stage[call[m].deletes] = "sent")
    BY SendOf DEF OutboundIInv, Deletes
  <2> QED
    BY <1>1, <1>3, <2>1, RecordStays
<1>8. PurgeKnows' /\ PurgeCovers'
  BY <1>1, <1>3, PurgesStay DEF OutboundTypeOK, trackVars
<1>9. TypingHasEnd'
  BY <1>1, <1>3, TypingStays DEF OutboundIInv
<1> QED
  BY <1>4, <1>5, <1>6, <1>7, <1>8, <1>9 DEF OutboundIInv

\* The end of a send, for the others and for its queue.
LEMMA EndKeeps ==
  ASSUME OutboundIInv, NEW n \in Sends, NEW end \in {"sent", "failed"}, stage[n] \in {"flying", "sunk"},
         EndsAs(n, end), Stops(n), UNCHANGED <<sock, up, wrapped, made, call, thinking, purgeVars>>,
         deleted \subseteq deleted', unsure \subseteq unsure'
  PROVE  /\ stage' \in [Sends -> Stages] /\ backlog' \in [Sockets -> Seq(Sends)]
         /\ stage'[n] = end
         /\ \A m \in Sends : m # n =>
              stage'[m] = stage[m] \/ (stage[m] = "queued" /\ stage'[m] \in {"flying", "sunk"})
         /\ shown' \in BOOLEAN /\ pauseLost' \in BOOLEAN
         /\ CallsMade' /\ QueuesHold' /\ PurgeKnows' /\ PurgeCovers' /\ TypingHasEnd'
<1>1. OutboundTypeOK /\ CallsMade /\ QueuesHold /\ TypingHasEnd
  BY DEF OutboundIInv
<1>2. /\ stage' \in [Sends -> Stages] /\ backlog' \in [Sockets -> Seq(Sends)]
      /\ stage'[n] = end
      /\ \A m \in Sends : m # n =>
           stage'[m] = stage[m] \/ (stage[m] = "queued" /\ stage'[m] \in {"flying", "sunk"})
  BY <1>1, EndsMoves
<1>3. QueuesHold'
  BY <1>1, EndsHolds
<1>4. CallsMade'
  <2>1. \A m \in Sends : /\ stage'[m] = "none" <=> stage[m] = "none"
                         /\ stage'[m] \in {"typing", "queued"} => call[m].tracked
    BY <1>1, <1>2 DEF CallsMade
  <2>2. sock' \in Nat /\ sock' >= sock
    BY <1>1 DEF OutboundTypeOK
  <2> QED
    BY <1>1, <2>1, <2>2, CallsStay
<1>5. PurgeKnows' /\ PurgeCovers'
  <2>1. made' \in Nat /\ made' >= made
    BY <1>1 DEF OutboundTypeOK
  <2> QED
    BY <1>2, <2>1, PurgesStay
<1>6. TypingHasEnd' /\ shown' \in BOOLEAN /\ pauseLost' \in BOOLEAN
  <2>1. shown \in BOOLEAN /\ pauseLost \in BOOLEAN
    BY <1>1 DEF OutboundTypeOK
  <2>2. CASE call[n].long
    <3>1. Paused(call[n].on)
      BY <2>2 DEF Stops
    <3>2. \A m \in Sends : call[m].long /\ call[m].on = sock /\ stage[m] \in {"typing", "queued", "flying", "sunk"} =>
            call[n].on = sock \/ (call'[m] = call[m] /\ stage'[m] \in {"typing", "queued", "flying", "sunk"})
      BY <1>2
    <3> QED
      BY <1>1, <2>1, <3>1, <3>2, PausedKeeps
  <2>3. CASE ~call[n].long
    <3>1. UNCHANGED typingVars
      BY <2>3 DEF Stops
    <3>2. \A m \in Sends : call[m].long /\ call[m].on = sock /\ stage[m] \in {"typing", "queued", "flying", "sunk"} =>
            call'[m] = call[m] /\ stage'[m] \in {"typing", "queued", "flying", "sunk"}
      BY <1>2, <2>3
    <3>3. TypingHasEnd'
      BY <1>1, <3>1, <3>2, TypingStays
    <3> QED
      BY <2>1, <3>1, <3>3 DEF typingVars
  <2> QED
    BY <2>2, <2>3
<1> QED
  BY <1>2, <1>3, <1>4, <1>5, <1>6

LEMMA RejectedKeeps == ASSUME OutboundIInv, NEW n \in Sends, Rejected(n) PROVE OutboundIInv'
<1>1. /\ stage[n] \in {"flying", "sunk"} /\ EndsAs(n, "failed") /\ Stops(n)
      /\ UNCHANGED <<sock, up, wrapped, made, call, thinking, purgeVars, ring, delivered>>
      /\ unsure' = unsure \union Target(n)
      /\ deleted' = deleted \/ deleted' = deleted \union Target(n)
      /\ OutboundTypeOK
  BY DEF OutboundIInv, Rejected
<1>2. sendTrouble' \in 0 .. MaxSendTrouble
  BY OutboundAssumption DEF OutboundIInv, OutboundTypeOK, Rejected
<1>3. Target(n) \subseteq Sends /\ \A k \in Target(n) : stage[k] = "sent" /\ k = call[n].deletes
  BY SendOf DEF OutboundIInv, Target, Deletes, Sends
<1>4. deleted \subseteq deleted' /\ unsure \subseteq unsure' /\ deleted' \subseteq Sends /\ unsure' \subseteq Sends
  BY <1>1, <1>3 DEF OutboundTypeOK
<1>5. /\ stage' \in [Sends -> Stages] /\ backlog' \in [Sockets -> Seq(Sends)]
      /\ stage'[n] = "failed"
      /\ \A m \in Sends : m # n =>
           stage'[m] = stage[m] \/ (stage[m] = "queued" /\ stage'[m] \in {"flying", "sunk"})
      /\ shown' \in BOOLEAN /\ pauseLost' \in BOOLEAN
      /\ CallsMade' /\ QueuesHold' /\ PurgeKnows' /\ PurgeCovers' /\ TypingHasEnd'
  BY <1>1, <1>4, EndKeeps
<1>6. OutboundTypeOK'
  BY <1>1, <1>2, <1>4, <1>5 DEF OutboundTypeOK, purgeVars
<1>7. \A m \in Sends : stage'[m] = "sent" <=> stage[m] = "sent"
  BY <1>1, <1>5
<1>8. WentOut'
  BY <1>1, <1>3, <1>7 DEF OutboundIInv, WentOut, InLine
<1>9. RingIsComplete'
  BY <1>1, <1>4 DEF OutboundIInv, RingIsComplete
<1>10. Deletes'
  <2>1. \A k \in deleted' \union unsure' : stage'[k] = "sent"
    BY <1>1, <1>3, <1>4, <1>7 DEF OutboundIInv, Deletes
  <2>2. ASSUME NEW m \in Sends
        PROVE  /\ call'[m].deletes # 0 => stage'[call'[m].deletes] = "sent"
               /\ stage'[m] \in {"sent", "failed"} => Target(m)' \subseteq deleted' \union unsure'
    <3>1. call[m].deletes # 0 => call[m].deletes \in Sends /\ stage[call[m].deletes] = "sent"
      BY SendOf, <1>1 DEF OutboundIInv, Deletes, Sends
    <3>2. Target(m)' = Target(m)
      BY <1>1 DEF Target
    <3> QED
      BY <1>1, <1>4, <1>5, <1>7, <3>1, <3>2 DEF OutboundIInv, Deletes
  <2> QED
    BY <2>1, <2>2 DEF Deletes
<1> QED
  BY <1>5, <1>6, <1>8, <1>9, <1>10 DEF OutboundIInv

\* The list after an answer.
LEMMA ListAnswered ==
  ASSUME OutboundIInv, NEW n \in Sends, Answered(n)
  PROVE  /\ ring' \in Seq(Sends) /\ Len(ring') <= MaxPerChat
         /\ \A k \in ToSet(ring') : k \in ToSet(ring) \/ (k = n /\ call[n].tracked)
         /\ call[n].tracked => n \in ToSet(ring')
         /\ \A x \in DOMAIN ring : \/ ring[x] \in ToSet(ring')
                                   \/ ring[x] \in Target(n)
                                   \/ call[n].tracked /\ x = 1 /\ Len(ring) = MaxPerChat
         /\ call[n].deletes \notin ToSet(ring')
         /\ InLine(ring', Append(delivered, n))
<1> DEFINE longer == IF call[n].tracked THEN Pushed(n) ELSE ring
           k == call[n].deletes
           now == Append(delivered, n)
<1>1. /\ ring \in Seq(Sends) /\ Len(ring) <= MaxPerChat /\ delivered \in Seq(Sends) /\ InLine(ring, delivered)
      /\ stage[n] = "flying" /\ n \notin ToSet(delivered)
  BY DEF OutboundIInv, OutboundTypeOK, WentOut, Answered
<1>2. ring' = Forgotten(longer, k) /\ now \in Seq(Sends)
  BY <1>1, Lengthened DEF Answered
<1>3. k # n
  BY <1>1, SendOf DEF OutboundIInv, Deletes
<1>4. /\ longer \in Seq(Sends) /\ Len(longer) <= MaxPerChat
      /\ \A e \in ToSet(longer) : e \in ToSet(ring) \/ (e = n /\ call[n].tracked)
      /\ call[n].tracked => n \in ToSet(longer)
      /\ \A x \in DOMAIN ring : ring[x] \in ToSet(longer) \/ (call[n].tracked /\ x = 1 /\ Len(ring) = MaxPerChat)
      /\ InLine(longer, now)
  <2>1. CASE call[n].tracked
    BY <1>1, <2>1, PushedList
  <2>2. CASE ~call[n].tracked
    <3>1. \A x \in DOMAIN ring : ring[x] \in ToSet(ring)
      BY DEF ToSet
    <3> QED
      BY <1>1, <2>2, <3>1, LongerInLine
  <2> QED
    BY <2>1, <2>2
<1> HIDE DEF longer
<1>5. IsInjective(longer)
  BY <1>2, <1>4, InLineOnce
<1>6. \A x \in DOMAIN ring : ring[x] = k => ring[x] \in Target(n)
  <2>1. \A x \in DOMAIN ring : ring[x] \in Sends
    BY <1>1, EntryOf
  <2> QED
    BY <2>1 DEF Target, Sends
<1>7. /\ ring' \in Seq(Sends) /\ Len(ring') <= Len(longer)
      /\ \A e \in ToSet(ring') : e \in ToSet(longer)
      /\ \A e \in ToSet(longer) : e # k => e \in ToSet(ring')
      /\ k \notin ToSet(ring') /\ InLine(ring', now)
  BY <1>2, <1>4, <1>5, ForgottenList
<1>8. Len(ring') <= MaxPerChat
  <2>1. Len(ring') \in Nat /\ Len(longer) \in Nat /\ MaxPerChat \in Nat
    BY <1>4, <1>7, EntryOf, OutboundAssumption
  <2> QED
    BY <1>4, <1>7, <2>1
<1> QED
  BY <1>3, <1>4, <1>6, <1>7, <1>8

LEMMA AnsweredKeeps == ASSUME OutboundIInv, NEW n \in Sends, Answered(n) PROVE OutboundIInv'
<1>1. /\ stage[n] = "flying" /\ EndsAs(n, "sent") /\ Stops(n)
      /\ UNCHANGED <<sock, up, wrapped, made, call, thinking, sendTrouble, purgeVars, unsure>>
      /\ delivered' = Append(delivered, n) /\ deleted' = deleted \union Target(n)
      /\ OutboundTypeOK /\ WentOut
  BY DEF OutboundIInv, Answered
<1>2. Target(n) \subseteq Sends /\ \A k \in Target(n) : stage[k] = "sent" /\ k = call[n].deletes
  BY SendOf DEF OutboundIInv, Target, Deletes, Sends
<1>3. deleted \subseteq deleted' /\ deleted' \subseteq Sends
  BY <1>1, <1>2 DEF OutboundTypeOK
<1>4. /\ stage' \in [Sends -> Stages] /\ backlog' \in [Sockets -> Seq(Sends)]
      /\ stage'[n] = "sent"
      /\ \A m \in Sends : m # n =>
           stage'[m] = stage[m] \/ (stage[m] = "queued" /\ stage'[m] \in {"flying", "sunk"})
      /\ shown' \in BOOLEAN /\ pauseLost' \in BOOLEAN
      /\ CallsMade' /\ QueuesHold' /\ PurgeKnows' /\ PurgeCovers' /\ TypingHasEnd'
  BY <1>1, <1>3, EndKeeps
<1>5. /\ ring' \in Seq(Sends) /\ Len(ring') <= MaxPerChat
      /\ \A k \in ToSet(ring') : k \in ToSet(ring) \/ (k = n /\ call[n].tracked)
      /\ call[n].tracked => n \in ToSet(ring')
      /\ \A x \in DOMAIN ring : \/ ring[x] \in ToSet(ring')
                                \/ ring[x] \in Target(n)
                                \/ call[n].tracked /\ x = 1 /\ Len(ring) = MaxPerChat
      /\ call[n].deletes \notin ToSet(ring')
      /\ InLine(ring', delivered')
  BY <1>1, ListAnswered
<1>6. /\ delivered' \in Seq(Sends) /\ Len(delivered') = Len(delivered) + 1
      /\ DOMAIN delivered' = 1 .. Len(delivered) + 1
      /\ \A x \in 1 .. Len(delivered) : delivered'[x] = delivered[x]
      /\ delivered'[Len(delivered) + 1] = n
      /\ ToSet(delivered') = ToSet(delivered) \union {n}
      /\ Len(delivered) \in Nat /\ DOMAIN delivered = 1 .. Len(delivered)
      /\ delivered \in Seq(Sends) /\ ring \in Seq(Sends)
  BY <1>1, Lengthened, EntryOf DEF OutboundTypeOK
<1>7. OutboundTypeOK'
  BY <1>1, <1>3, <1>4, <1>5, <1>6 DEF OutboundTypeOK, purgeVars
<1>8. n \notin ToSet(delivered) /\ n \notin deleted
  BY <1>1 DEF OutboundIInv, WentOut, Deletes
<1>9. WentOut'
  <2>1. IsInjective(delivered')
    <3>1. \A x \in 1 .. Len(delivered) : delivered[x] # n
      BY <1>6, <1>8 DEF ToSet
    <3>2. \A x, y \in 1 .. Len(delivered) : delivered[x] = delivered[y] => x = y
      BY <1>1, <1>6 DEF WentOut, IsInjective
    <3>3. \A x \in 1 .. Len(delivered) + 1 : x \in 1 .. Len(delivered) \/ x = Len(delivered) + 1
      BY <1>6
    <3> QED
      BY <1>6, <3>1, <3>2, <3>3 DEF IsInjective
  <2>2. \A m \in Sends : stage'[m] = "sent" <=> m \in ToSet(delivered')
    BY <1>1, <1>4, <1>6 DEF WentOut
  <2>3. ASSUME NEW x \in DOMAIN ring'
        PROVE  call[ring'[x]].tracked /\ (ring'[x] \in deleted' => ring'[x] \in unsure)
    <3>1. ring'[x] \in ToSet(ring')
      BY DEF ToSet
    <3>2. CASE ring'[x] = n
      <4>1. n \notin ToSet(ring)
        BY <1>1, <1>6, <1>8, EntryOf DEF WentOut, InLine
      <4>2. n \notin Target(n)
        BY <1>1, <1>2
      <4> QED
        BY <1>1, <1>5, <1>8, <3>1, <3>2, <4>1, <4>2
    <3>3. CASE ring'[x] \in ToSet(ring)
      <4>1. PICK y \in DOMAIN ring : ring[y] = ring'[x]
        BY <1>6, <3>3, EntryOf
      <4>2. ring'[x] \notin Target(n)
        BY <1>2, <1>5, <3>1
      <4> QED
        BY <1>1, <4>1, <4>2 DEF WentOut
    <3> QED
      BY <1>5, <3>1, <3>2, <3>3
  <2> QED
    BY <1>1, <1>5, <2>1, <2>2, <2>3 DEF WentOut
<1>10. RingIsComplete'
  <2> SUFFICES ASSUME NEW i \in DOMAIN delivered',
                      call[delivered'[i]].tracked, delivered'[i] \notin ToSet(ring'), delivered'[i] \notin deleted'
               PROVE  Cardinality({j \in i + 1 .. Len(delivered) + 1 : call[Append(delivered, n)[j]].tracked}) >= MaxPerChat
    BY <1>1, <1>6 DEF RingIsComplete
  <2>1. i \in DOMAIN delivered /\ delivered'[i] = delivered[i]
    BY <1>5, <1>6
  <2>2. CASE delivered[i] \notin ToSet(ring)
    <3>1. Cardinality({j \in i + 1 .. Len(delivered) : call[delivered[j]].tracked}) >= MaxPerChat
      BY <1>3, <2>1, <2>2 DEF OutboundIInv, RingIsComplete
    <3> QED
      BY <1>6, <2>1, <3>1, LaterCounts
  <2>3. CASE delivered[i] \in ToSet(ring)
    <3>1. PICK x \in DOMAIN ring : ring[x] = delivered[i]
      BY <1>6, <2>3, EntryOf
    <3>2. call[n].tracked /\ x = 1 /\ Len(ring) = MaxPerChat
      BY <1>1, <1>5, <2>1, <3>1
    <3>3. InLine(ring, delivered) /\ \A y \in DOMAIN ring : call[ring[y]].tracked
      BY <1>1 DEF WentOut
    <3> QED
      BY <1>6, <1>8, <2>1, <3>1, <3>2, <3>3, EvictedCounts
  <2> QED
    BY <2>2, <2>3
<1>11. Deletes'
  <2>1. \A k \in deleted' \union unsure' : stage'[k] = "sent"
    BY <1>1, <1>2, <1>4 DEF OutboundIInv, OutboundTypeOK, Deletes
  <2>2. ASSUME NEW m \in Sends
        PROVE  /\ call'[m].deletes # 0 => stage'[call'[m].deletes] = "sent"
               /\ stage'[m] \in {"sent", "failed"} => Target(m)' \subseteq deleted' \union unsure'
    <3>1. call[m].deletes # 0 => call[m].deletes \in Sends /\ stage[call[m].deletes] = "sent"
      BY SendOf, <1>1 DEF OutboundIInv, Deletes, Sends
    <3>2. Target(m)' = Target(m)
      BY <1>1 DEF Target
    <3> QED
      BY <1>1, <1>3, <1>4, <3>1, <3>2 DEF OutboundIInv, Deletes
  <2> QED
    BY <2>1, <2>2 DEF Deletes
<1> QED
  BY <1>4, <1>7, <1>9, <1>10, <1>11 DEF OutboundIInv

\* A purge only takes note of what it deletes.
LEMMA PurgeBeginsKeeps == ASSUME OutboundIInv, NEW p \in Purgers, PurgeBegins(p) PROVE OutboundIInv'
<1>1. PICK count \in 1 .. Len(ring) :
        LET entries == SubSeq(ring, Len(ring) - count + 1, Len(ring)) IN
        /\ purge' = [purge EXCEPT ![p] = [on |-> sock, todo |-> Reverse(entries), awaits |-> 0]]
        /\ scope' = [scope EXCEPT ![p] = ToSet(entries)]
  BY DEF PurgeBegins
<1>2. UNCHANGED <<sock, up, wrapped, made, call, stage, backlog, thinking, sendTrouble, typingVars, trackVars>>
  BY DEF PurgeBegins
<1> DEFINE entries == SubSeq(ring, Len(ring) - count + 1, Len(ring))
           todo == Reverse(entries)
           record == [on |-> sock, todo |-> todo, awaits |-> 0]
<1>3. OutboundTypeOK /\ ring \in Seq(Sends) /\ Len(ring) \in Nat /\ DOMAIN ring = 1 .. Len(ring)
      /\ \A x \in DOMAIN ring : ring[x] \in Sends
  BY EntryOf DEF OutboundIInv, OutboundTypeOK
<1>4. /\ entries \in Seq(Sends) /\ Len(entries) = count
      /\ \A x \in 1 .. count : entries[x] = ring[Len(ring) - count + x] /\ Len(ring) - count + x \in DOMAIN ring
  BY <1>3
<1>5. DOMAIN entries = 1 .. count /\ count \in Nat
  BY <1>3, <1>4, EntryOf
<1>6. \A x \in DOMAIN entries : entries[x] \in Sends /\ stage[entries[x]] = "sent"
  <2>1. \A x \in DOMAIN ring : ring[x] \in ToSet(delivered)
    BY DEF OutboundIInv, WentOut, InLine
  <2> QED
    BY <1>3, <1>4, <1>5, <2>1 DEF OutboundIInv, WentOut
<1> HIDE DEF entries
<1>7. todo = [x \in 1 .. count |-> entries[count - x + 1]]
  BY <1>4 DEF Reverse
<1>8. \A x \in 1 .. count : count - x + 1 \in 1 .. count
  BY <1>5
<1>9. todo \in Seq(Sends) /\ DOMAIN todo = 1 .. count
  <2>1. \A x \in 1 .. count : entries[count - x + 1] \in Sends
    BY <1>5, <1>6, <1>8
  <2>2. [x \in 1 .. count |-> entries[count - x + 1]] \in Seq(Sends)
    BY <1>5, <2>1
  <2> QED
    BY <1>7, <2>2
<1>10. \A x \in DOMAIN todo : stage[todo[x]] = "sent"
  BY <1>5, <1>6, <1>7, <1>8
<1>11. \A e \in ToSet(entries) : e \in ToSet(todo) /\ e \in Sends
  <2> SUFFICES ASSUME NEW x \in DOMAIN entries
               PROVE  entries[x] \in ToSet(todo) /\ entries[x] \in Sends
    BY DEF ToSet
  <2>1. count - x + 1 \in 1 .. count /\ count - (count - x + 1) + 1 = x
    BY <1>5
  <2>2. todo[count - x + 1] = entries[x] /\ count - x + 1 \in DOMAIN todo
    BY <1>7, <2>1
  <2> QED
    BY <1>6, <2>2 DEF ToSet
<1> HIDE DEF todo
<1>12. record \in [on : 0 .. MaxSockets, todo : Seq(Sends), awaits : 0 .. MaxSends]
       /\ record.todo = todo /\ record.awaits = 0
  BY <1>3, <1>9, OutboundAssumption DEF OutboundTypeOK
<1> HIDE DEF record
<1>13. /\ purge' = [purge EXCEPT ![p] = record] /\ scope' = [scope EXCEPT ![p] = ToSet(entries)]
  BY <1>1 DEF record, todo, entries
<1>14. /\ purge' \in [Purgers -> [on : 0 .. MaxSockets, todo : Seq(Sends), awaits : 0 .. MaxSends]]
       /\ scope' \in [Purgers -> SUBSET Sends]
       /\ purge'[p] = record /\ scope'[p] = ToSet(entries)
       /\ \A q \in Purgers : q # p => purge'[q] = purge[q] /\ scope'[q] = scope[q]
  BY <1>3, <1>11, <1>12, <1>13 DEF OutboundTypeOK
<1>15. OutboundTypeOK'
  BY <1>2, <1>3, <1>14 DEF OutboundTypeOK, trackVars, typingVars
<1>16. CallsMade' /\ QueuesHold' /\ WentOut' /\ RingIsComplete' /\ Deletes'
  <2>1. sock' >= sock
    BY <1>2, <1>3 DEF OutboundTypeOK
  <2> QED
    BY <1>2, <1>15, <2>1, SendsRest
<1>17. TypingHasEnd'
  BY <1>2, TypingStays DEF OutboundIInv
<1>18. PurgeKnows'
  <2> SUFFICES ASSUME NEW q \in Purgers
               PROVE  /\ \A x \in DOMAIN purge'[q].todo : stage[purge'[q].todo[x]] = "sent"
                      /\ purge'[q].awaits # 0 => /\ purge'[q].todo # <<>> /\ purge'[q].awaits <= made
                                                 /\ call[purge'[q].awaits].deletes = Head(purge'[q].todo)
    BY <1>2 DEF PurgeKnows
  <2>1. CASE q = p
    BY <1>10, <1>12, <1>14, <2>1
  <2>2. CASE q # p
    <3>1. purge'[q] = purge[q]
      BY <1>14, <2>2
    <3> QED
      BY <3>1 DEF OutboundIInv, PurgeKnows
  <2> QED
    BY <2>1, <2>2
<1>19. PurgeCovers'
  <2> SUFFICES ASSUME NEW q \in Purgers
               PROVE  scope'[q] \ ToSet(purge'[q].todo) \subseteq deleted \union unsure
    BY <1>2 DEF PurgeCovers, trackVars
  <2>1. CASE q = p
    BY <1>11, <1>12, <1>14, <2>1
  <2>2. CASE q # p
    BY <1>14, <2>2 DEF OutboundIInv, PurgeCovers
  <2> QED
    BY <2>1, <2>2
<1> QED
  BY <1>15, <1>16, <1>17, <1>18, <1>19 DEF OutboundIInv

LEMMA PurgeDeletesKeeps == ASSUME OutboundIInv, NEW p \in Purgers, PurgeDeletes(p) PROVE OutboundIInv'
<1> DEFINE g == purge[p].on
           target == Head(purge[p].todo)
<1>1. /\ purge[p].todo # <<>> /\ purge[p].awaits = 0 /\ Called(g, FALSE, target)
      /\ purge' = [purge EXCEPT ![p].awaits = made + 1] /\ scope' = scope
  BY DEF PurgeDeletes
<1>2. /\ OutboundTypeOK /\ g \in 0 .. MaxSockets /\ purge[p].todo \in Seq(Sends) /\ made \in Nat /\ MaxSends \in Nat
  <2>1. OutboundTypeOK
    BY DEF OutboundIInv
  <2>2. made \in 0 .. MaxSends /\ purge[p] \in [on : 0 .. MaxSockets, todo : Seq(Sends), awaits : 0 .. MaxSends]
    BY <2>1 DEF OutboundTypeOK
  <2> QED
    BY <2>1, <2>2, OutboundAssumption
<1>3. target \in Sends /\ stage[target] = "sent"
  BY <1>1, <1>2, Shortened DEF OutboundIInv, PurgeKnows
<1>4. target \in 0 .. MaxSends
  BY <1>2, <1>3 DEF Sends
<1> HIDE DEF g, target
<1>5. /\ made' = made + 1 /\ made' \in Sends /\ call'[made + 1].deletes = target
      /\ \A m \in Sends : m <= made => call'[m] = call[m] /\ stage'[m] = stage[m]
      /\ call' \in [Sends -> [on : 0 .. MaxSockets, tracked : BOOLEAN, long : BOOLEAN, deletes : 0 .. MaxSends]]
      /\ stage' \in [Sends -> Stages] /\ backlog' \in [Sockets -> Seq(Sends)]
      /\ shown' \in BOOLEAN /\ pauseLost' \in BOOLEAN
      /\ CallsMade' /\ QueuesHold' /\ WentOut' /\ RingIsComplete' /\ Deletes' /\ TypingHasEnd'
  BY <1>1, <1>2, <1>3, <1>4, CalledKeeps
<1>6. UNCHANGED <<sock, up, wrapped, thinking, sendTrouble, trackVars>>
  BY <1>1 DEF Called
<1>7. /\ purge' \in [Purgers -> [on : 0 .. MaxSockets, todo : Seq(Sends), awaits : 0 .. MaxSends]]
      /\ purge'[p].awaits = made + 1 /\ purge'[p].todo = purge[p].todo
      /\ \A q \in Purgers : q # p => purge'[q] = purge[q]
  <2>1. made + 1 \in 0 .. MaxSends
    BY <1>2, <1>5 DEF Sends
  <2> QED
    BY <1>1, <1>2, <2>1 DEF OutboundTypeOK
<1>8. OutboundTypeOK'
  <2>1. made' \in 0 .. MaxSends
    BY <1>5 DEF Sends
  <2>2. /\ sock' \in 0 .. MaxSockets /\ up' \in BOOLEAN /\ wrapped' \subseteq 1 .. sock'
        /\ thinking' \in 0 .. MaxSockets /\ sendTrouble' \in 0 .. MaxSendTrouble
    BY <1>2, <1>6 DEF OutboundTypeOK
  <2>3. /\ ring' \in Seq(Sends) /\ Len(ring') <= MaxPerChat /\ delivered' \in Seq(Sends)
        /\ deleted' \subseteq Sends /\ unsure' \subseteq Sends
    BY <1>2, <1>6 DEF OutboundTypeOK, trackVars
  <2>4. scope' \in [Purgers -> SUBSET Sends]
    BY <1>1, <1>2 DEF OutboundTypeOK
  <2> QED
    BY <1>5, <1>7, <2>1, <2>2, <2>3, <2>4 DEF OutboundTypeOK
<1>9. PurgeCovers'
  <2>1. \A q \in Purgers : purge'[q].todo = purge[q].todo
    BY <1>7
  <2> QED
    BY <1>1, <1>6, <2>1 DEF OutboundIInv, PurgeCovers, trackVars
<1>10. PurgeKnows'
  <2> SUFFICES ASSUME NEW q \in Purgers
               PROVE  /\ \A x \in DOMAIN purge'[q].todo : stage'[purge'[q].todo[x]] = "sent"
                      /\ purge'[q].awaits # 0 => /\ purge'[q].todo # <<>> /\ purge'[q].awaits <= made'
                                                 /\ call'[purge'[q].awaits].deletes = Head(purge'[q].todo)
    BY DEF PurgeKnows
  <2>1. /\ purge[q].todo \in Seq(Sends) /\ purge'[q].todo = purge[q].todo
        /\ \A x \in DOMAIN purge[q].todo : purge[q].todo[x] \in Sends /\ stage[purge[q].todo[x]] = "sent"
    <3>1. purge[q].todo \in Seq(Sends) /\ purge'[q].todo = purge[q].todo
      BY <1>2, <1>7 DEF OutboundTypeOK
    <3> QED
      BY <3>1, EntryOf DEF OutboundIInv, PurgeKnows
  <2>2. \A m \in Sends : stage[m] = "sent" => m <= made
    BY <1>2 DEF OutboundIInv, CallsMade, Sends
  <2>3. \A x \in DOMAIN purge'[q].todo : stage'[purge'[q].todo[x]] = "sent"
    BY <1>5, <2>1, <2>2
  <2>4. CASE q = p
    BY <1>1, <1>2, <1>5, <1>7, <2>3, <2>4 DEF target
  <2>5. CASE q # p
    <3>1. purge'[q].awaits = purge[q].awaits /\ purge[q].awaits \in 0 .. MaxSends
      BY <1>2, <1>7, <2>5 DEF OutboundTypeOK
    <3>2. purge[q].awaits # 0 => purge[q].awaits \in Sends /\ purge[q].awaits <= made
      BY <1>2, <3>1 DEF OutboundIInv, PurgeKnows, Sends
    <3> QED
      BY <1>2, <1>5, <2>1, <2>3, <3>1, <3>2 DEF OutboundIInv, PurgeKnows
  <2> QED
    BY <2>4, <2>5
<1> QED
  BY <1>5, <1>8, <1>9, <1>10 DEF OutboundIInv

LEMMA PurgeGoesOnKeeps == ASSUME OutboundIInv, NEW p \in Purgers, PurgeGoesOn(p) PROVE OutboundIInv'
<1> DEFINE a == purge[p].awaits
<1>1. /\ a # 0 /\ stage[a] \in {"sent", "failed"}
      /\ purge' = [purge EXCEPT ![p].todo = Tail(@), ![p].awaits = 0]
      /\ UNCHANGED <<sock, up, wrapped, made, call, stage, backlog, thinking, sendTrouble, scope, typingVars, trackVars>>
  BY DEF PurgeGoesOn
<1>2. /\ OutboundTypeOK /\ purge[p].todo \in Seq(Sends) /\ a \in Sends /\ MaxSends \in Nat
  BY <1>1, OutboundAssumption DEF OutboundIInv, OutboundTypeOK, Sends
<1>3. purge[p].todo # <<>> /\ call[a].deletes = Head(purge[p].todo)
  BY <1>1 DEF OutboundIInv, PurgeKnows
<1> HIDE DEF a
<1> DEFINE todo == purge[p].todo
<1>4. /\ Head(todo) \in Sends /\ Tail(todo) \in Seq(Sends) /\ Head(todo) = todo[1]
      /\ DOMAIN Tail(todo) = 1 .. Len(todo) - 1 /\ DOMAIN todo = 1 .. Len(todo) /\ Len(todo) \in Nat
      /\ \A x \in 1 .. Len(todo) - 1 : Tail(todo)[x] = todo[x + 1] /\ x + 1 \in DOMAIN todo
  BY <1>2, <1>3, Shortened, EntryOf
<1>5. Head(todo) \in deleted \union unsure
  BY <1>1, <1>2, <1>3, <1>4 DEF OutboundIInv, Deletes, Target, Sends
<1>6. \A e \in ToSet(todo) : e = Head(todo) \/ e \in ToSet(Tail(todo))
  <2> SUFFICES ASSUME NEW x \in DOMAIN todo, x # 1
               PROVE  todo[x] \in ToSet(Tail(todo))
    BY <1>4 DEF ToSet
  <2>1. x - 1 \in DOMAIN Tail(todo) /\ Tail(todo)[x - 1] = todo[x]
    BY <1>4
  <2> QED
    BY <2>1 DEF ToSet
<1>7. /\ purge' \in [Purgers -> [on : 0 .. MaxSockets, todo : Seq(Sends), awaits : 0 .. MaxSends]]
      /\ purge'[p].awaits = 0 /\ purge'[p].todo = Tail(todo)
      /\ \A q \in Purgers : q # p => purge'[q] = purge[q]
  <2> DEFINE rest == [purge[p] EXCEPT !.todo = Tail(todo), !.awaits = 0]
  <2>1. purge \in [Purgers -> [on : 0 .. MaxSockets, todo : Seq(Sends), awaits : 0 .. MaxSends]]
    BY <1>2 DEF OutboundTypeOK
  <2>2. /\ rest \in [on : 0 .. MaxSockets, todo : Seq(Sends), awaits : 0 .. MaxSends]
        /\ rest.awaits = 0 /\ rest.todo = Tail(todo)
    <3>1. purge[p] \in [on : 0 .. MaxSockets, todo : Seq(Sends), awaits : 0 .. MaxSends]
      BY <2>1
    <3>2. Tail(todo) \in Seq(Sends) /\ 0 \in 0 .. MaxSends
      BY <1>2, <1>4
    <3> HIDE DEF todo
    <3> QED
      BY <3>1, <3>2
  <2>3. purge' = [purge EXCEPT ![p] = rest]
    BY <1>1, <2>1
  <2> HIDE DEF rest, todo
  <2> QED
    BY <2>1, <2>2, <2>3
<1>8. OutboundTypeOK'
  BY <1>1, <1>2, <1>7 DEF OutboundTypeOK, trackVars, typingVars
<1>9. CallsMade' /\ QueuesHold' /\ WentOut' /\ RingIsComplete' /\ Deletes'
  <2>1. sock' >= sock
    BY <1>1, <1>2 DEF OutboundTypeOK
  <2> QED
    BY <1>1, <1>8, <2>1, SendsRest
<1>10. TypingHasEnd'
  BY <1>1, TypingStays DEF OutboundIInv
<1>11. PurgeKnows'
  <2> SUFFICES ASSUME NEW q \in Purgers
               PROVE  /\ \A x \in DOMAIN purge'[q].todo : stage[purge'[q].todo[x]] = "sent"
                      /\ purge'[q].awaits # 0 => /\ purge'[q].todo # <<>> /\ purge'[q].awaits <= made
                                                 /\ call[purge'[q].awaits].deletes = Head(purge'[q].todo)
    BY <1>1 DEF PurgeKnows
  <2>1. CASE q = p
    <3>1. \A x \in DOMAIN todo : stage[todo[x]] = "sent"
      BY DEF OutboundIInv, PurgeKnows
    <3>2. \A x \in DOMAIN Tail(todo) : stage[Tail(todo)[x]] = "sent"
      BY <1>4, <3>1
    <3> HIDE DEF todo
    <3> QED
      BY <1>7, <2>1, <3>2
  <2>2. CASE q # p
    BY <1>7, <2>2 DEF OutboundIInv, PurgeKnows
  <2> QED
    BY <2>1, <2>2
<1>12. PurgeCovers'
  <2> SUFFICES ASSUME NEW q \in Purgers
               PROVE  scope[q] \ ToSet(purge'[q].todo) \subseteq deleted \union unsure
    BY <1>1 DEF PurgeCovers, trackVars
  <2>1. CASE q = p
    BY <1>5, <1>6, <1>7, <2>1 DEF OutboundIInv, PurgeCovers
  <2>2. CASE q # p
    BY <1>7, <2>2 DEF OutboundIInv, PurgeCovers
  <2> QED
    BY <2>1, <2>2
<1> QED
  BY <1>8, <1>9, <1>10, <1>11, <1>12 DEF OutboundIInv

LEMMA OutboundStep == ASSUME OutboundIInv, [OutboundNext]_outVars PROVE OutboundIInv'
<1>1. CASE UNCHANGED outVars
  <2>1. UNCHANGED <<sock, up, wrapped, made, call, stage, backlog, thinking, sendTrouble, purgeVars, typingVars, trackVars>>
    BY <1>1 DEF outVars
  <2>2. OutboundTypeOK' /\ sock' >= sock
    BY <2>1 DEF OutboundIInv, OutboundTypeOK, purgeVars, typingVars, trackVars
  <2>3. CallsMade' /\ QueuesHold' /\ WentOut' /\ RingIsComplete' /\ Deletes'
    BY <2>1, <2>2, SendsRest
  <2>4. PurgeKnows' /\ PurgeCovers' /\ TypingHasEnd'
    BY <2>1, PurgesRest, TypingStays DEF OutboundIInv
  <2> QED
    BY <2>2, <2>3, <2>4 DEF OutboundIInv
<1>2. CASE SocketOpens
  BY <1>2, SocketOpensKeeps
<1>3. CASE SocketCloses
  BY <1>3, SocketClosesKeeps
<1>4. CASE Says
  BY <1>4, SaysKeeps
<1>5. CASE Thinks \/ StillThinks \/ ThoughtOver
  BY <1>5, ThinksKeeps
<1>6. ASSUME NEW g \in Sockets, Wraps(g) PROVE OutboundIInv'
  BY <1>6, WrapsKeeps
<1>7. ASSUME NEW n \in Sends, TypingOver(n) PROVE OutboundIInv'
  BY <1>7, TypingOverKeeps
<1>8. ASSUME NEW n \in Sends, Settles(n) PROVE OutboundIInv'
  BY <1>8, AnsweredKeeps, RejectedKeeps DEF Settles
<1>9. ASSUME NEW p \in Purgers, PurgeBegins(p) \/ PurgeDeletes(p) \/ PurgeGoesOn(p) PROVE OutboundIInv'
  BY <1>9, PurgeBeginsKeeps, PurgeDeletesKeeps, PurgeGoesOnKeeps
<1> QED
  BY <1>1, <1>2, <1>3, <1>4, <1>5, <1>6, <1>7, <1>8, <1>9 DEF OutboundNext

LEMMA OutboundHolds == ASSUME OutboundIInv PROVE OutboundInv
<1>1. RingIsHonest
  <2>1. IsInjective(ring)
    BY InLineOnce DEF OutboundIInv, OutboundTypeOK, WentOut
  <2>2. \A k \in ToSet(ring) : stage[k] = "sent" /\ (k \in deleted => k \in unsure)
    <3>1. \A x \in DOMAIN ring : ring[x] \in Sends /\ ring[x] \in ToSet(delivered)
      BY EntryOf DEF OutboundIInv, OutboundTypeOK, WentOut, InLine
    <3> QED
      BY <3>1 DEF OutboundIInv, WentOut, ToSet
  <2> QED
    BY <2>1, <2>2 DEF RingIsHonest
<1>2. TypingEnds
  BY DEF OutboundIInv, TypingHasEnd, TypingEnds
<1>3. QueueMoves
  BY DEF OutboundIInv, QueuesHold, QueueMoves
<1> QED
  BY <1>1, <1>2, <1>3 DEF OutboundIInv, OutboundInv

\* Whatever sends, answers, purges and sockets overlap, the list of what was sent is
\* honest and complete, a purge has tried what it set out to delete, the chat does not
\* show typing for ever, and no send waits while there is room.
THEOREM SendsAreKept == OutboundSpec => []OutboundInv
<1>1. OutboundSpec => []OutboundIInv
  BY OutboundStarts, OutboundStep, PTL DEF OutboundSpec
<1> QED
  BY <1>1, OutboundHolds, PTL

-----------------------------------------------------------------------------
(* The migrations.  The tracker is always 1 .. n; as a runner holds on to    *)
(* whatever is not in it, the least version it holds that is not tracked is  *)
(* n + 1 (NextIsNext), which is all the ledger asks for.                     *)

\* The level of the ledger is the end of the tracker.
LEMMA Level ==
  ASSUME NEW n \in Nat PROVE Cardinality(1 .. n) = n
<1>1. Cardinality(1 .. n) = IF 1 > n THEN 0 ELSE n - 1 + 1 BY FS_Interval
<1> QED BY <1>1

LEMMA NextIsNext ==
  ASSUME MigrationsInv, NEW p \in Procs, pc[p] \in {"applying", "recording"},
         NEW v \in Versions, IsNext(v, p),
         NEW n \in 0 .. Latest, tracked = 1 .. n
  PROVE  v <= n + 1 /\ (v \notin tracked => v = n + 1)
<1>1. CASE n = Latest BY <1>1, MigrationsAssumption DEF Versions
<1>2. CASE n < Latest
  <2>1. n + 1 \in Versions \ tracked BY <1>2, MigrationsAssumption DEF Versions
  <2>2. n + 1 \in pending[p] BY <2>1 DEF MigrationsInv, NothingMissed
  <2>3. v <= n + 1 BY <2>2 DEF IsNext
  <2> QED BY <2>3, MigrationsAssumption DEF Versions
<1> QED BY <1>1, <1>2, MigrationsAssumption

LEMMA OneMore ==
  ASSUME NEW n \in 0 .. Latest, tracked = 1 .. n, NEW v \in Versions,
         v \in tracked \/ v = n + 1, tracked' = tracked \union {v}
  PROVE  /\ tracked' = 1 .. (IF v \in tracked THEN n ELSE n + 1)
         /\ (IF v \in tracked THEN n ELSE n + 1) \in 0 .. Latest
         /\ Gapless'
<1>1. CASE v \in tracked
  <2>1. tracked' = 1 .. n BY <1>1
  <2> QED BY <1>1, <2>1 DEF Gapless
<1>2. CASE v \notin tracked
  <2>1. v = n + 1 BY <1>2
  <2>2. n + 1 \in 0 .. Latest BY <2>1, MigrationsAssumption DEF Versions
  <2>3. 1 .. (n + 1) = (1 .. n) \union {n + 1} BY MigrationsAssumption
  <2>4. tracked' = 1 .. (n + 1) BY <2>1, <2>3
  <2> QED BY <1>2, <2>2, <2>4 DEF Gapless
<1> QED BY <1>1, <1>2

-----------------------------------------------------------------------------
(* Types *)

LEMMA MigratedType ==
  ASSUME NEW t \in Tables, NEW v
  PROVE  Migrated(v, t) \in Tables /\ Created(t) \in Tables /\ Renamed(t) \in Tables
BY DEF Migrated, Created, Renamed, Tables

LEMMA InitInv == Init => MigrationsInv
<1> SUFFICES ASSUME Init PROVE MigrationsInv OBVIOUS
<1>1. PICK n \in 0 .. Latest :
        tracked = 1 .. n /\ history = [i \in 1 .. n |-> i] /\ tables \in Tables
  BY DEF Init
<1>2. n \in 0 .. Latest BY <1>1
<1>3. TypeOK
  <2>1. tracked \subseteq Versions BY <1>1, <1>2, MigrationsAssumption DEF Versions
  <2>2. history \in Seq(Versions) BY <1>1, <1>2, MigrationsAssumption DEF Versions
  <2> QED BY <1>1, <2>1, <2>2 DEF Init, TypeOK
<1>4. Gapless BY <1>1, <1>2 DEF Gapless
<1> QED BY <1>3, <1>4 DEF Init, MigrationsInv, NothingMissed, RecordedTookEffect, ReadyIsMigrated

LEMMA StepType ==
  ASSUME TypeOK, NEW p \in Procs, Step(p) PROVE TypeOK'
<1> USE DEF TypeOK, Goto
<1>1. CASE Build(p) BY <1>1, MigratedType DEF Build
<1>2. CASE List(p) BY <1>2 DEF List
<1>3. CASE Finish(p) BY <1>3 DEF Finish
<1>4. ASSUME NEW v \in Versions, Apply(p, v) PROVE TypeOK'
  <2>1. history' \in Seq(Versions) BY <1>4 DEF Apply, Commit
  <2> QED BY <1>4, <2>1, MigratedType DEF Apply, Commit
<1>5. ASSUME NEW v \in Versions, Conflict(p, v) PROVE TypeOK' BY <1>5 DEF Conflict
<1>6. ASSUME NEW v \in Versions, Up(p, v) PROVE TypeOK'
  <2>1. history' \in Seq(Versions) BY <1>6 DEF Up
  <2> QED BY <1>6, <2>1 DEF Up
<1>7. ASSUME NEW v \in Versions, Record(p, v) PROVE TypeOK' BY <1>7 DEF Record
<1>8. CASE RunDdl(p) BY <1>8, MigratedType DEF RunDdl
<1>9. CASE Abort(p) BY <1>9 DEF Abort, Trouble
<1>10. CASE Restart(p) BY <1>10 DEF Restart
<1>11. ASSUME NEW v \in Versions, AnswerLost(p, v) PROVE TypeOK'
  <2>1. history' \in Seq(Versions) BY <1>11 DEF AnswerLost, Commit
  <2>2. trouble' \in Nat BY <1>11 DEF AnswerLost, Trouble
  <2>3. tables' \in Tables BY <1>11, MigratedType DEF AnswerLost, Commit
  <2>4. pc' = [pc EXCEPT ![p] = "down"] /\ UNCHANGED <<backend, pending, ddl>>
        /\ tracked' = tracked \union {v}
    BY <1>11 DEF AnswerLost, Commit
  <2> QED BY <2>1, <2>2, <2>3, <2>4
<1> QED BY <1>1, <1>2, <1>3, <1>4, <1>5, <1>6, <1>7, <1>8, <1>9, <1>10, <1>11 DEF Step, BootStep

-----------------------------------------------------------------------------
(* The invariant and the ledger *)

\* A step that leaves the tracker and the history alone.
LEMMA QuietStep ==
  ASSUME MigrationsInv, TypeOK', NEW p \in Procs,
         Build(p) \/ List(p) \/ Finish(p) \/ RunDdl(p) \/ Abort(p) \/ Restart(p)
           \/ \E v \in Versions : Conflict(p, v)
  PROVE  MigrationsInv' /\ UNCHANGED <<backend, tracked, history>>
<1> USE DEF MigrationsInv, TypeOK, Goto
<1>1. UNCHANGED <<backend, tracked, history>>
  BY DEF Build, List, Finish, RunDdl, Abort, Restart, Conflict
<1>2. \A q \in Procs : q # p => pc'[q] = pc[q] /\ pending'[q] = pending[q]
  BY DEF Build, List, Finish, RunDdl, Abort, Restart, Conflict
<1>3. \/ pc'[p] \in {"down", "built"}
      \/ pc'[p] = "applying" /\ pending'[p] = Versions \ tracked
      \/ pc'[p] = "ready" /\ pc[p] = "applying" /\ pending[p] = {}
      \/ pc'[p] = pc[p] /\ pending'[p] = pending[p]
  BY DEF Build, List, Finish, RunDdl, Abort, Restart, Conflict
<1>4. Gapless' BY <1>1 DEF Gapless
<1>5. NothingMissed' BY <1>1, <1>2, <1>3 DEF NothingMissed
<1>6. RecordedTookEffect' BY <1>1, <1>2, <1>3 DEF RecordedTookEffect, IsNext
<1>7. ReadyIsMigrated' BY <1>1, <1>2, <1>3 DEF ReadyIsMigrated, NothingMissed
<1> QED BY <1>1, <1>4, <1>5, <1>6, <1>7

\* A transaction: what it adds to the tracker is the next migration.
LEMMA CommitStep ==
  ASSUME MigrationsInv, TypeOK', NEW p \in Procs, NEW v \in Versions,
         Apply(p, v) \/ AnswerLost(p, v)
  PROVE  MigrationsInv' /\ Ledger!ApplyAndRecord
<1> USE DEF MigrationsInv, TypeOK, Goto
<1>1. PICK n \in 0 .. Latest : tracked = 1 .. n BY DEF Gapless
<1>2. /\ pc[p] = "applying" /\ IsNext(v, p) /\ v \notin tracked /\ backend \in SqlStores
      /\ Commit(v) /\ backend' = backend
      /\ \/ pending' = [pending EXCEPT ![p] = @ \ {v}] /\ pc' = pc
         \/ pending' = pending /\ pc' = [pc EXCEPT ![p] = "down"]
  <2>1. CASE Apply(p, v) BY <2>1 DEF Apply
  <2>2. CASE AnswerLost(p, v) BY <2>2 DEF AnswerLost, SqlStores
  <2> QED BY <2>1, <2>2
<1>3. v = n + 1 BY <1>1, <1>2, NextIsNext
<1>4. tracked' = 1 .. (n + 1) /\ n + 1 \in 0 .. Latest /\ Gapless'
  BY <1>1, <1>2, <1>3, OneMore DEF Commit
<1>5. NothingMissed' BY <1>2 DEF NothingMissed, Commit
<1>6. RecordedTookEffect' BY <1>2 DEF RecordedTookEffect, SqlStores, OtherStores
<1>7. ReadyIsMigrated' BY <1>2 DEF ReadyIsMigrated
<1>8. Cardinality(tracked) = n /\ Cardinality(tracked') = n + 1
  BY <1>1, <1>4, Level, MigrationsAssumption
<1>9. Ledger!ApplyAndRecord
  BY <1>2, <1>3, <1>4, <1>8, MigrationsAssumption DEF Ledger!ApplyAndRecord, Ledger!TakesEffect, Commit
<1> QED BY <1>4, <1>5, <1>6, <1>7, <1>9

LEMMA UpStep ==
  ASSUME MigrationsInv, TypeOK', NEW p \in Procs, NEW v \in Versions, Up(p, v)
  PROVE  MigrationsInv' /\ Ledger!ApplyOnly
<1> USE DEF MigrationsInv, TypeOK, Goto
<1>1. PICK n \in 0 .. Latest : tracked = 1 .. n BY DEF Gapless
<1>2. v <= n + 1 BY <1>1, NextIsNext DEF Up
<1>3. /\ UNCHANGED <<backend, tracked, pending>>
      /\ history' = Append(history, v)
      /\ backend \in OtherStores /\ IsNext(v, p)
      /\ pc[p] = "applying" /\ pc'[p] = "recording"
      /\ \A q \in Procs : q # p => pc'[q] = pc[q]
  BY DEF Up
<1>4. /\ Len(history') = Len(history) + 1 /\ Len(history) \in Nat
      /\ history'[Len(history) + 1] = v
      /\ \A i \in 1 .. Len(history) : history'[i] = history[i]
  BY <1>3
<1>5. Gapless' BY <1>3 DEF Gapless
<1>6. NothingMissed' BY <1>3 DEF NothingMissed
<1>7. ASSUME NEW q \in Procs, pc'[q] = "recording"
      PROVE  backend' \in OtherStores /\ \E i \in 1 .. Len(history') : IsNext(history[i], q)'
  <2>1. CASE q = p
    <3>1. IsNext(history[Len(history)], p)' BY <1>3, <1>4 DEF IsNext
    <3> QED BY <2>1, <1>3, <1>4, <3>1
  <2>2. CASE q # p
    <3>1. PICK i \in 1 .. Len(history) : IsNext(history[i], q)
      BY <2>2, <1>3, <1>7 DEF RecordedTookEffect
    <3>2. i \in 1 .. Len(history') /\ history'[i] = history[i] BY <1>4
    <3> QED BY <1>3, <3>1, <3>2 DEF IsNext
  <2> QED BY <2>1, <2>2
<1>8. RecordedTookEffect' BY <1>7 DEF RecordedTookEffect
<1>9. ReadyIsMigrated' BY <1>3 DEF ReadyIsMigrated
<1>10. Cardinality(tracked) = n BY <1>1, Level, MigrationsAssumption
<1>11. backend \notin SqlStores BY <1>3 DEF OtherStores, SqlStores
<1>12. Ledger!ApplyOnly
  BY <1>2, <1>3, <1>10, <1>11 DEF Ledger!ApplyOnly, Ledger!TakesEffect, Versions
<1> QED BY <1>5, <1>6, <1>8, <1>9, <1>12

LEMMA RecordStep ==
  ASSUME MigrationsInv, TypeOK', NEW p \in Procs, NEW v \in Versions, Record(p, v)
  PROVE  MigrationsInv' /\ (Ledger!RecordOnly \/ UNCHANGED <<backend, tracked, history>>)
<1> USE DEF MigrationsInv, TypeOK, Goto
<1>1. PICK n \in 0 .. Latest : tracked = 1 .. n BY DEF Gapless
<1>2. v \in tracked \/ v = n + 1 BY <1>1, NextIsNext DEF Record
<1>3. /\ UNCHANGED <<backend, history>>
      /\ tracked' = tracked \union {v}
      /\ pending'[p] = pending[p] \ {v}
      /\ backend \in OtherStores /\ IsNext(v, p)
      /\ pc[p] = "recording" /\ pc'[p] = "applying"
      /\ \A q \in Procs : q # p => pc'[q] = pc[q] /\ pending'[q] = pending[q]
  BY DEF Record
<1>4. tracked' = 1 .. (IF v \in tracked THEN n ELSE n + 1) /\ Gapless' /\ (v \notin tracked => n < Latest)
  BY <1>1, <1>2, <1>3, OneMore, MigrationsAssumption DEF Versions
<1>5. NothingMissed' BY <1>3 DEF NothingMissed
<1>6. RecordedTookEffect' BY <1>3 DEF RecordedTookEffect, IsNext
<1>7. ReadyIsMigrated' BY <1>3 DEF ReadyIsMigrated
<1>8. PICK i \in 1 .. Len(history) : IsNext(history[i], p) BY <1>3 DEF RecordedTookEffect
<1>9. history[i] = v
  <2>1. history[i] \in Versions BY <1>8
  <2> QED BY <1>3, <1>8, <2>1, MigrationsAssumption DEF IsNext, Versions
<1>10. backend \notin SqlStores BY <1>3 DEF OtherStores, SqlStores
<1>11. CASE v \in tracked BY <1>1, <1>3, <1>4, <1>11, <1>5, <1>6, <1>7
<1>12. CASE v \notin tracked
  <2>1. Cardinality(tracked) = n /\ Cardinality(tracked') = n + 1
    BY <1>1, <1>4, <1>12, Level, MigrationsAssumption
  <2>2. Ledger!RecordOnly
    BY <1>2, <1>3, <1>4, <1>9, <1>10, <1>12, <2>1, MigrationsAssumption DEF Ledger!RecordOnly
  <2> QED BY <1>4, <1>5, <1>6, <1>7, <2>2
<1> QED BY <1>11, <1>12

LEMMA StepInv ==
  ASSUME MigrationsInv, [Next]_vars
  PROVE  MigrationsInv' /\ [Ledger!LedgerNext]_(Ledger!ledgerVars)
<1>1. CASE UNCHANGED vars
  BY <1>1 DEF vars, MigrationsInv, TypeOK, Gapless, NothingMissed, RecordedTookEffect,
       ReadyIsMigrated, IsNext, Ledger!ledgerVars
<1>2. ASSUME NEW p \in Procs, Step(p)
      PROVE  MigrationsInv' /\ [Ledger!LedgerNext]_(Ledger!ledgerVars)
  <2>0. TypeOK' BY <1>2, StepType DEF MigrationsInv
  <2>1. CASE Build(p) \/ List(p) \/ Finish(p) \/ RunDdl(p) \/ Abort(p) \/ Restart(p)
               \/ \E v \in Versions : Conflict(p, v)
    BY <2>0, <2>1, QuietStep DEF Ledger!ledgerVars
  <2>2. CASE \E v \in Versions : Apply(p, v) \/ AnswerLost(p, v)
    BY <2>0, <2>2, CommitStep DEF Ledger!LedgerNext
  <2>3. CASE \E v \in Versions : Up(p, v) BY <2>0, <2>3, UpStep DEF Ledger!LedgerNext
  <2>4. CASE \E v \in Versions : Record(p, v)
    BY <2>0, <2>4, RecordStep DEF Ledger!LedgerNext, Ledger!ledgerVars
  <2> QED BY <1>2, <2>1, <2>2, <2>3, <2>4 DEF Step, BootStep
<1> QED BY <1>1, <1>2 DEF Next

\* Whatever the processes, their number, the migrations and what fails: the
\* tracker has no gap, and a runner that is past its migrations has them all.
THEOREM MigrationsInvariant == Spec => []MigrationsInv
BY InitInv, StepInv, PTL DEF Spec

THEOREM ReadyInvariant == Spec => []ReadyIsMigrated
BY MigrationsInvariant, PTL DEF MigrationsInv

\* runMigrations and its four adapters implement the ledger.
THEOREM LedgerRefined == Spec => LedgerKept
<1>1. Init => Ledger!LedgerInit
  <2> SUFFICES ASSUME Init PROVE Ledger!LedgerInit OBVIOUS
  <2>1. PICK n \in 0 .. Latest : tracked = 1 .. n /\ history = [i \in 1 .. n |-> i]
    BY DEF Init
  <2>2. n \in 0 .. Latest BY <2>1
  <2>3. Cardinality(tracked) = n BY <2>1, <2>2, Level, MigrationsAssumption
  <2> QED BY <2>1, <2>2, <2>3, MigrationsAssumption DEF Ledger!LedgerInit
<1> QED BY <1>1, InitInv, StepInv, PTL DEF Spec, LedgerKept, Ledger!LedgerSpec

=============================================================================

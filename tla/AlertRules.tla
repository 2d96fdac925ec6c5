------------------------------ MODULE AlertRules ------------------------------
(***************************************************************************)
(* services/alertEngine.js, the rules of the sweep, which ask the store:   *)
(* one about a gauge (the day's AI cost; the failure rate of Telegram has  *)
(* the same form) and one about a counter that grows (failed XP decays).   *)
(*                                                                         *)
(* setInterval starts a sweep whether or not the rules of the last one     *)
(* have their answers: several may wait for the store, which answers them  *)
(* in any order.                                                           *)
(***************************************************************************)
EXTENDS Integers

CONSTANTS
  CostRule, DecayRule,
  CooldownMinutes,   \* of the rules
  MaxRuleMinute,     \* bound on the clock
  MaxDecayFailures,  \* bound on the failed decays
  MaxSweeps          \* bound on the sweeps that wait for the store

Rules == {CostRule, DecayRule}

ASSUME AlertRulesAssumption ==
  /\ CostRule # DecayRule
  /\ CooldownMinutes \in Nat \ {0}
  /\ MaxRuleMinute \in Nat /\ MaxDecayFailures \in Nat /\ MaxSweeps \in Nat

VARIABLES
  ruleMinute,
  activeRules,
  firedAt,       \* st.cooldowns: when a rule fired last
  overCost, decayFailures,  \* what the store knows
  decaySeen,     \* _decayFailLastSeen
  sweeps,        \* slot -> the rules of one sweep: where they are and what they read
  ruleTold,      \* history: rule -> the kind of its last notice
  triggeredAt    \* history: rule -> the minute of its last "triggered"

storeVars == <<overCost, decayFailures>>
noticeVars == <<ruleTold, triggeredAt>>
ruleVars == <<ruleMinute, activeRules, firedAt, storeVars, decaySeen, sweeps, noticeVars>>

LongAgo == -CooldownMinutes
SweepSlots == 1 .. MaxSweeps
NoSweep == [at |-> "none", read |-> 0]

RulesInit ==
  /\ ruleMinute = 0
  /\ activeRules = {}
  /\ firedAt = [r \in Rules |-> LongAgo]
  /\ overCost = FALSE /\ decayFailures = 0 /\ decaySeen = 0
  /\ sweeps = [s \in SweepSlots |-> NoSweep]
  /\ ruleTold = [r \in Rules |-> "none"]
  /\ triggeredAt = [r \in Rules |-> LongAgo]

-----------------------------------------------------------------------------
\* _notify(), for the rules that come and go.
Tells(now) ==
  /\ ruleTold' = [r \in Rules |-> IF r \in now \ activeRules THEN "triggered"
                                  ELSE IF r \in activeRules \ now THEN "cleared" ELSE ruleTold[r]]
  /\ triggeredAt' = [r \in Rules |-> IF r \in now \ activeRules THEN ruleMinute ELSE triggeredAt[r]]

\* _sweep() first evaluates every active key as if it were a command: a rule has
\* no outcomes, so that its alert is cleared.  Then the rules ask the store.
SweepStarts(s) ==
  /\ sweeps[s] = NoSweep
  /\ activeRules' = {} /\ Tells({})
  /\ sweeps' = [sweeps EXCEPT ![s] = [at |-> "cost", read |-> 0]]
  /\ UNCHANGED <<ruleMinute, firedAt, storeVars, decaySeen>>

\* The store reads, and answers later.
StoreReads(s) ==
  /\ \/ /\ sweeps[s].at = "cost"
        /\ sweeps' = [sweeps EXCEPT ![s] = [at |-> "costRead", read |-> IF overCost THEN 1 ELSE 0]]
     \/ /\ sweeps[s].at = "decay"
        /\ sweeps' = [sweeps EXCEPT ![s] = [at |-> "decayRead", read |-> decayFailures]]
  /\ UNCHANGED <<ruleMinute, activeRules, firedAt, storeVars, decaySeen, noticeVars>>

\* A rule catches the failure of its read, and the next one goes on.
StoreFails(s) ==
  /\ sweeps[s].at \in {"cost", "decay"}
  /\ sweeps' = [sweeps EXCEPT ![s] = IF @.at = "cost" THEN [@ EXCEPT !.at = "decay"] ELSE NoSweep]
  /\ UNCHANGED <<ruleMinute, activeRules, firedAt, storeVars, decaySeen, noticeVars>>

OffCooldown(r) == ruleMinute - firedAt[r] >= CooldownMinutes

\* Mutant: an alert that is off is triggered, cooldown or not.
RuleUncooled(r, firing) ==
  LET fires == firing /\ r \notin activeRules
      now == IF fires THEN activeRules \union {r}
             ELSE IF firing THEN activeRules ELSE activeRules \ {r} IN
  /\ activeRules' = now /\ Tells(now)
  /\ firedAt' = IF fires THEN [firedAt EXCEPT ![r] = ruleMinute] ELSE firedAt

\* After the answer nothing is awaited: an alert that is off and off cooldown is
\* triggered, one that is on and no longer justified is cleared.
Rule(r, firing) ==
  LET fires == firing /\ r \notin activeRules /\ OffCooldown(r)
      now == IF fires THEN activeRules \union {r}
             ELSE IF firing THEN activeRules ELSE activeRules \ {r} IN
  /\ activeRules' = now /\ Tells(now)
  /\ firedAt' = IF fires THEN [firedAt EXCEPT ![r] = ruleMinute] ELSE firedAt

CostAnswered(s) ==
  /\ sweeps[s].at = "costRead"
  /\ Rule(CostRule, sweeps[s].read = 1)
  /\ sweeps' = [sweeps EXCEPT ![s] = [at |-> "decay", read |-> 0]]
  /\ UNCHANGED <<ruleMinute, storeVars, decaySeen>>

\* _decayFailLastSeen becomes what this answer says, though a later one was here.
DecayAnswered(s) ==
  /\ sweeps[s].at = "decayRead"
  /\ Rule(DecayRule, sweeps[s].read > decaySeen)
  /\ decaySeen' = sweeps[s].read
  /\ sweeps' = [sweeps EXCEPT ![s] = NoSweep]
  /\ UNCHANGED <<ruleMinute, storeVars>>

-----------------------------------------------------------------------------
RulesWorld ==
  /\ \/ overCost' = ~overCost /\ UNCHANGED <<ruleMinute, decayFailures>>
     \/ /\ decayFailures < MaxDecayFailures /\ decayFailures' = decayFailures + 1
        /\ UNCHANGED <<ruleMinute, overCost>>
     \/ /\ ruleMinute < MaxRuleMinute /\ ruleMinute' = ruleMinute + 1
        /\ UNCHANGED storeVars
  /\ UNCHANGED <<activeRules, firedAt, decaySeen, sweeps, noticeVars>>

RulesNext ==
  \/ RulesWorld
  \/ \E s \in SweepSlots :
       SweepStarts(s) \/ StoreReads(s) \/ StoreFails(s) \/ CostAnswered(s) \/ DecayAnswered(s)

RulesSpec == RulesInit /\ [][RulesNext]_ruleVars

-----------------------------------------------------------------------------
(* Properties *)

\* A rule is announced once per cooldown, though every sweep clears its alert and
\* several sweeps wait for the store, which answers them in any order.
RulesKeepCooldown ==
  [][\A r \in Rules : r \in activeRules' \ activeRules =>
                        ruleMinute - triggeredAt[r] >= CooldownMinutes]_ruleVars

\* alertEngine.js, "else if (!isFiring && wasActive)": the cost alert is cleared by
\* an answer that the cost is under its threshold.
SaidUnder == \E s \in SweepSlots : sweeps[s] = [at |-> "costRead", read |-> 0]

CostClearedWhenUnder == [][(CostRule \in activeRules \ activeRules') => SaidUnder]_ruleVars

=============================================================================

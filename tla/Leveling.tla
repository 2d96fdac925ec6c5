------------------------------- MODULE Leveling -------------------------------
(***************************************************************************)
(* The XP of one user: services/levelingService.js reads the level, adds   *)
(* the XP of a command and congratulates if the level is higher than what  *)
(* it had read; services/levelingDecayService.js lets every store shrink   *)
(* the XP of who was not seen for a while.  Commands of one user in two    *)
(* chats award at the same time, and except on SQLITE the sweep writes     *)
(* what it computed from XP that it had read before.                       *)
(*                                                                         *)
(* Decay halves the XP with every week past the grace (percentPerWeek at   *)
(* its highest).                                                           *)
(***************************************************************************)
EXTENDS Integers, FiniteSets

CONSTANTS
  LevelStores,     \* a subset of {"sqlite", "server", "redis"}; a server is POSTGRES or MONGODB
  Awards,          \* commands of the user, each awarded once
  Award,           \* XP of a command
  BaseThreshold,   \* XP of the second level
  Grace,           \* weeks
  MaxWeek,         \* bound on the clock
  MaxXpTrouble     \* bound on failures and crashes

ASSUME LevelingAssumption ==
  /\ LevelStores \subseteq {"sqlite", "server", "redis"}
  /\ IsFiniteSet(Awards)
  /\ Award \in Nat \ {0} /\ BaseThreshold \in Nat \ {0} /\ Grace \in Nat \ {0}
  /\ MaxWeek \in Nat /\ MaxXpTrouble \in Nat

VARIABLES
  levelStore,
  week,
  xp, lastAt,    \* the row of user_levels
  award,         \* award -> where it is, and the level it read
  sweep,         \* the decay sweep: what it read of the row, and when
  announced,     \* history: the highest level the user was congratulated on, 1 at first
  fair,          \* history: the XP of the row at its last award, and the week of that
  crossed,       \* history: an award and a write of the sweep have crossed
  unheard,       \* history: an award took effect, and its award was not told
  xpTrouble

rowVars == <<xp, lastAt>>
levelingVars == <<levelStore, week, rowVars, award, sweep, announced, fair, crossed, unheard, xpTrouble>>

Weeks == 0 .. MaxWeek
NotSeen == -1
MaxXp == Cardinality(Awards) * Award

\* describe(): every level takes half as much again as the one before it
\* (GROWTH_FACTOR), rounded.
Steps[n \in 1 .. MaxXp + 1] == IF n = 1 THEN BaseThreshold ELSE (3 * Steps[n - 1] + 1) \div 2
Floors[n \in 1 .. MaxXp + 1] == IF n = 1 THEN 0 ELSE Floors[n - 1] + Steps[n - 1]
Level(x) == CHOOSE n \in 1 .. MaxXp + 1 : Floors[n] <= x /\ x < Floors[n] + Steps[n]
Levels == 1 .. Level(MaxXp)
NoSweepUnderWay == [xp |-> 0, lastAt |-> NotSeen, now |-> 0]

LevelingTypeOK ==
  /\ levelStore \in LevelStores
  /\ week \in Weeks
  /\ xp \in 0 .. MaxXp /\ lastAt \in {NotSeen} \union Weeks
  /\ award \in [Awards -> [at : {"new", "read", "added", "done"}, level : Levels, total : 0 .. MaxXp]]
  /\ sweep \in [xp : 0 .. MaxXp, lastAt : {NotSeen} \union Weeks, now : Weeks]
  /\ announced \in Levels
  /\ fair \in [xp : 0 .. MaxXp, at : Weeks]
  /\ crossed \in BOOLEAN /\ unheard \in BOOLEAN
  /\ xpTrouble \in Nat

LevelingInit ==
  /\ levelStore \in LevelStores
  /\ week = 0
  /\ xp = 0 /\ lastAt = NotSeen
  /\ award = [a \in Awards |-> [at |-> "new", level |-> 1, total |-> 0]]
  /\ sweep = NoSweepUnderWay
  /\ announced = 1
  /\ fair = [xp |-> 0, at |-> 0]
  /\ crossed = FALSE /\ unheard = FALSE
  /\ xpTrouble = 0

XpTrouble == xpTrouble < MaxXpTrouble /\ xpTrouble' = xpTrouble + 1

-----------------------------------------------------------------------------
(* awardForCommand() *)

sweepVars == <<sweep, week>>

\* getUserLevel(); a failed read looks like a user without XP.
ReadsLevel(a) ==
  /\ award[a].at = "new"
  /\ \/ award' = [award EXCEPT ![a] = [@ EXCEPT !.at = "read", !.level = Level(xp)]] /\ UNCHANGED xpTrouble
     \/ award' = [award EXCEPT ![a] = [@ EXCEPT !.at = "read", !.level = 1]] /\ XpTrouble
  /\ UNCHANGED <<levelStore, rowVars, sweepVars, announced, fair, crossed, unheard>>

\* addUserXp(), one atomic addition, with the new total as its answer; REDIS sets
\* last_at by a call of its own.
AddsXp(a) ==
  /\ award[a].at = "read"
  /\ xp' = xp + Award
  /\ lastAt' = IF levelStore = "redis" THEN lastAt ELSE week
  /\ award' = [award EXCEPT ![a] = [@ EXCEPT !.at = "added", !.total = xp + Award]]
  /\ fair' = [xp |-> xp + Award, at |-> week]
  /\ crossed' = (crossed \/ sweep # NoSweepUnderWay)
  /\ UNCHANGED <<levelStore, sweepVars, announced, unheard, xpTrouble>>

\* The addition fails, or only its answer: the store says 0 in both cases, and 0
\* is no level up.
AddFails(a) ==
  /\ award[a].at = "read"
  /\ XpTrouble
  /\ award' = [award EXCEPT ![a].at = "done"]
  /\ \/ UNCHANGED <<rowVars, fair, crossed, unheard>>
     \/ /\ xp' = xp + Award /\ lastAt' = IF levelStore = "redis" THEN lastAt ELSE week
        /\ fair' = [xp |-> xp + Award, at |-> week]
        /\ crossed' = TRUE /\ unheard' = TRUE
  /\ UNCHANGED <<levelStore, sweepVars, announced>>

\* Mutant: compared with the level of now, not with the one of before.
ConcludesLate(a) ==
  /\ award[a].at = "added"
  /\ award' = [award EXCEPT ![a].at = "done"]
  /\ lastAt' = IF levelStore = "redis" THEN week ELSE lastAt
  /\ announced' = IF Level(award[a].total) > Level(xp) /\ Level(award[a].total) > announced
                    THEN Level(award[a].total) ELSE announced
  /\ UNCHANGED <<levelStore, xp, sweepVars, fair, crossed, unheard, xpTrouble>>

\* On REDIS last_at follows; then the user is congratulated on a higher level.
Concludes(a) ==
  /\ award[a].at = "added"
  /\ award' = [award EXCEPT ![a].at = "done"]
  /\ lastAt' = IF levelStore = "redis" THEN week ELSE lastAt
  /\ announced' = IF Level(award[a].total) > award[a].level /\ Level(award[a].total) > announced
                    THEN Level(award[a].total) ELSE announced
  /\ UNCHANGED <<levelStore, xp, sweepVars, fair, crossed, unheard, xpTrouble>>

-----------------------------------------------------------------------------
(* applyXpDecay() *)

\* Every week keeps half: percentPerWeek is 0.5.
Parts[n \in Weeks] == IF n = 0 THEN 1 ELSE 2 * Parts[n - 1]
Halved(x, n) == x \div Parts[n]

\* weeksOver, for a row whose last_at is older than the cutoff
WeeksOver(at, now) == IF at = NotSeen \/ now - at <= Grace THEN 0 ELSE now - at - Grace

\* newXp, from what was read
Decayed(x, at, now) == Halved(x, WeeksOver(at, now))

\* One transaction.
DecaysAtOnce ==
  /\ levelStore = "sqlite"
  /\ xp' = Decayed(xp, lastAt, week)
  /\ UNCHANGED <<levelStore, lastAt, award, sweepVars, announced, fair, crossed, unheard, xpTrouble>>

\* The candidates are read, and written after.
DecayReads ==
  /\ levelStore # "sqlite" /\ sweep = NoSweepUnderWay
  /\ Decayed(xp, lastAt, week) < xp
  /\ sweep' = [xp |-> xp, lastAt |-> lastAt, now |-> week]
  /\ crossed' = (crossed \/ \E a \in Awards : award[a].at = "added" /\ levelStore = "redis")
  /\ UNCHANGED <<levelStore, week, rowVars, award, announced, fair, unheard, xpTrouble>>

DecayWrites ==
  /\ sweep # NoSweepUnderWay
  /\ xp' = Decayed(sweep.xp, sweep.lastAt, sweep.now)
  /\ sweep' = NoSweepUnderWay
  /\ UNCHANGED <<levelStore, week, lastAt, award, announced, fair, crossed, unheard, xpTrouble>>

DecayFails ==
  /\ sweep # NoSweepUnderWay
  /\ XpTrouble
  /\ sweep' = NoSweepUnderWay
  /\ UNCHANGED <<levelStore, week, rowVars, award, announced, fair, crossed, unheard>>

-----------------------------------------------------------------------------
WeekPasses ==
  /\ week < MaxWeek /\ week' = week + 1
  /\ UNCHANGED <<levelStore, rowVars, award, sweep, announced, fair, crossed, unheard, xpTrouble>>

\* A restart: an award that was added is not told.
LevelingCrash ==
  /\ XpTrouble
  /\ sweep' = NoSweepUnderWay
  /\ award' = [a \in Awards |-> IF award[a].at = "new" THEN award[a] ELSE [award[a] EXCEPT !.at = "done"]]
  /\ unheard' = (unheard \/ \E a \in Awards : award[a].at = "added")
  /\ crossed' = (crossed \/ \E a \in Awards : award[a].at = "added" /\ levelStore = "redis")
  /\ UNCHANGED <<levelStore, week, rowVars, announced, fair>>

LevelingNext ==
  \/ DecaysAtOnce \/ DecayReads \/ DecayWrites \/ DecayFails \/ WeekPasses \/ LevelingCrash
  \/ \E a \in Awards : ReadsLevel(a) \/ AddsXp(a) \/ AddFails(a) \/ Concludes(a)

LevelingSpec == LevelingInit /\ [][LevelingNext]_levelingVars

-----------------------------------------------------------------------------
(* Properties *)

\* Nobody reaches a level without being congratulated on it or on a higher one, in
\* whatever order the awards of two chats read, add and conclude; the congratulation
\* may come twice, and comes not at all when the answer of the addition is lost.
LevelsAnnounced ==
  unheard \/ Level(xp) <= announced \/ \E a \in Awards : award[a].at = "added"

\* Who was seen within the grace keeps the XP, whatever sweep is under way, unless an
\* award and a sweep crossed: the sweep then writes what was there before the award.
ActiveKeepXp == ~crossed /\ week - fair.at <= Grace => xp = fair.xp

LevelingInv == LevelingTypeOK /\ LevelsAnnounced /\ ActiveKeepXp

\* levelingDecayService.js, "percentPerWeek (default 0.05 = 5%; rate of compounding
\* decay)": the XP is what the weeks past the grace have left of it.
DecaysPerWeek ==
  ~crossed => xp >= Halved(fair.xp, IF week - fair.at <= Grace THEN 0 ELSE week - fair.at - Grace)

=============================================================================

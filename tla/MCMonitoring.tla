----------------------------- MODULE MCMonitoring -----------------------------
(***************************************************************************)
(* The parts of the bot that watch over it, which share no state: the      *)
(* alerts of commands, the rules of the sweep, the bridge to Telegram, the *)
(* recovery of Signal sessions and the journals.  Their interleavings tell *)
(* nothing, so that one of them, chosen at the start, moves in each        *)
(* behaviour.                                                              *)
(***************************************************************************)
EXTENDS Alerts, AlertRules, TelegramBridge, SignalHealth, Journals

VARIABLE part

monitoringVars == <<alertVars, ruleVars, tgVars, healthVars, journalVars, part>>

MonitoringInit ==
  /\ AlertsInit /\ RulesInit /\ TelegramInit /\ HealthInit /\ JournalsInit
  /\ part \in {"alerts", "rules", "telegram", "health", "journal"}
  /\ part # "journal" => journal = "audit" /\ journalStore = CHOOSE s \in JournalStores : TRUE

\* Every line was told and taken, and no failure is left to inject.
BridgeDone == lineBuffer = <<>> /\ flights = {} /\ immediates = 0 /\ UNCHANGED tgVars

\* The bounds on entries, days and prunings are reached.
JournalsDone ==
  /\ underway = <<>> /\ Len(entries) = MaxEntries /\ day = MaxDay
  /\ journal = "audit" => prunes = MaxPrunes
  /\ UNCHANGED journalVars

MonitoringNext ==
  /\ \/ part = "alerts" /\ AlertsNext /\ UNCHANGED <<ruleVars, tgVars, healthVars, journalVars>>
     \/ part = "rules" /\ RulesNext /\ UNCHANGED <<alertVars, tgVars, healthVars, journalVars>>
     \/ part = "telegram" /\ (TelegramNext \/ BridgeDone) /\ UNCHANGED <<alertVars, ruleVars, healthVars, journalVars>>
     \/ part = "health" /\ HealthNext /\ UNCHANGED <<alertVars, ruleVars, tgVars, journalVars>>
     \/ part = "journal" /\ (JournalsNext \/ JournalsDone) /\ UNCHANGED <<alertVars, ruleVars, tgVars, healthVars>>
  /\ UNCHANGED part

\* AlertsFair and TelegramFair, each where its part moves.
MonitoringFair ==
  /\ WF_alertVars(part = "alerts" /\ Sweep)
  /\ WF_tgVars(part = "telegram" /\ TimerFlush)
  /\ WF_tgVars(part = "telegram" /\ ImmediateFlush)
  /\ WF_tgVars(part = "telegram" /\ FlightStep)

MonitoringSpec == MonitoringInit /\ [][MonitoringNext]_monitoringVars /\ MonitoringFair

=============================================================================

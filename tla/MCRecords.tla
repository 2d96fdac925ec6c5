------------------------------ MODULE MCRecords ------------------------------
(***************************************************************************)
(* Four kinds of rows of the store that callbacks read and write past each *)
(* other: watch lists, messages, XP and what events/ mirrors.  They share  *)
(* no state, so that one of them, chosen at the start, moves in each       *)
(* behaviour.                                                              *)
(***************************************************************************)
EXTENDS Watch, MessageRows, Leveling, EventRows

VARIABLE kind

recordsVars == <<watchVars, msgVars, levelingVars, eventVars, kind>>

\* What does not move starts in one state only.
RecordsInit ==
  /\ kind \in {"watch", "message", "xp", "event"}
  /\ WatchInit /\ MsgInit /\ LevelingInit /\ EventsInit
  /\ kind # "watch" => /\ watchStore = CHOOSE s \in WatchStores : TRUE
                       /\ verdict = [t \in Targets |-> CHOOSE v \in Verdicts : TRUE]
  /\ kind # "message" => rowStore = CHOOSE s \in RowStores : TRUE
  /\ kind # "xp" => levelStore = CHOOSE s \in LevelStores : TRUE
  /\ kind # "event" => mirror = "blocked" /\ eventStore = CHOOSE s \in EventStores : TRUE

\* The last week of the model, and every award was told.
LevelingDone == week = MaxWeek /\ (\A a \in Awards : award[a].at = "done") /\ UNCHANGED levelingVars

\* No event of the bound is left, and every handler is done.
EventsDone == eventsLeft = 0 /\ handlers = <<>> /\ UNCHANGED eventVars

RecordsNext ==
  /\ \/ kind = "watch" /\ WatchNext /\ UNCHANGED <<msgVars, levelingVars, eventVars>>
     \/ kind = "message" /\ MsgNext /\ UNCHANGED <<watchVars, levelingVars, eventVars>>
     \/ kind = "xp" /\ (LevelingNext \/ LevelingDone) /\ UNCHANGED <<watchVars, msgVars, eventVars>>
     \/ kind = "event" /\ (EventsNext \/ EventsDone) /\ UNCHANGED <<watchVars, msgVars, levelingVars>>
  /\ UNCHANGED kind

\* WatchFair and MsgFair, each where its kind moves.
RecordsFair ==
  /\ WF_watchVars(kind = "watch" /\ CheckStep)
  /\ WF_msgVars(kind = "message" /\ TimerFires)
  /\ WF_msgVars(kind = "message" /\ (Flush \/ FlushFails))

RecordsSpec == RecordsInit /\ [][RecordsNext]_recordsVars /\ RecordsFair

=============================================================================

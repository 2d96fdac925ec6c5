------------------------------- MODULE MCKeeps -------------------------------
(***************************************************************************)
(* What the bot keeps of a chat: who is muted (on SQLITE, and on the other *)
(* stores), the metadata and logs of a group, and what the AI remembers.   *)
(* They share no state, so that one of them, chosen at the start, moves in *)
(* each behaviour.  The durations of mutes are below, within and above the *)
(* limits, so that a mute is replaced by a shorter and by a longer one.    *)
(***************************************************************************)
EXTENDS Mutes, MuteRows, Groups, Conversation, TLC

CONSTANTS k1, k2
VARIABLE keeps

MCKeys == {k1, k2}
MCSymmetry == Permutations(MCKeys)

\* What does not move starts in one state only.
KeepsInit ==
  /\ Init /\ MuteRowsInit /\ GroupsInit /\ TalkInit
  /\ keeps \in {"mutes", "rows", "group", "memory"}
  /\ keeps # "rows" => muteStore = CHOOSE s \in MuteStores : TRUE
  /\ keeps # "group" => groupStore = CHOOSE s \in GroupStores : TRUE
  /\ keeps # "group" => group.members = {}
  /\ keeps # "memory" => abreast = CHOOSE n \in Abreast : TRUE

\* The bounds are reached.
MuteRowsDone ==
  /\ running /\ pending = <<>> /\ answers = {}
  /\ ~Eventful /\ clock = MaxClock
  /\ UNCHANGED muteRowVars

\* No change of the bound is left, and every handler is done.
GroupsDone == notesLeft = 0 /\ Quiet /\ UNCHANGED groupVars

\* A socket opens anew after the last change, which the worker need not have heard.
LateReconnect == warm = "done" /\ warm' = "due" /\ ~(tasks' = <<>> /\ cached' = NoMeta) =>
  notesLeft = 0 /\ Len(tasks) + Len(notes) < 2

\* The turns of requests that run abreast are of at most three milliseconds.
MillisBound == made' <= 2

\* The bound on the requests is reached, and all of them have ended.
TalkDone ==
  /\ talks = MaxTalks \div abreast /\ \A h \in Talkers : stage[h] = "free"
  /\ UNCHANGED talkVars

KeepsNext ==
  /\ \/ keeps = "mutes" /\ Next /\ UNCHANGED <<muteRowVars, groupVars, talkVars>>
     \/ keeps = "rows" /\ (MuteRowsNext \/ MuteRowsDone) /\ UNCHANGED <<vars, groupVars, talkVars>>
     \/ keeps = "group" /\ (GroupsNext \/ GroupsDone) /\ LateReconnect /\ UNCHANGED <<vars, muteRowVars, talkVars>>
     \/ keeps = "memory" /\ (TalkNext \/ TalkDone) /\ MillisBound /\ UNCHANGED <<vars, muteRowVars, groupVars>>
  /\ UNCHANGED keeps

KeepsSpec == KeepsInit /\ [][KeepsNext]_<<vars, muteRowVars, groupVars, talkVars, keeps>>

=============================================================================

------------------------------- MODULE MCGates -------------------------------
(***************************************************************************)
(* The gates of a command, the pool of workers and the sends to a chat,    *)
(* which share no state: one of them, chosen at the start, moves in each   *)
(* behaviour.                                                              *)
(***************************************************************************)
EXTENDS CommandGate, WorkerPool, Outbound

CONSTANTS d1, d2
VARIABLE gate

\* A sender in two chats.
MCDialogs == {d1, d2}
MCCallerOf == [d \in MCDialogs |-> CHOOSE c \in Callers : TRUE]

gatesVars == <<gateVars, poolVars, outVars, gate>>

GatesInit ==
  /\ GateInit /\ PoolInit /\ OutboundInit
  /\ gate \in {"chat", "chats", "pool", "outbound"}
  /\ gate \notin {"chat", "chats"} => admins = {}

ChatsClock == 3

\* The bound on the clock is reached.
GateDone == clock = (IF gate = "chats" THEN ChatsClock ELSE MaxClock) /\ UNCHANGED gateVars

\* The sender writes in one chat, where requests reach the bot's bucket within the
\* tick, or in two, for a shorter time.
GateBound ==
  \/ /\ gate = "chat" /\ d2 \notin passed'
     /\ passed # {} => clock' = clock /\ (Consumes(Bot, Mult) => spent' # spent)
  \/ gate = "chats" /\ clock' <= ChatsClock

\* Behaviours with a second socket have one send less, a bound on the states.
OutboundBound == made' = MaxSends => sock' < MaxSockets

GatesNext ==
  /\ \/ (GateNext \/ GateDone) /\ GateBound /\ UNCHANGED <<poolVars, outVars>>
     \/ gate = "pool" /\ PoolNext /\ UNCHANGED <<gateVars, outVars>>
     \/ gate = "outbound" /\ OutboundNext /\ OutboundBound /\ UNCHANGED <<gateVars, poolVars>>
  /\ UNCHANGED gate

\* PoolFair, where the pool moves.
GatesFair ==
  /\ \A s \in PoolSlots : WF_poolVars(gate = "pool" /\ Exit(s))
  /\ \A j \in Jobs : WF_poolVars(gate = "pool" /\ \E s \in PoolSlots : TimesOut(s, j))

GatesSpec == GatesInit /\ [][GatesNext]_gatesVars /\ GatesFair

=============================================================================

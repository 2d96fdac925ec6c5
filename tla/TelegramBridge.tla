---------------------------- MODULE TelegramBridge ----------------------------
(***************************************************************************)
(* services/telegram/index.js, one channel: forward() puts a line into the *)
(* channel's buffer and arms a timer (batchMs), or, for an error, drops    *)
(* the timer and flushes at the next setImmediate.  A flush takes the      *)
(* buffer, cuts it into chunks (a line each, here) and sends one after the *)
(* other, waiting once for the back-off Telegram asks for.  Nothing keeps  *)
(* a second flush from starting meanwhile.                                 *)
(*                                                                         *)
(* The line numbered l was the l-th of the channel.                        *)
(***************************************************************************)
EXTENDS Naturals, Sequences, FiniteSets, SequencesExt

CONSTANTS
  MaxLines,      \* bound on the lines
  MaxTgTrouble   \* bound on failed sends, changes of the routing, crashes

ASSUME TelegramAssumption == MaxLines \in Nat /\ MaxTgTrouble \in Nat

Lines == 1 .. MaxLines

VARIABLES
  routed,      \* routing.resolve: whether the channel has a chat
  lineBuffer,
  armed,       \* whether _timers has a timer
  immediates,  \* the setImmediate calls that have not run
  flights,     \* the flushes under way: the lines that are left, and the mode of the first
  next,        \* history: the next line
  flushOf,     \* history: line -> the last line of its flush, 0 before
  arrived,     \* history: what is in the chat, in order
  dropped,     \* history: lines that were given up
  tgTrouble

wireVars == <<arrived, dropped>>
tgVars == <<routed, lineBuffer, armed, immediates, flights, next, flushOf, wireVars, tgTrouble>>

Flights == [left : Seq(Lines), mode : {"sending", "waiting", "again"}]

TelegramTypeOK ==
  /\ routed \in BOOLEAN
  /\ lineBuffer \in Seq(Lines)
  /\ armed \in BOOLEAN /\ immediates \in Nat
  /\ flights \subseteq Flights
  /\ next \in 1 .. MaxLines + 1
  /\ flushOf \in [Lines -> 0 .. MaxLines]
  /\ arrived \in Seq(Lines) /\ dropped \subseteq Lines
  /\ tgTrouble \in Nat

TelegramInit ==
  /\ routed = TRUE
  /\ lineBuffer = <<>> /\ armed = FALSE /\ immediates = 0 /\ flights = {}
  /\ next = 1 /\ flushOf = [l \in Lines |-> 0]
  /\ arrived = <<>> /\ dropped = {}
  /\ tgTrouble = 0

TgTrouble == tgTrouble < MaxTgTrouble /\ tgTrouble' = tgTrouble + 1

-----------------------------------------------------------------------------
(* forward() *)

Queued ==
  /\ routed /\ next \in Lines
  /\ lineBuffer' = Append(lineBuffer, next)
  /\ next' = next + 1
  /\ UNCHANGED <<routed, flights, flushOf, wireVars, tgTrouble>>

Forward == Queued /\ armed' = TRUE /\ UNCHANGED immediates

\* Mutant: the timer goes, and the flush is left to the next line.
ForwardErrorLater == Queued /\ armed' = FALSE /\ UNCHANGED immediates

ForwardError == Queued /\ armed' = FALSE /\ immediates' = immediates + 1

-----------------------------------------------------------------------------
(* _flushChannel() *)

\* Up to the first await: what is buffered is taken and the timer dropped, and all
\* of it is given up when the channel has lost its chat.
Flush ==
  IF lineBuffer = <<>> THEN UNCHANGED <<lineBuffer, armed, flights, flushOf, wireVars>> ELSE
  /\ lineBuffer' = <<>> /\ armed' = FALSE
  /\ flushOf' = [l \in Lines |-> IF l \in ToSet(lineBuffer) THEN Last(lineBuffer) ELSE flushOf[l]]
  /\ IF routed
       THEN flights' = flights \union {[left |-> lineBuffer, mode |-> "sending"]} /\ UNCHANGED dropped
       ELSE dropped' = dropped \union ToSet(lineBuffer) /\ UNCHANGED flights
  /\ UNCHANGED arrived

TimerFlush ==
  /\ armed
  /\ Flush
  /\ UNCHANGED <<routed, immediates, next, tgTrouble>>

ImmediateFlush ==
  /\ immediates > 0 /\ immediates' = immediates - 1
  /\ Flush
  /\ UNCHANGED <<routed, next, tgTrouble>>

-----------------------------------------------------------------------------
(* A flush that sends *)

Without(f) == flights \ {f}

\* The next line of a flush, or its end.
Onward(f) ==
  flights' = IF Len(f.left) = 1 THEN Without(f)
             ELSE Without(f) \union {[left |-> Tail(f.left), mode |-> "sending"]}

senderVars == <<routed, lineBuffer, armed, immediates, next, flushOf>>

Arrives(f) ==
  /\ f.mode \in {"sending", "again"}
  /\ arrived' = Append(arrived, Head(f.left))
  /\ Onward(f)
  /\ UNCHANGED <<senderVars, dropped, tgTrouble>>

\* 429 with retry_after, once a line
ToldToWait(f) ==
  /\ f.mode = "sending"
  /\ TgTrouble
  /\ flights' = Without(f) \union {[f EXCEPT !.mode = "waiting"]}
  /\ UNCHANGED <<senderVars, wireVars>>

\* Mutant: the back-off is never over.
WaitOn(f) ==
  /\ f.mode = "waiting"
  /\ UNCHANGED tgVars

WaitOver(f) ==
  /\ f.mode = "waiting"
  /\ flights' = Without(f) \union {[f EXCEPT !.mode = "again"]}
  /\ UNCHANGED <<senderVars, wireVars, tgTrouble>>

\* Any other failure, or a second one; a request that timed out may have arrived.
SendFails(f) ==
  /\ f.mode \in {"sending", "again"}
  /\ TgTrouble
  /\ \/ dropped' = dropped \union {Head(f.left)} /\ UNCHANGED arrived
     \/ arrived' = Append(arrived, Head(f.left)) /\ UNCHANGED dropped
  /\ Onward(f)
  /\ UNCHANGED senderVars

-----------------------------------------------------------------------------
\* The dashboard edits the routing.
RoutingChanges ==
  /\ TgTrouble
  /\ routed' = ~routed
  /\ UNCHANGED <<lineBuffer, armed, immediates, flights, next, flushOf, wireVars>>

\* The worker stops: nothing calls flushAll().
BridgeStops ==
  /\ TgTrouble
  /\ dropped' = dropped \union ToSet(lineBuffer) \union UNION {ToSet(f.left) : f \in flights}
  /\ lineBuffer' = <<>> /\ armed' = FALSE /\ immediates' = 0 /\ flights' = {}
  /\ UNCHANGED <<routed, next, flushOf, arrived>>

FlightStep == \E f \in flights : Arrives(f) \/ WaitOver(f)

TelegramNext ==
  \/ Forward \/ ForwardError \/ TimerFlush \/ ImmediateFlush
  \/ FlightStep \/ RoutingChanges \/ BridgeStops
  \/ \E f \in flights : ToldToWait(f) \/ SendFails(f)

\* Timers and immediates fire, and a send ends by its timeout of 10 s.
TelegramFair == WF_tgVars(TimerFlush) /\ WF_tgVars(ImmediateFlush) /\ WF_tgVars(FlightStep)

TelegramSpec == TelegramInit /\ [][TelegramNext]_tgVars /\ TelegramFair

-----------------------------------------------------------------------------
(* Properties *)

\* A line that waits in the buffer has a timer or an immediate to take it, in every
\* interleaving of lines, errors and flushes: no line is left for the next one.
NoLineStrands == lineBuffer # <<>> => armed \/ immediates > 0

\* A timer that is noted is a timer for something: a stale one would keep
\* _scheduleFlush from ever arming another.
TimerHasLines == armed => lineBuffer # <<>>

\* Nothing arrives twice, and nothing that was given up arrives: a line is in the
\* buffer, in one flush, in the chat or dropped.
Places(l) ==
  Cardinality({i \in DOMAIN lineBuffer : lineBuffer[i] = l})
  + Cardinality({f \in flights : l \in ToSet(f.left)})
  + Cardinality({i \in DOMAIN arrived : arrived[i] = l})
  + (IF l \in dropped THEN 1 ELSE 0)

LinesInOnePlace == \A l \in Lines : Places(l) = IF l < next THEN 1 ELSE 0

\* The lines of one flush arrive in order, however often it had to wait; only those
\* of different flushes may overtake each other.
FlushKeepsOrder ==
  \A i, j \in 1 .. Len(arrived) :
    i < j /\ flushOf[arrived[i]] = flushOf[arrived[j]] => arrived[i] < arrived[j]

\* The bridge loses, doubles and reorders nothing but what it gives up.
BridgeInv == TelegramTypeOK /\ NoLineStrands /\ TimerHasLines /\ LinesInOnePlace /\ FlushKeepsOrder

\* Every line arrives or is given up.
LinesEnd == \A l \in Lines : l < next ~> l \in ToSet(arrived) \union dropped

=============================================================================

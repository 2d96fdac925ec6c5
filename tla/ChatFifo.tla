------------------------------ MODULE ChatFifo ------------------------------
(***************************************************************************)
(* What the per-chat queue promises (UPGRADE.md: "concurrency 1 per chat,  *)
(* parallel across chats"): every chat is a server of its own that takes   *)
(* its messages in the order of arrival, at most Slots at a time.          *)
(***************************************************************************)
EXTENDS Sequences, FiniteSets, Naturals

CONSTANTS Messages, Chats, ChatOf, Slots

VARIABLES
  come,      \* the messages that have arrived
  line,      \* those of each chat that wait
  serving    \* those of each chat that are being handled

Init ==
  /\ come = {}
  /\ line = [c \in Chats |-> <<>>]
  /\ serving = [c \in Chats |-> {}]

Come(m) ==
  /\ m \notin come
  /\ come' = come \union {m}
  /\ line' = [line EXCEPT ![ChatOf[m]] = Append(@, m)]
  /\ UNCHANGED serving

Serve(c) ==
  /\ line[c] # <<>>
  /\ Cardinality(serving[c]) < Slots
  /\ serving' = [serving EXCEPT ![c] = @ \union {Head(line[c])}]
  /\ line' = [line EXCEPT ![c] = Tail(@)]
  /\ UNCHANGED come

Leave(c) ==
  /\ \E m \in serving[c] : serving' = [serving EXCEPT ![c] = @ \ {m}]
  /\ UNCHANGED <<come, line>>

Next ==
  \/ \E m \in Messages : Come(m)
  \/ \E c \in Chats : Serve(c) \/ Leave(c)

Spec == Init /\ [][Next]_<<come, line, serving>>

=============================================================================

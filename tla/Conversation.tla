---------------------------- MODULE Conversation ----------------------------
(***************************************************************************)
(* What the AI remembers of one chat.  ai.chat() reads the latest turns of *)
(* the store, keeps the prompt, and then keeps each turn of its rounds as  *)
(* it comes; .ai clear deletes them.  Requests of a chat may be handled    *)
(* side by side (processing.concurrencyPerChat), and a command that has    *)
(* timed out goes on beside them.                                          *)
(*                                                                         *)
(* A request begins here once it is admitted: AiBudget has money and       *)
(* quotas.  Of a text only its weight is kept, against ai.maxInputBytes.   *)
(***************************************************************************)
EXTENDS Naturals, Sequences, FiniteSets

CONSTANTS
  Talkers,        \* handlers at a time
  MemoryTurns,    \* ai.memoryTurns
  MaxRounds,      \* MAX_TOOL_ROUNDS
  MaxCalls,       \* ai.maxToolCallsPerRound
  MaxHeavy,       \* how many heavy turns ai.maxInputBytes has room for
  Abreast,        \* processing.concurrencyPerChat, a set of choices
  MaxTalks, MaxClears, MaxCalled, MaxTalkTrouble   \* bounds: requests, .ai clear,
                                                    \* rounds with calls, failures; fewer abreast

\* With memoryTurns 0 nothing is kept or read.  A prompt that is too long alone is
\* refused before anything is.
ASSUME MemoryAssumption ==
  /\ IsFiniteSet(Talkers) /\ Abreast \subseteq Nat \ {0}
  /\ MemoryTurns \in Nat \ {0} /\ MaxHeavy \in Nat \ {0}
  /\ MaxRounds \in Nat \ {0} /\ MaxCalls \in Nat \ {0}

VARIABLES
  abreast,
  turns,        \* ai_conversations: [by, n, role, heavy, made]
  made,         \* the time of the latest turn, where requests run abreast
  stage, exchange,  \* a handler: where it is, and what it holds
  vain,         \* history: requests in a row that their memory alone ruined
  talks, clears, called, talkTrouble

talkVars == <<abreast, turns, made, stage, exchange, vain, talks, clears, called, talkTrouble>>

\* window: what was read; own: what the request added to it; kept: whether its
\* prompt is in the store, as far as the store failed.
Nobody == [by |-> 0, window |-> <<>>, own |-> <<>>, round |-> 0, calls |-> 0, kept |-> TRUE]

TalkInit ==
  /\ abreast \in Abreast
  /\ turns = <<>> /\ made = 0
  /\ stage = [h \in Talkers |-> "free"] /\ exchange = [h \in Talkers |-> Nobody]
  /\ vain = 0 /\ talks = 0 /\ clears = 0 /\ called = 0 /\ talkTrouble = 0

TalkFault == talkTrouble < MaxTalkTrouble /\ talkTrouble' = talkTrouble + 1

Becomes(h, where, t) ==
  stage' = [stage EXCEPT ![h] = where] /\ exchange' = [exchange EXCEPT ![h] = IF where = "free" THEN Nobody ELSE t]

-----------------------------------------------------------------------------
(* The store *)

\* getRecentAiTurns: the last n, oldest first.
Newest(s, n) == SubSeq(s, IF Len(s) > n THEN Len(s) - n + 1 ELSE 1, Len(s))

\* No store has a column for the calls of an assistant's turn.
AsStored(turn) == IF turn.role = "calls" THEN [turn EXCEPT !.role = "assistant"] ELSE turn

\* appendAiTurn: at the end; mongo reads by time, so that there a turn may come
\* before those that were made later.  Those of one millisecond come in the order of
\* their insertion, as the index by time has them.
Inserted(turn, after) == SubSeq(turns, 1, after) \o <<AsStored(turn)>> \o SubSeq(turns, after + 1, Len(turns))

\* Mutant: the rows, which are read newest first, are not turned round.
NewestFirst(turn) == {0}

Places(turn) == {p \in 0 .. Len(turns) : \A i \in p + 1 .. Len(turns) : turns[i].made > turn.made}

\* A turn that a later request may fail on.
Harmful(turn) == turn.role = "tool" \/ turn.heavy

AppendTurn(turn) ==
  /\ \E p \in Places(turn) : turns' = Inserted(turn, p)
  /\ vain' = IF Harmful(turn) THEN 0 ELSE vain

\* A turn is appended, or is not: append() then returns false, and the request goes on.
Keeps(turn) ==
  \/ AppendTurn(turn) /\ UNCHANGED talkTrouble
  \/ TalkFault /\ UNCHANGED <<turns, vain>>

-----------------------------------------------------------------------------
(* A request *)

\* Date.now() of a turn, which is that of the turn before or later; one handler makes
\* and appends them in the same order.
Dated == made' \in IF abreast > 1 THEN {made, made + 1} ELSE {made}

Turn(h, role, heavy) == [by |-> exchange[h].by, n |-> Len(exchange[h].own) + 1, role |-> role, heavy |-> heavy, made |-> made']

\* A request is admitted.  Which handler has it makes no difference.
Ask(h) ==
  /\ stage[h] = "free" /\ h = CHOOSE g \in Talkers : stage[g] = "free"
  /\ Cardinality({g \in Talkers : stage[g] # "free"}) < abreast
  /\ talks < MaxTalks \div abreast /\ talks' = talks + 1
  /\ Becomes(h, "recall", [Nobody EXCEPT !.by = talks + 1])
  /\ UNCHANGED <<abreast, turns, made, vain, clears, called, talkTrouble>>

\* The memory is read, or taken for empty, and the prompt is added to it.
Recall(h) ==
  /\ stage[h] = "recall"
  /\ Dated
  /\ \E heavy \in BOOLEAN :
       LET prompted(window) == [exchange[h] EXCEPT !.window = window, !.own = <<Turn(h, "user", heavy)>>] IN
       \/ Becomes(h, "prompt", prompted(Newest(turns, MemoryTurns - 1))) /\ UNCHANGED talkTrouble
       \/ TalkFault /\ Becomes(h, "prompt", prompted(<<>>))
  /\ UNCHANGED <<abreast, turns, vain, talks, clears, called>>

KeepPrompt(h) ==
  /\ Keeps(exchange[h].own[1])
  /\ Becomes(h, "send", [exchange[h] EXCEPT !.kept = talkTrouble' = talkTrouble])

Prompt(h) ==
  /\ stage[h] = "prompt"
  /\ KeepPrompt(h)
  /\ UNCHANGED <<abreast, made, talks, clears, called>>

\* What a provider is sent.
Payload(h) == exchange[h].window \o exchange[h].own

TooLong(payload) == Cardinality({i \in DOMAIN payload : payload[i].heavy}) > MaxHeavy

\* A result whose call is not before it: toOpenAIMessages sends it all the same.
Orphaned(payload) ==
  \E i \in DOMAIN payload :
    payload[i].role = "tool" /\ ~\E j \in 1 .. i - 1 : payload[j].role = "calls" /\ payload[j].by = payload[i].by

\* What the memory has spoiled before the request did anything.
Spoiled(h) == Len(exchange[h].own) = 1 /\ (TooLong(Payload(h)) \/ Orphaned(Payload(h)))

Send(h) ==
  /\ stage[h] = "send"
  /\ Becomes(h, IF TooLong(Payload(h)) THEN "free" ELSE "asked", [exchange[h] EXCEPT !.round = @ + 1])
  /\ vain' = IF Spoiled(h) /\ exchange[h].kept THEN vain + 1 ELSE vain
  /\ UNCHANGED <<abreast, turns, made, talks, clears, called, talkTrouble>>

\* The provider refuses or fails, or the ledger does, and chat() rejects.
RoundFails(h) ==
  /\ stage[h] = "asked"
  /\ Becomes(h, "free", Nobody)
  /\ UNCHANGED <<abreast, turns, made, vain, talks, clears, called, talkTrouble>>

\* The turn that h makes, and where it goes from there.
Makes(h, turn, t, where) ==
  /\ Dated
  /\ Becomes(h, where, [t EXCEPT !.own = Append(@, turn)])
  /\ UNCHANGED <<abreast, turns, vain, talks, clears, talkTrouble>>

\* A final answer, an empty one, or calls of tools, of which the first are taken.
Answers(h) ==
  /\ stage[h] = "asked"
  /\ \/ Makes(h, Turn(h, "assistant", FALSE), exchange[h], "final") /\ UNCHANGED called
     \/ /\ Becomes(h, "free", Nobody)
        /\ UNCHANGED <<abreast, turns, made, vain, talks, clears, called, talkTrouble>>
     \/ called < MaxCalled \div abreast /\ called' = called + 1
        /\ \E n \in 1 .. MaxCalls : Makes(h, Turn(h, "calls", FALSE), [exchange[h] EXCEPT !.calls = n], "calls")

\* The latest turn is kept.
KeepLast(h, where) ==
  /\ Keeps(exchange[h].own[Len(exchange[h].own)])
  /\ Becomes(h, where, exchange[h])
  /\ UNCHANGED <<abreast, made, talks, clears, called>>

KeepCalls(h) == stage[h] = "calls" /\ KeepLast(h, "tool")

\* toolRegistry.invoke, which never throws.  Its results are cut to a size of their own.
Invoke(h) ==
  /\ stage[h] = "tool" /\ UNCHANGED called
  /\ Makes(h, Turn(h, "tool", FALSE), [exchange[h] EXCEPT !.calls = @ - 1], "result")

KeepResult(h) ==
  /\ stage[h] = "result"
  /\ KeepLast(h, IF exchange[h].calls > 0 THEN "tool" ELSE IF exchange[h].round = MaxRounds THEN "last" ELSE "send")

\* After the last round the text beside the calls, or a notice, is the answer.
LastWords(h) == stage[h] = "last" /\ Makes(h, Turn(h, "assistant", FALSE), exchange[h], "final") /\ UNCHANGED called

KeepAnswer(h) == stage[h] = "final" /\ KeepLast(h, "free")

-----------------------------------------------------------------------------
\* .ai clear: clearAiTurns, whatever else goes on.
Clear ==
  /\ clears < MaxClears /\ clears' = clears + 1
  /\ turns' = <<>>
  /\ UNCHANGED <<abreast, made, stage, exchange, vain, talks, called, talkTrouble>>

TalkCrash ==
  /\ TalkFault
  /\ \E h \in Talkers : stage[h] # "free"
  /\ stage' = [h \in Talkers |-> "free"] /\ exchange' = [h \in Talkers |-> Nobody]
  /\ UNCHANGED <<abreast, turns, made, vain, talks, clears, called>>

-----------------------------------------------------------------------------
TalkNext ==
  \/ Clear \/ TalkCrash
  \/ \E h \in Talkers :
       \/ Ask(h) \/ Recall(h) \/ Prompt(h) \/ Send(h) \/ RoundFails(h) \/ Answers(h)
       \/ KeepCalls(h) \/ Invoke(h) \/ KeepResult(h) \/ LastWords(h) \/ KeepAnswer(h)

TalkSpec == TalkInit /\ [][TalkNext]_talkVars

-----------------------------------------------------------------------------
(* Properties *)

\* The turns of a request are remembered in the order it made them, and none of
\* them was in the memory that it read.
InOrder ==
  /\ \A i, j \in DOMAIN turns : i < j /\ turns[i].by = turns[j].by => turns[i].n < turns[j].n
  /\ \A h \in Talkers : \A i \in DOMAIN exchange[h].window : exchange[h].window[i].by # exchange[h].by

\* A memory that ruins requests, one after the other, does so for no more of them
\* than it holds turns: each leaves its prompt behind.
VainEnds == abreast = 1 => vain <= MemoryTurns - 1

\* However the requests of a chat, .ai clear and failures overlap: the memory keeps
\* the order of each request, and a memory that a provider refuses, or that is too
\* long, heals by itself: each request it ruins pushes a turn out of the window.
ConversationInv == InOrder /\ VainEnds

\* The results of tools are sent with their calls (index.js: 'feed result back to
\* the model').
ResultsHaveCalls == \A h \in Talkers : stage[h] = "asked" => ~Orphaned(Payload(h))

=============================================================================

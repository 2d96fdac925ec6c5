---------------------------- MODULE Keeps_proofs ----------------------------
(***************************************************************************)
(* Proofs about what the bot keeps of a chat: what the AI remembers of it, *)
(* and who is muted in it. The memory heals because of where the trail of  *)
(* the requests that it ruined is: at its end, where the next read it.     *)
(* The rows, the list and the log of the mutes say what the last command   *)
(* said, or that command has calls left that will make them say it.        *)
(***************************************************************************)
EXTENDS Conversation, MuteRows, Integers, FiniteSetTheorems, SequenceTheorems, TLAPS

-----------------------------------------------------------------------------
(* What the AI remembers: the invariant *)

Turns == [by : Nat, n : Nat, role : {"user", "assistant", "calls", "tool"}, heavy : BOOLEAN, made : Nat]
TalkStages == {"free", "recall", "prompt", "send", "asked", "calls", "tool", "result", "last", "final"}
Exchanges == [by : Nat, window : Seq(Turns), own : Seq(Turns), round : Nat, calls : Int, kept : BOOLEAN]

TalkTypeOK ==
  /\ abreast \in Nat \ {0}
  /\ turns \in Seq(Turns) /\ made \in Nat
  /\ stage \in [Talkers -> TalkStages] /\ exchange \in [Talkers -> Exchanges]
  /\ vain \in Nat /\ talks \in Nat /\ talkTrouble \in Nat

Unkept == {"prompt", "calls", "result", "final"}

\* The turns are of requests that were admitted, and one handler needs no dates.
TurnsDated ==
  /\ abreast = 1 => made = 0
  /\ \A i \in DOMAIN turns : turns[i].by <= talks /\ turns[i].made <= made

\* A running handler has a request of its own.
Apart(h) ==
  /\ stage[h] = "free" => exchange[h] = Nobody
  /\ stage[h] # "free" => exchange[h].by \in 1 .. talks
  /\ \A g \in Talkers : g # h /\ stage[g] # "free" /\ stage[h] # "free" =>
       exchange[g].by # exchange[h].by /\ abreast # 1

\* What a handler has made, in the order it made it.
OwnTurns(h) ==
  /\ stage[h] = "recall" => exchange[h].own = <<>>
  /\ stage[h] \notin {"free", "recall"} => exchange[h].own # <<>> /\ exchange[h].own[1].role = "user"
  /\ stage[h] = "prompt" => Len(exchange[h].own) = 1
  /\ stage[h] \in {"calls", "tool", "result", "last", "final"} => Len(exchange[h].own) > 1
  /\ \A k \in DOMAIN exchange[h].own :
       /\ exchange[h].own[k].by = exchange[h].by /\ exchange[h].own[k].n = k
       /\ exchange[h].own[k].made <= made

\* What of it the memory has.
Remembered(h) ==
  \A i \in DOMAIN turns : turns[i].by = exchange[h].by /\ stage[h] # "free" =>
    /\ exchange[h].own # <<>>
    /\ turns[i].n < Len(exchange[h].own) + (IF stage[h] \in Unkept THEN 0 ELSE 1)
    /\ turns[i].made <= exchange[h].own[Len(exchange[h].own)].made

\* The order of the memory, and a window of other requests.
Ordered == \A i, j \in DOMAIN turns : i < j /\ turns[i].by = turns[j].by => turns[i].n < turns[j].n
Foreign(h) == \A i \in DOMAIN exchange[h].window : exchange[h].window[i].by # exchange[h].by

\* The last v turns have no result, and no heavy one but for the first of them.
Trail(s, v) ==
  \A i \in DOMAIN s : i > Len(s) - v =>
    s[i].role # "tool" /\ (s[i].heavy => i = Len(s) - v + 1)

Mild(window) == \A i \in DOMAIN window : window[i].role # "tool" /\ (window[i].heavy => i = 1)

\* After MemoryTurns - 1 requests in vain the window cannot harm.
Healing(h) ==
  /\ stage[h] = "prompt" =>
       /\ Len(exchange[h].window) <= MemoryTurns - 1
       /\ vain >= MemoryTurns - 1 => Mild(exchange[h].window)
  /\ stage[h] = "send" /\ Len(exchange[h].own) = 1 /\ exchange[h].kept =>
       /\ Trail(turns, vain + 1)
       /\ vain >= MemoryTurns - 1 =>
            Mild(exchange[h].window) /\ (exchange[h].own[1].heavy => exchange[h].window = <<>>)

VainInv == abreast = 1 => vain <= MemoryTurns - 1 /\ Trail(turns, vain) /\ \A h \in Talkers : Healing(h)

TalkInv ==
  /\ TalkTypeOK /\ TurnsDated /\ Ordered /\ VainInv
  /\ \A h \in Talkers : Apart(h) /\ OwnTurns(h) /\ Remembered(h) /\ Foreign(h)

-----------------------------------------------------------------------------
(* Turns and sequences of them *)

\* A turn of a sequence of turns.
LEMMA ATurn ==
  ASSUME NEW s \in Seq(Turns), NEW i \in DOMAIN s
  PROVE  /\ s[i] \in Turns /\ s[i].by \in Nat /\ s[i].n \in Nat /\ s[i].made \in Nat
         /\ s[i].heavy \in BOOLEAN /\ i \in 1 .. Len(s) /\ Len(s) \in Nat
<1>1. s[i] \in Turns /\ i \in 1 .. Len(s) /\ Len(s) \in Nat
  OBVIOUS
<1> QED
  BY <1>1 DEF Turns

\* One turn more, at a place.
LEMMA InsertedTurn ==
  ASSUME turns \in Seq(Turns), NEW turn \in Turns, NEW p \in 0 .. Len(turns), turns' = Inserted(turn, p)
  PROVE  /\ AsStored(turn) \in Turns
         /\ turns' \in Seq(Turns) /\ Len(turns') = Len(turns) + 1
         /\ \A i \in DOMAIN turns' :
              turns'[i] = IF i <= p THEN turns[i] ELSE IF i = p + 1 THEN AsStored(turn) ELSE turns[i - 1]
<1> DEFINE t == AsStored(turn)
<1>1. t \in Turns
  BY DEF AsStored, Turns
<1> HIDE DEF t
<1> DEFINE a == SubSeq(turns, 1, p)
           b == SubSeq(turns, p + 1, Len(turns))
<1>2. Len(turns) \in Nat /\ p \in Nat /\ p <= Len(turns)
  OBVIOUS
<1>3. a \in Seq(Turns) /\ Len(a) = p /\ \A i \in 1 .. p : a[i] = turns[i]
  BY <1>2, SubSeqProperties
<1>4. /\ b \in Seq(Turns) /\ Len(b) = Len(turns) - p
      /\ \A i \in 1 .. Len(turns) - p : b[i] = turns[p + i]
  BY <1>2, SubSeqProperties
<1> HIDE DEF a, b
<1>5. <<t>> \in Seq(Turns) /\ Len(<<t>>) = 1 /\ <<t>>[1] = t
  BY <1>1
<1>6. a \o <<t>> \in Seq(Turns) /\ Len(a \o <<t>>) = p + 1
      /\ \A i \in 1 .. p + 1 : (a \o <<t>>)[i] = IF i <= p THEN turns[i] ELSE t
  BY <1>2, <1>3, <1>5, ConcatProperties
<1>7. turns' = (a \o <<t>>) \o b
  BY DEF Inserted, a, b, t
<1>8. turns' \in Seq(Turns) /\ Len(turns') = Len(turns) + 1
      /\ \A i \in 1 .. Len(turns) + 1 : turns'[i] = IF i <= p + 1 THEN (a \o <<t>>)[i] ELSE b[i - (p + 1)]
  <2>1. PICK c : c = a \o <<t>>
    OBVIOUS
  <2>2. c \in Seq(Turns) /\ b \in Seq(Turns) /\ Len(c) = p + 1 /\ Len(b) = Len(turns) - p
    BY <1>4, <1>6, <2>1
  <2>3. /\ c \o b \in Seq(Turns) /\ Len(c \o b) = Len(c) + Len(b)
        /\ \A i \in 1 .. Len(c) + Len(b) : (c \o b)[i] = IF i <= Len(c) THEN c[i] ELSE b[i - Len(c)]
    BY <2>2, ConcatProperties
  <2>4. Len(c) + Len(b) = Len(turns) + 1
    BY <1>2, <2>2
  <2> QED
    BY <1>7, <2>1, <2>2, <2>3, <2>4
<1>9. \A i \in 1 .. Len(turns) + 1 : i > p + 1 => b[i - (p + 1)] = turns[i - 1]
  BY <1>2, <1>4
<1>10. ASSUME NEW i \in 1 .. Len(turns) + 1
       PROVE  turns'[i] = IF i <= p THEN turns[i] ELSE IF i = p + 1 THEN t ELSE turns[i - 1]
  <2>1. turns'[i] = IF i <= p + 1 THEN (a \o <<t>>)[i] ELSE b[i - (p + 1)]
    BY <1>8
  <2>2. CASE i <= p + 1
    <3>1. i \in 1 .. p + 1
      BY <1>2, <2>2
    <3>2. turns'[i] = (a \o <<t>>)[i]
      BY <2>1, <2>2
    <3>3. ~(i <= p) => i = p + 1
      BY <1>2, <3>1
    <3> QED
      BY <1>6, <3>1, <3>2, <3>3
  <2>3. CASE i > p + 1
    <3>1. ~(i <= p + 1) /\ ~(i <= p) /\ i # p + 1
      BY <1>2, <2>3
    <3> QED
      BY <1>9, <2>1, <2>3, <3>1
  <2> QED
    BY <1>2, <2>2, <2>3
<1>11. DOMAIN turns' = 1 .. Len(turns) + 1
  BY <1>8
<1> QED
  BY <1>1, <1>8, <1>10, <1>11 DEF t

\* The latest turns.
LEMMA NewestTurns ==
  ASSUME NEW s \in Seq(Turns), NEW n \in Nat
  PROVE  /\ Newest(s, n) \in Seq(Turns)
         /\ Len(Newest(s, n)) <= n
         /\ \A i \in DOMAIN Newest(s, n) :
              /\ Newest(s, n)[i] = s[i + Len(s) - Len(Newest(s, n))]
              /\ i + Len(s) - Len(Newest(s, n)) \in DOMAIN s
              /\ Len(s) >= n => Len(Newest(s, n)) = n
              /\ Len(s) < n => Len(Newest(s, n)) = Len(s)
<1> DEFINE k == IF Len(s) > n THEN Len(s) - n + 1 ELSE 1
<1>1. Len(s) \in Nat /\ k \in 1 .. Len(s) + 1 /\ Len(s) - k + 1 = IF Len(s) > n THEN n ELSE Len(s)
  OBVIOUS
<1>2. Newest(s, n) = SubSeq(s, k, Len(s))
  BY DEF Newest
<1> HIDE DEF k
<1> DEFINE r == SubSeq(s, k, Len(s))
<1>3. Len(s) \in k - 1 .. Len(s)
  BY <1>1
<1>4. r \in Seq(Turns) /\ Len(r) = Len(s) - k + 1 /\ \A i \in 1 .. Len(s) - k + 1 : r[i] = s[k + i - 1]
  BY <1>1, <1>3, SubSeqProperties
<1> HIDE DEF r
<1>5. DOMAIN r = 1 .. Len(r) /\ Len(r) \in Nat
  BY <1>4
<1>6. ASSUME NEW i \in DOMAIN r
      PROVE  i + Len(s) - Len(r) = k + i - 1 /\ k + i - 1 \in DOMAIN s
  <2>1. DOMAIN s = 1 .. Len(s) /\ Len(s) \in Nat /\ k \in 1 .. Len(s) + 1
    BY <1>1
  <2>2. i \in 1 .. Len(s) - k + 1 /\ Len(r) = Len(s) - k + 1
    BY <1>4, <1>5
  <2>3. k + i - 1 \in 1 .. Len(s)
    BY <2>1, <2>2
  <2>4. i + Len(s) - Len(r) = k + i - 1
    BY <2>1, <2>2
  <2> QED
    BY <2>1, <2>3, <2>4
<1> QED
  BY <1>1, <1>2, <1>4, <1>5, <1>6 DEF r

\* What a handler may hold.
LEMMA NobodyType == Nobody \in Exchanges /\ Nobody.own = <<>> /\ Nobody.window = <<>>
<1>1. <<>> \in Seq(Turns)
  OBVIOUS
<1> QED
  BY <1>1 DEF Nobody, Exchanges

LEMMA BecomesType ==
  ASSUME TalkTypeOK, NEW h \in Talkers, NEW where \in TalkStages, NEW t \in Exchanges, Becomes(h, where, t)
  PROVE  stage' \in [Talkers -> TalkStages] /\ exchange' \in [Talkers -> Exchanges]
BY NobodyType DEF TalkTypeOK, Becomes

LEMMA TurnType ==
  ASSUME TalkTypeOK, made' \in Nat, NEW h \in Talkers, NEW role \in {"user", "assistant", "calls", "tool"},
         NEW heavy \in BOOLEAN
  PROVE  Turn(h, role, heavy) \in Turns
BY DEF TalkTypeOK, Turn, Turns, Exchanges

LEMMA TurnsOf ==
  ASSUME TalkTypeOK, NEW h \in Talkers
  PROVE  /\ exchange[h] \in Exchanges /\ stage[h] \in TalkStages
         /\ exchange[h].window \in Seq(Turns) /\ exchange[h].own \in Seq(Turns)
         /\ exchange[h].own # <<>> =>
              exchange[h].own[Len(exchange[h].own)] \in Turns /\ exchange[h].own[1] \in Turns
         /\ exchange[h].by \in Nat /\ exchange[h].round \in Nat /\ exchange[h].calls \in Int
         /\ exchange[h].kept \in BOOLEAN
BY DEF TalkTypeOK, Exchanges

LEMMA KeepsType ==
  ASSUME TalkTypeOK, NEW turn \in Turns, Keeps(turn)
  PROVE  turns' \in Seq(Turns) /\ vain' \in Nat /\ talkTrouble' \in Nat
<1>1. CASE AppendTurn(turn) /\ UNCHANGED talkTrouble
  BY <1>1, InsertedTurn DEF AppendTurn, Places, TalkTypeOK
<1>2. CASE TalkFault /\ UNCHANGED <<turns, vain>>
  BY <1>2 DEF TalkFault, TalkTypeOK
<1> QED
  BY <1>1, <1>2 DEF Keeps

\* Only h goes on.
LEMMA OneGoesOn ==
  ASSUME TalkTypeOK, NEW h \in Talkers, NEW where \in TalkStages, NEW t \in Exchanges, Becomes(h, where, t)
  PROVE  /\ stage'[h] = where
         /\ exchange'[h] = IF where = "free" THEN Nobody ELSE t
         /\ \A g \in Talkers : g # h => stage'[g] = stage[g] /\ exchange'[g] = exchange[g]
BY DEF TalkTypeOK, Becomes

\* What a step of h has to keep: the rest is of handlers that it leaves alone.
LEMMA OneKeeps ==
  ASSUME TalkInv, TalkTypeOK', NEW h \in Talkers,
         \A g \in Talkers : g # h => stage'[g] = stage[g] /\ exchange'[g] = exchange[g],
         talks' >= talks, made' >= made, abreast' = abreast,
         stage[h] # "free" \/ stage'[h] # "free",
         stage'[h] = "free" => exchange'[h] = Nobody,
         stage'[h] # "free" => exchange'[h].by \in 1 .. talks',
         \A g \in Talkers : g # h /\ stage[g] # "free" /\ stage'[h] # "free" =>
           exchange[g].by # exchange'[h].by /\ abreast # 1,
         turns' = turns \/ (/\ stage[h] # "free"
                           /\ \A i \in DOMAIN turns' :
                                turns'[i].by = exchange[h].by \/ \E j \in DOMAIN turns : turns'[i] = turns[j]),
         TurnsDated', Ordered', OwnTurns(h)', Remembered(h)', Foreign(h)',
         abreast = 1 => vain' <= MemoryTurns - 1 /\ Trail(turns, vain)' /\ Healing(h)'
  PROVE  TalkInv'
<1>0. \A g \in Talkers : Apart(g) /\ OwnTurns(g) /\ Foreign(g) /\ Remembered(g)
  BY DEF TalkInv
<1>1. TalkTypeOK /\ talks \in Nat /\ talks' \in Nat /\ made \in Nat /\ made' \in Nat
  BY DEF TalkInv, TalkTypeOK
<1>2. Apart(h)'
  BY DEF Apart
<1>3. ASSUME NEW g \in Talkers, g # h
      PROVE  Apart(g)' /\ OwnTurns(g)' /\ Foreign(g)' /\ Remembered(g)'
  <2>1. stage'[g] = stage[g] /\ exchange'[g] = exchange[g]
    BY <1>3
  <2>2. Apart(g)'
    <3>1. stage[g] # "free" => exchange[g].by \in 1 .. talks'
      BY <1>0, <1>1 DEF Apart
    <3>2. ASSUME NEW f \in Talkers, f # g, stage'[f] # "free", stage[g] # "free"
          PROVE  exchange'[f].by # exchange[g].by /\ abreast # 1
      <4>1. CASE f = h
        BY <1>3, <3>2, <4>1
      <4>2. CASE f # h
        BY <1>0, <3>2, <4>2 DEF Apart
      <4> QED
        BY <4>1, <4>2
    <3> QED
      BY <1>0, <2>1, <3>1, <3>2 DEF Apart
  <2>3. OwnTurns(g)'
    <3>1. \A k \in DOMAIN exchange[g].own : exchange[g].own[k].made \in Nat
      BY <1>1, TurnsOf, ATurn
    <3>2. \A k \in DOMAIN exchange[g].own : exchange[g].own[k].made <= made'
      BY <1>0, <1>1, <3>1 DEF OwnTurns
    <3> QED
      BY <1>0, <2>1, <3>2 DEF OwnTurns
  <2>4. Foreign(g)'
    BY <1>0, <2>1 DEF Foreign
  <2>5. Remembered(g)'
    <3>1. CASE turns' = turns
      BY <1>0, <2>1, <3>1 DEF Remembered
    <3>2. CASE /\ stage[h] # "free"
               /\ \A i \in DOMAIN turns' :
                    turns'[i].by = exchange[h].by \/ \E j \in DOMAIN turns : turns'[i] = turns[j]
      <4>1. ASSUME NEW i \in DOMAIN turns', turns'[i].by = exchange[g].by, stage[g] # "free"
            PROVE  /\ exchange[g].own # <<>>
                   /\ turns'[i].n < Len(exchange[g].own) + (IF stage[g] \in Unkept THEN 0 ELSE 1)
                   /\ turns'[i].made <= exchange[g].own[Len(exchange[g].own)].made
        <5>1. turns'[i].by # exchange[h].by
          BY <1>0, <1>3, <3>2, <4>1 DEF Apart
        <5>2. PICK j \in DOMAIN turns : turns'[i] = turns[j]
          BY <3>2, <5>1
        <5> QED
          BY <1>0, <4>1, <5>2 DEF Remembered
      <4> QED
        BY <2>1, <4>1 DEF Remembered
    <3> QED
      BY <3>1, <3>2
  <2> QED
    BY <2>2, <2>3, <2>4, <2>5
<1>4. ASSUME abreast = 1, NEW g \in Talkers
      PROVE  Healing(g)'
  <2>1. CASE g = h
    BY <1>4, <2>1
  <2>2. CASE g # h
    <3>1. stage[g] = "free"
      BY <1>0, <1>4, <2>2 DEF Apart
    <3> QED
      BY <2>2, <3>1 DEF Healing
  <2> QED
    BY <2>1, <2>2
<1>5. VainInv'
  BY <1>4 DEF VainInv
<1> QED
  BY <1>2, <1>3, <1>5 DEF TalkInv

\* The same where h has a request and keeps it, or ends.
LEMMA RequestKeeps ==
  ASSUME TalkInv, TalkTypeOK', NEW h \in Talkers, NEW where \in TalkStages, NEW t \in Exchanges, Becomes(h, where, t),
         stage[h] # "free", where # "free" => t.by = exchange[h].by,
         talks' = talks, made' >= made, abreast' = abreast,
         \A i \in DOMAIN turns' : turns'[i].by = exchange[h].by \/ \E j \in DOMAIN turns : turns'[i] = turns[j],
         TurnsDated', Ordered', OwnTurns(h)', Remembered(h)', Foreign(h)',
         abreast = 1 => vain' <= MemoryTurns - 1 /\ Trail(turns, vain)' /\ Healing(h)'
  PROVE  TalkInv'
<1>1. TalkTypeOK /\ Apart(h) /\ talks \in Nat
  BY DEF TalkInv, TalkTypeOK
<1>2. /\ stage'[h] = where /\ exchange'[h] = IF where = "free" THEN Nobody ELSE t
      /\ \A g \in Talkers : g # h => stage'[g] = stage[g] /\ exchange'[g] = exchange[g]
  BY <1>1, OneGoesOn
<1>3. /\ stage'[h] = "free" => exchange'[h] = Nobody
      /\ stage'[h] # "free" => exchange'[h].by \in 1 .. talks'
      /\ \A g \in Talkers : g # h /\ stage[g] # "free" /\ stage'[h] # "free" =>
           exchange[g].by # exchange'[h].by /\ abreast # 1
  BY <1>1, <1>2 DEF Apart
<1> QED
  BY <1>1, <1>2, <1>3, OneKeeps

\* A step that changes nothing of the memory.
LEMMA MemoryStays ==
  ASSUME TalkInv, TalkTypeOK', turns' = turns, talks' >= talks, made' >= made, abreast' = abreast,
         abreast = 1 => made' = made
  PROVE  TurnsDated' /\ Ordered'
<1>1. \A i \in DOMAIN turns : turns[i].by \in Nat /\ turns[i].made \in Nat
  BY ATurn DEF TalkInv, TalkTypeOK
<1>2. talks \in Nat /\ talks' \in Nat /\ made \in Nat /\ made' \in Nat
  BY DEF TalkInv, TalkTypeOK
<1>3. TurnsDated'
  BY <1>1, <1>2 DEF TalkInv, TurnsDated
<1> QED
  BY <1>3 DEF TalkInv, Ordered

LEMMA DatedType ==
  ASSUME TalkTypeOK, Dated
  PROVE  made' \in Nat /\ made' >= made /\ (abreast = 1 => made' = made)
BY DEF TalkTypeOK, Dated

\* A request begins, alone if no two may go on abreast.
LEMMA AskKeeps ==
  ASSUME TalkInv, NEW h \in Talkers, Ask(h)
  PROVE  TalkInv'
<1> DEFINE t == [Nobody EXCEPT !.by = talks + 1]
           busy == {g \in Talkers : stage[g] # "free"}
<1>1. TalkTypeOK /\ talks \in Nat /\ abreast \in Nat \ {0}
  BY DEF TalkInv, TalkTypeOK
<1>2. t \in Exchanges /\ t.by = talks + 1 /\ t.own = <<>> /\ t.window = <<>>
  BY <1>1, NobodyType DEF Exchanges
<1>3. /\ stage[h] = "free" /\ talks' = talks + 1 /\ Becomes(h, "recall", t)
      /\ UNCHANGED <<abreast, turns, made, vain, clears, called, talkTrouble>>
      /\ Cardinality(busy) < abreast
  BY DEF Ask
<1> HIDE DEF t
<1>4. TalkTypeOK'
  BY <1>1, <1>2, <1>3, BecomesType DEF TalkTypeOK, TalkStages
<1>5. /\ stage'[h] = "recall" /\ exchange'[h] = t
      /\ \A g \in Talkers : g # h => stage'[g] = stage[g] /\ exchange'[g] = exchange[g]
  BY <1>1, <1>2, <1>3, OneGoesOn DEF TalkStages
<1>6. abreast = 1 => busy = {}
  <2>1. IsFiniteSet(busy)
    BY FS_Subset, MemoryAssumption
  <2>2. Cardinality(busy) \in Nat
    BY <2>1, FS_CardinalityType
  <2> QED
    BY <1>3, <2>1, <2>2, FS_EmptySet
<1>7. ASSUME NEW g \in Talkers, g # h, stage[g] # "free"
      PROVE  exchange[g].by # t.by /\ abreast # 1
  <2>1. exchange[g].by \in 1 .. talks
    BY <1>7 DEF TalkInv, Apart
  <2> QED
    BY <1>1, <1>2, <1>6, <1>7, <2>1
<1>8. OwnTurns(h)' /\ Foreign(h)'
  BY <1>2, <1>5 DEF OwnTurns, Foreign
<1>9. Remembered(h)'
  <2>1. \A i \in DOMAIN turns : turns[i].by <= talks /\ turns[i].by \in Nat
    BY <1>1, ATurn DEF TalkInv, TurnsDated, TalkTypeOK
  <2>2. \A i \in DOMAIN turns : turns[i].by # talks + 1
    BY <1>1, <2>1
  <2> QED
    BY <1>2, <1>3, <1>5, <2>2 DEF Remembered
<1>10. TurnsDated' /\ Ordered'
  BY <1>1, <1>3, <1>4, MemoryStays DEF TalkTypeOK
<1>11. abreast = 1 => vain' <= MemoryTurns - 1 /\ Trail(turns, vain)' /\ Healing(h)'
  BY <1>3, <1>5 DEF TalkInv, VainInv, Trail, Healing
<1>12. talks' >= talks /\ made' >= made /\ t.by \in 1 .. talks'
  BY <1>1, <1>2, <1>3 DEF TalkTypeOK
<1> QED
  BY <1>3, <1>4, <1>5, <1>7, <1>8, <1>9, <1>10, <1>11, <1>12, OneKeeps

\* The window is of other requests, and after MemoryTurns - 1 of them in vain it is
\* the end of the memory, where nothing harms.
LEMMA RecallKeeps ==
  ASSUME TalkInv, NEW h \in Talkers, Recall(h)
  PROVE  TalkInv'
<1>1. TalkTypeOK /\ abreast \in Nat \ {0} /\ turns \in Seq(Turns) /\ MemoryTurns - 1 \in Nat /\ vain \in Nat
  BY MemoryAssumption DEF TalkInv, TalkTypeOK
<1>2. PICK heavy \in BOOLEAN, window \in {<<>>, Newest(turns, MemoryTurns - 1)} :
        /\ Becomes(h, "prompt", [exchange[h] EXCEPT !.window = window, !.own = <<Turn(h, "user", heavy)>>])
        /\ talkTrouble' \in Nat
  <2> DEFINE prompted(heavy, window) == [exchange[h] EXCEPT !.window = window, !.own = <<Turn(h, "user", heavy)>>]
  <2>1. PICK heavy \in BOOLEAN :
          \/ Becomes(h, "prompt", prompted(heavy, Newest(turns, MemoryTurns - 1))) /\ UNCHANGED talkTrouble
          \/ TalkFault /\ Becomes(h, "prompt", prompted(heavy, <<>>))
    BY DEF Recall
  <2>2. talkTrouble' \in Nat
    BY <1>1, <2>1 DEF TalkFault, TalkTypeOK
  <2> QED
    BY <2>1, <2>2
<1> DEFINE turn == Turn(h, "user", heavy)
           t == [exchange[h] EXCEPT !.window = window, !.own = <<turn>>]
<1>3. stage[h] = "recall" /\ Dated /\ UNCHANGED <<abreast, turns, vain, talks, clears, called>>
  BY DEF Recall
<1>4. made' \in Nat /\ made' >= made /\ (abreast = 1 => made' = made)
  BY <1>1, <1>3, DatedType
<1>5. exchange[h] \in Exchanges /\ exchange[h].own = <<>> /\ exchange[h].by \in Nat
  BY <1>1, <1>3, TurnsOf DEF TalkInv, OwnTurns
<1>6. /\ turn \in Turns /\ turn.by = exchange[h].by /\ turn.n = 1 /\ turn.role = "user"
      /\ turn.heavy = heavy /\ turn.made = made'
  <2>1. turn \in Turns
    BY <1>1, <1>4, TurnType
  <2> QED
    BY <1>5, <2>1 DEF Turn
<1>7. window \in Seq(Turns)
  BY <1>1, NewestTurns
<1> HIDE DEF turn
<1>8. t \in Exchanges /\ t.by = exchange[h].by /\ t.window = window /\ t.own = <<turn>>
  <2>1. <<turn>> \in Seq(Turns)
    BY <1>6
  <2> QED
    BY <1>5, <1>7, <2>1 DEF Exchanges
<1>9. TalkTypeOK'
  BY <1>1, <1>2, <1>3, <1>4, <1>8, BecomesType DEF TalkTypeOK, TalkStages, turn
<1>10. stage'[h] = "prompt" /\ exchange'[h] = t
  BY <1>1, <1>2, <1>8, OneGoesOn DEF TalkStages, turn
<1> HIDE DEF t
<1>11. \A i \in DOMAIN turns : turns[i].by # exchange[h].by
  BY <1>3, <1>5 DEF TalkInv, Remembered
<1>12. \A i \in DOMAIN window : \E j \in DOMAIN turns : window[i] = turns[j]
  BY <1>1, NewestTurns
<1>13. OwnTurns(h)'
  <2>1. DOMAIN <<turn>> = {1} /\ <<turn>>[1] = turn /\ <<turn>> # <<>> /\ Len(<<turn>>) = 1
    OBVIOUS
  <2>2. exchange'[h].own = <<turn>> /\ exchange'[h].by = exchange[h].by /\ stage'[h] = "prompt"
    BY <1>8, <1>10
  <2>3. ASSUME NEW k \in DOMAIN <<turn>>
        PROVE  <<turn>>[k].by = exchange[h].by /\ <<turn>>[k].n = k /\ <<turn>>[k].made <= made'
    <3>1. k = 1 /\ <<turn>>[k] = turn
      BY <2>1, <2>3
    <3> QED
      BY <1>4, <1>6, <3>1
  <2> HIDE DEF turn
  <2>4. <<turn>>[1].role = "user"
    BY <1>6, <2>1
  <2> QED
    BY <2>1, <2>2, <2>3, <2>4 DEF OwnTurns
<1>14. Remembered(h)'
  BY <1>3, <1>8, <1>10, <1>11 DEF Remembered
<1>15. Foreign(h)'
  BY <1>8, <1>10, <1>11, <1>12 DEF Foreign
<1>16. TurnsDated' /\ Ordered'
  BY <1>1, <1>3, <1>4, <1>9, MemoryStays DEF TalkTypeOK
<1>17. ASSUME abreast = 1
       PROVE  vain' <= MemoryTurns - 1 /\ Trail(turns, vain)' /\ Healing(h)'
  <2>1. vain <= MemoryTurns - 1 /\ Trail(turns, vain)
    BY <1>17 DEF TalkInv, VainInv
  <2>2. ASSUME vain >= MemoryTurns - 1, NEW i \in DOMAIN window
        PROVE  window[i].role # "tool" /\ (window[i].heavy => i = 1)
    <3> DEFINE m == MemoryTurns - 1
               w == Newest(turns, m)
               j == i + Len(turns) - Len(w)
    <3>1. window = w /\ vain = m
      BY <1>1, <2>1, <2>2
    <3>2. /\ i \in DOMAIN w /\ w[i] = turns[j] /\ j \in DOMAIN turns
          /\ Len(turns) >= m => Len(w) = m
          /\ Len(turns) < m => Len(w) = Len(turns)
      BY <1>1, <2>2, <3>1, NewestTurns
    <3>3. Len(turns) \in Nat /\ Len(w) \in Nat /\ i \in 1 .. Len(w) /\ m \in Nat
      BY <1>1, <1>7, <3>1, <3>2
    <3> HIDE DEF w, m
    <3>4. j > Len(turns) - m /\ (j = Len(turns) - m + 1 => i = 1)
      BY <3>2, <3>3
    <3> QED
      BY <2>1, <3>1, <3>2, <3>4 DEF Trail
  <2>3. Len(window) <= MemoryTurns - 1
    <3>1. Len(<<>>) = 0
      OBVIOUS
    <3> QED
      BY <1>1, <3>1, NewestTurns
  <2>4. Healing(h)'
    BY <1>3, <1>8, <1>10, <2>2, <2>3 DEF Healing, Mild
  <2> QED
    BY <1>3, <2>1, <2>4 DEF Trail
<1>18. talks' = talks /\ abreast' = abreast /\ turns' = turns
  BY <1>3
<1> QED
  BY <1>2, <1>3, <1>4, <1>8, <1>9, <1>13, <1>14, <1>15, <1>16, <1>17, <1>18, RequestKeeps DEF TalkStages, t, turn

\* The turn that is kept: the latest of its request, which the memory lacks.
Kept(h) == exchange[h].own[Len(exchange[h].own)]

LEMMA KeptTurn ==
  ASSUME TalkInv, NEW h \in Talkers, stage[h] \in Unkept
  PROVE  /\ Kept(h) \in Turns /\ Kept(h).by = exchange[h].by /\ Kept(h).n = Len(exchange[h].own)
         /\ Kept(h).made <= made /\ exchange[h].own # <<>> /\ Len(exchange[h].own) \in Nat
         /\ Len(exchange[h].own) > 0
         /\ \A i \in DOMAIN turns : turns[i].by = exchange[h].by =>
              turns[i].n < Len(exchange[h].own) /\ turns[i].made <= Kept(h).made
<1>1. TalkTypeOK /\ OwnTurns(h) /\ Remembered(h)
  BY DEF TalkInv
<1>2. exchange[h].own \in Seq(Turns) /\ exchange[h].own # <<>>
  BY <1>1, TurnsOf DEF OwnTurns, Unkept
<1> DEFINE own == exchange[h].own
<1>3. Len(own) \in DOMAIN own /\ Len(own) \in Nat /\ Len(own) > 0
  BY <1>2
<1>4. Kept(h) \in Turns /\ Kept(h).by = exchange[h].by /\ Kept(h).n = Len(own) /\ Kept(h).made <= made
  BY <1>1, <1>2, <1>3, ATurn DEF OwnTurns, Kept
<1>5. ASSUME NEW i \in DOMAIN turns, turns[i].by = exchange[h].by
      PROVE  turns[i].n < Len(own) /\ turns[i].made <= Kept(h).made
  <2>1. turns[i].n < Len(own) + 0 /\ turns[i].made <= Kept(h).made
    BY <1>1, <1>5 DEF Remembered, Unkept, Kept
  <2>2. turns[i].n \in Nat
    BY <1>1, <1>5, ATurn DEF TalkTypeOK
  <2> QED
    BY <1>3, <2>1, <2>2
<1> QED
  BY <1>2, <1>3, <1>4, <1>5

\* As it is stored it has neither its calls nor anything else but what it had.
LEMMA StoredTurn ==
  ASSUME NEW turn \in Turns
  PROVE  /\ AsStored(turn) \in Turns /\ AsStored(turn).by = turn.by /\ AsStored(turn).n = turn.n
         /\ AsStored(turn).heavy = turn.heavy /\ AsStored(turn).made = turn.made
         /\ AsStored(turn).role = "tool" => turn.role = "tool"
BY DEF AsStored, Turns

\* The memory with the latest turn of h, at a place that no later turn is before.
LEMMA AppendedTurn ==
  ASSUME TalkInv, NEW h \in Talkers, stage[h] \in Unkept, AppendTurn(Kept(h)),
         talks' = talks, made' = made, abreast' = abreast
  PROVE  /\ turns' \in Seq(Turns) /\ TurnsDated' /\ Ordered'
         /\ \A i \in DOMAIN turns' :
              \/ turns'[i].by = exchange[h].by /\ turns'[i].n = Len(exchange[h].own) /\ turns'[i].made = Kept(h).made
              \/ \E j \in DOMAIN turns : turns'[i] = turns[j]
         /\ abreast = 1 =>
              /\ Len(turns') = Len(turns) + 1
              /\ \A i \in DOMAIN turns' : turns'[i] = IF i <= Len(turns) THEN turns[i] ELSE AsStored(Kept(h))
<1> DEFINE t == AsStored(Kept(h))
<1>1. turns \in Seq(Turns) /\ made \in Nat /\ talks \in Nat /\ TurnsDated /\ Ordered /\ Apart(h)
  BY DEF TalkInv, TalkTypeOK
<1>2. /\ Kept(h) \in Turns /\ Kept(h).by = exchange[h].by /\ Kept(h).n = Len(exchange[h].own)
      /\ Kept(h).made <= made /\ Len(exchange[h].own) \in Nat
      /\ \A i \in DOMAIN turns : turns[i].by = exchange[h].by =>
           turns[i].n < Len(exchange[h].own) /\ turns[i].made <= Kept(h).made
  BY KeptTurn
<1>3. PICK p \in 0 .. Len(turns) :
        /\ \A i \in p + 1 .. Len(turns) : turns[i].made > Kept(h).made
        /\ turns' = Inserted(Kept(h), p)
  BY DEF AppendTurn, Places
<1>4. t \in Turns /\ t.by = exchange[h].by /\ t.n = Len(exchange[h].own) /\ t.made = Kept(h).made
  BY <1>2, StoredTurn
<1>5. /\ turns' \in Seq(Turns) /\ Len(turns') = Len(turns) + 1
      /\ \A i \in DOMAIN turns' :
           turns'[i] = IF i <= p THEN turns[i] ELSE IF i = p + 1 THEN t ELSE turns[i - 1]
  BY <1>1, <1>2, <1>3, InsertedTurn
<1> HIDE DEF t
<1>6. /\ Len(turns) \in Nat /\ DOMAIN turns = 1 .. Len(turns) /\ DOMAIN turns' = 1 .. Len(turns) + 1
      /\ p \in Nat /\ p <= Len(turns)
  BY <1>1, <1>5
<1>7. ASSUME NEW i \in DOMAIN turns', i # p + 1
      PROVE  /\ (IF i <= p THEN i ELSE i - 1) \in DOMAIN turns
             /\ turns'[i] = turns[IF i <= p THEN i ELSE i - 1]
  BY <1>5, <1>6, <1>7
<1>8. \A i \in DOMAIN turns' :
        \/ turns'[i].by = exchange[h].by /\ turns'[i].n = Len(exchange[h].own) /\ turns'[i].made = Kept(h).made
        \/ \E j \in DOMAIN turns : turns'[i] = turns[j]
  BY <1>4, <1>5, <1>6, <1>7
<1>9. TurnsDated'
  <2>1. exchange[h].by <= talks
    BY <1>1 DEF Apart, Unkept
  <2> QED
    BY <1>1, <1>2, <1>8, <2>1 DEF TurnsDated
<1>10. Ordered'
  <2> SUFFICES ASSUME NEW i \in DOMAIN turns', NEW j \in DOMAIN turns', i < j, turns'[i].by = turns'[j].by
               PROVE  turns'[i].n < turns'[j].n
    BY DEF Ordered
  <2>1. i \in Nat /\ j \in Nat
    BY <1>6
  <2>2. CASE i = p + 1
    <3>1. turns'[i] = t /\ j # p + 1 /\ ~(j <= p)
      BY <1>5, <1>6, <2>1, <2>2
    <3>2. j - 1 \in DOMAIN turns /\ turns'[j] = turns[j - 1] /\ j - 1 \in p + 1 .. Len(turns)
      BY <1>6, <1>7, <2>1, <2>2, <3>1
    <3>3. turns[j - 1].made > Kept(h).made /\ turns[j - 1].made <= Kept(h).made
      BY <1>2, <1>3, <1>4, <3>1, <3>2
    <3>4. turns[j - 1].made \in Nat /\ Kept(h).made \in Nat
      BY <1>1, <1>2, <3>2, ATurn DEF Turns
    <3> QED
      BY <3>3, <3>4
  <2>3. CASE i # p + 1 /\ j = p + 1
    <3>1. i <= p /\ i \in DOMAIN turns /\ turns'[i] = turns[i] /\ turns'[j] = t
      BY <1>5, <1>6, <2>1, <2>3
    <3> QED
      BY <1>2, <1>4, <3>1
  <2>4. CASE i # p + 1 /\ j # p + 1
    <3> DEFINE a == IF i <= p THEN i ELSE i - 1
               b == IF j <= p THEN j ELSE j - 1
    <3>1. a \in DOMAIN turns /\ b \in DOMAIN turns /\ turns'[i] = turns[a] /\ turns'[j] = turns[b]
      BY <1>7, <2>4
    <3>2. a < b
      BY <1>6, <2>1, <2>4
    <3> HIDE DEF a, b
    <3> QED
      BY <1>1, <3>1, <3>2 DEF Ordered
  <2> QED
    BY <2>2, <2>3, <2>4
<1>11. ASSUME abreast = 1
       PROVE  p = Len(turns)
  <2>1. ASSUME p + 1 <= Len(turns)
        PROVE  FALSE
    <3>1. Len(turns) \in p + 1 .. Len(turns) /\ Len(turns) \in DOMAIN turns
      BY <1>6, <2>1
    <3>2. turns[Len(turns)].made > Kept(h).made /\ turns[Len(turns)].made <= made /\ made = 0
      BY <1>1, <1>3, <1>11, <3>1 DEF TurnsDated
    <3>3. turns[Len(turns)].made \in Nat /\ Kept(h).made \in Nat
      BY <1>1, <1>2, <3>1, ATurn DEF Turns
    <3> QED
      BY <3>2, <3>3
  <2>2. ~(p + 1 <= Len(turns))
    BY <2>1
  <2>3. p \in Nat /\ Len(turns) \in Nat /\ p <= Len(turns)
    BY <1>6
  <2> QED
    BY <2>2, <2>3
<1>12. ASSUME abreast = 1, NEW i \in DOMAIN turns'
       PROVE  turns'[i] = IF i <= Len(turns) THEN turns[i] ELSE t
  <2>1. i \in 1 .. Len(turns) + 1 /\ p = Len(turns)
    BY <1>6, <1>11, <1>12
  <2>2. ~(i <= Len(turns)) => i = Len(turns) + 1
    BY <1>6, <2>1
  <2> QED
    BY <1>5, <1>12, <2>1, <2>2
<1> QED
  BY <1>5, <1>8, <1>9, <1>10, <1>12 DEF t

\* One turn more at the end, which lengthens the trail, if it does no harm.
LEMMA TrailGrows ==
  ASSUME NEW s \in Seq(Turns), NEW r \in Seq(Turns), NEW t \in Turns, NEW v \in Nat, Trail(s, v),
         Len(r) = Len(s) + 1,
         \A i \in DOMAIN r : r[i] = IF i <= Len(s) THEN s[i] ELSE t,
         t.role # "tool"
  PROVE  /\ t.heavy => Trail(r, 1)
         /\ ~t.heavy => Trail(r, v + 1)
<1>1. /\ Len(s) \in Nat /\ DOMAIN s = 1 .. Len(s) /\ DOMAIN r = 1 .. Len(s) + 1
  OBVIOUS
<1>2. ASSUME NEW i \in DOMAIN r, i > Len(r) - 1
      PROVE  r[i] = t /\ i = Len(r) - 1 + 1
  BY <1>1, <1>2
<1>3. ASSUME ~t.heavy, NEW i \in DOMAIN r, i > Len(r) - (v + 1)
      PROVE  r[i].role # "tool" /\ (r[i].heavy => i = Len(r) - (v + 1) + 1)
  <2>1. CASE i <= Len(s)
    <3>1. i \in DOMAIN s /\ r[i] = s[i] /\ i > Len(s) - v
      BY <1>1, <1>3, <2>1
    <3>2. s[i].role # "tool" /\ (s[i].heavy => i = Len(s) - v + 1)
      BY <3>1 DEF Trail
    <3>3. Len(s) - v + 1 = Len(r) - (v + 1) + 1
      BY <1>1
    <3> QED
      BY <3>1, <3>2, <3>3
  <2>2. CASE ~(i <= Len(s))
    BY <1>3, <2>2
  <2> QED
    BY <2>1, <2>2
<1>4. t.heavy => Trail(r, 1)
  BY <1>2 DEF Trail
<1>5. ~t.heavy => Trail(r, v + 1)
  BY <1>3 DEF Trail
<1> QED
  BY <1>4, <1>5

LEMMA TrailShortens ==
  ASSUME NEW s \in Seq(Turns), NEW v \in Nat, Trail(s, v + 1)
  PROVE  Trail(s, v)
<1> SUFFICES ASSUME NEW i \in DOMAIN s, i > Len(s) - v
             PROVE  s[i].role # "tool" /\ (s[i].heavy => i = Len(s) - v + 1)
  BY DEF Trail
<1>1. i \in Nat /\ Len(s) \in Nat
  OBVIOUS
<1>2. i > Len(s) - (v + 1) /\ i # Len(s) - (v + 1) + 1
  BY <1>1
<1> QED
  BY <1>2 DEF Trail

\* What keeping a turn leaves of the invariant, if the exchange goes on with the
\* turns that it has.
LEMMA KeepKeeps ==
  ASSUME TalkInv, NEW h \in Talkers, stage[h] \in Unkept, Keeps(Kept(h)),
         NEW where \in TalkStages \ Unkept, where # "recall", NEW t \in Exchanges, Becomes(h, where, t),
         where \in {"tool", "last"} => Len(exchange[h].own) > 1,
         t.by = exchange[h].by, t.own = exchange[h].own, t.window = exchange[h].window,
         UNCHANGED <<abreast, made, talks>>,
         abreast = 1 => vain' <= MemoryTurns - 1 /\ Trail(turns, vain)' /\ Healing(h)'
  PROVE  TalkInv'
<1>1. TalkTypeOK /\ OwnTurns(h) /\ Foreign(h) /\ Remembered(h) /\ made \in Nat
  BY DEF TalkInv, TalkTypeOK
<1>2. /\ Kept(h) \in Turns /\ exchange[h].own # <<>> /\ Len(exchange[h].own) \in Nat /\ Len(exchange[h].own) > 0
      /\ \A i \in DOMAIN turns : turns[i].by = exchange[h].by =>
           turns[i].n < Len(exchange[h].own) /\ turns[i].made <= Kept(h).made
  BY KeptTurn
<1>3. turns' \in Seq(Turns) /\ vain' \in Nat /\ talkTrouble' \in Nat
  BY <1>1, <1>2, KeepsType
<1>4. TalkTypeOK'
  BY <1>1, <1>3, BecomesType DEF TalkTypeOK
<1>5. /\ TurnsDated' /\ Ordered'
      /\ \A i \in DOMAIN turns' :
           \/ turns'[i].by = exchange[h].by /\ turns'[i].n = Len(exchange[h].own) /\ turns'[i].made = Kept(h).made
           \/ \E j \in DOMAIN turns : turns'[i] = turns[j]
  <2>1. CASE AppendTurn(Kept(h))
    BY <2>1, AppendedTurn
  <2>2. CASE turns' = turns
    BY <1>1, <1>4, <2>2, MemoryStays DEF TalkTypeOK
  <2> QED
    BY <2>1, <2>2 DEF Keeps
<1>6. stage'[h] = where /\ exchange'[h] = IF where = "free" THEN Nobody ELSE t
  BY <1>1, OneGoesOn
<1>7. OwnTurns(h)' /\ Foreign(h)'
  <2>1. CASE where = "free"
    BY <1>6, <2>1, NobodyType DEF OwnTurns, Foreign
  <2>2. CASE where # "free"
    <3>1. /\ exchange'[h].own = exchange[h].own /\ exchange'[h].by = exchange[h].by
          /\ exchange'[h].window = exchange[h].window
      BY <1>6, <2>2
    <3> QED
      BY <1>1, <1>2, <1>6, <2>2, <3>1 DEF OwnTurns, Foreign, Unkept, TalkStages
  <2> QED
    BY <2>1, <2>2
<1>8. Remembered(h)'
  <2> SUFFICES ASSUME NEW i \in DOMAIN turns', turns'[i].by = exchange[h].by, where # "free"
               PROVE  turns'[i].n < Len(exchange[h].own) + 1 /\ turns'[i].made <= Kept(h).made
    BY <1>2, <1>6 DEF Remembered, Kept
  <2>1. turns'[i].n \in Nat /\ turns'[i].made \in Nat
    BY <1>3, ATurn
  <2>2. CASE turns'[i].n = Len(exchange[h].own) /\ turns'[i].made = Kept(h).made
    BY <1>2, <2>1, <2>2
  <2>3. CASE \E j \in DOMAIN turns : turns'[i] = turns[j]
    BY <1>2, <2>1, <2>3
  <2> QED
    BY <1>5, <2>2, <2>3
<1>9. /\ stage[h] # "free" /\ talks' = talks /\ made' >= made /\ abreast' = abreast
      /\ \A i \in DOMAIN turns' : turns'[i].by = exchange[h].by \/ \E j \in DOMAIN turns : turns'[i] = turns[j]
  BY <1>1, <1>5 DEF Unkept
<1> QED
  BY <1>4, <1>5, <1>7, <1>8, <1>9, RequestKeeps

\* The prompt lengthens the trail of the requests that their memory ruined.
LEMMA PromptKeeps ==
  ASSUME TalkInv, NEW h \in Talkers, Prompt(h)
  PROVE  TalkInv'
<1> DEFINE t == [exchange[h] EXCEPT !.kept = talkTrouble' = talkTrouble]
<1>0. MemoryTurns \in Nat /\ MemoryTurns > 0
  BY MemoryAssumption
<1>1. /\ TalkTypeOK /\ OwnTurns(h) /\ exchange[h] \in Exchanges /\ turns \in Seq(Turns)
      /\ vain \in Nat /\ talkTrouble \in Nat
  BY TurnsOf DEF TalkInv, TalkTypeOK
<1>2. /\ stage[h] = "prompt" /\ Len(exchange[h].own) = 1 /\ exchange[h].own # <<>>
      /\ exchange[h].own[1] = Kept(h) /\ Kept(h).role = "user" /\ stage[h] \in Unkept
  BY <1>1 DEF Prompt, OwnTurns, Kept, Unkept
<1>3. Keeps(Kept(h)) /\ Becomes(h, "send", t) /\ UNCHANGED <<abreast, made, talks>>
  BY <1>2 DEF Prompt, KeepPrompt
<1>4. /\ t \in Exchanges /\ t.by = exchange[h].by /\ t.own = exchange[h].own /\ t.window = exchange[h].window
      /\ t.kept = (talkTrouble' = talkTrouble)
  BY <1>1 DEF Exchanges
<1> HIDE DEF t
<1>5. stage'[h] = "send" /\ exchange'[h] = t
  BY <1>1, <1>3, <1>4, OneGoesOn DEF TalkStages
<1>6. Kept(h) \in Turns
  BY <1>2, KeptTurn
<1>7. ASSUME abreast = 1
      PROVE  vain' <= MemoryTurns - 1 /\ Trail(turns, vain)' /\ Healing(h)'
  <2>1. vain <= MemoryTurns - 1 /\ Trail(turns, vain) /\ Healing(h)
    BY <1>7 DEF TalkInv, VainInv
  <2>2. CASE TalkFault /\ UNCHANGED <<turns, vain>>
    <3>1. talkTrouble' # talkTrouble
      BY <1>1, <2>2 DEF TalkFault
    <3>2. Healing(h)'
      BY <1>4, <1>5, <3>1 DEF Healing
    <3> QED
      BY <2>1, <2>2, <3>2 DEF Trail
  <2>3. CASE AppendTurn(Kept(h))
    <3> DEFINE a == AsStored(Kept(h))
    <3>1. a \in Turns /\ a.heavy = Kept(h).heavy /\ a.role # "tool" /\ a.heavy \in BOOLEAN
      BY <1>2, <1>6, StoredTurn DEF Turns
    <3>2. /\ turns' \in Seq(Turns) /\ Len(turns') = Len(turns) + 1
          /\ \A i \in DOMAIN turns' : turns'[i] = IF i <= Len(turns) THEN turns[i] ELSE a
      BY <1>2, <1>3, <1>7, <2>3, AppendedTurn
    <3> HIDE DEF a
    <3>3. vain' = IF a.heavy THEN 0 ELSE vain
      BY <1>2, <2>3, <3>1 DEF AppendTurn, Harmful
    <3>4. vain' \in Nat /\ vain' <= MemoryTurns - 1
      BY <1>0, <1>1, <2>1, <3>3
    <3>5. /\ a.heavy => Trail(turns', 1)
          /\ ~a.heavy => Trail(turns', vain + 1)
      BY <1>1, <2>1, <3>1, <3>2, TrailGrows
    <3>6. Trail(turns', vain' + 1)
      BY <1>1, <3>3, <3>5
    <3>7. Trail(turns, vain + 1)'
      BY <3>6
    <3>8. Trail(turns, vain)'
      BY <3>2, <3>4, <3>6, TrailShortens
    <3>9. ASSUME vain' >= MemoryTurns - 1
          PROVE  Mild(exchange[h].window) /\ (Kept(h).heavy => exchange[h].window = <<>>)
      <4>1. exchange[h].window \in Seq(Turns) /\ Len(exchange[h].window) <= MemoryTurns - 1
        BY <1>1, <1>2, <2>1, TurnsOf DEF Healing
      <4>2. CASE a.heavy
        <5>1. Len(exchange[h].window) <= 0
          BY <1>0, <3>3, <3>9, <4>1, <4>2
        <5>2. exchange[h].window = <<>>
          BY <4>1, <5>1
        <5> QED
          BY <5>2 DEF Mild
      <4>3. CASE ~a.heavy
        <5>1. vain' = vain /\ ~Kept(h).heavy
          BY <3>1, <3>3, <4>3
        <5> QED
          BY <1>2, <2>1, <3>9, <5>1 DEF Healing
      <4> QED
        BY <4>2, <4>3
    <3>10. Healing(h)'
      BY <1>2, <1>4, <1>5, <3>7, <3>9 DEF Healing
    <3> QED
      BY <3>4, <3>8, <3>10
  <2> QED
    BY <1>3, <2>2, <2>3 DEF Keeps
<1> QED
  BY <1>2, <1>3, <1>4, <1>7, KeepKeeps DEF TalkStages, Unkept

\* So does any other turn that does no harm; one that may ends it.
LEMMA KeepLastKeeps ==
  ASSUME TalkInv, NEW h \in Talkers, NEW where \in {"tool", "last", "send", "free"}, KeepLast(h, where),
         stage[h] \in {"calls", "result", "final"}
  PROVE  TalkInv'
<1>1. /\ TalkTypeOK /\ OwnTurns(h) /\ exchange[h] \in Exchanges /\ turns \in Seq(Turns)
      /\ vain \in Nat /\ stage[h] \in Unkept /\ Len(exchange[h].own) > 1 /\ Len(exchange[h].own) \in Nat
      /\ MemoryTurns - 1 \in Nat
  BY TurnsOf, MemoryAssumption DEF TalkInv, TalkTypeOK, OwnTurns, Unkept
<1>2. Keeps(Kept(h)) /\ Becomes(h, where, exchange[h]) /\ UNCHANGED <<abreast, made, talks>>
  BY DEF KeepLast, Kept
<1>3. /\ where \in TalkStages \ Unkept /\ where # "recall"
  BY DEF TalkStages, Unkept
<1>4. stage'[h] = where /\ exchange'[h] = IF where = "free" THEN Nobody ELSE exchange[h]
  BY <1>1, <1>2, <1>3, OneGoesOn
<1>5. Healing(h)'
  <2>1. ASSUME where = "send"
        PROVE  Len(exchange'[h].own) # 1
    <3>1. exchange'[h] = exchange[h]
      BY <1>4, <2>1
    <3>2. ASSUME Len(exchange[h].own) = 1
          PROVE  FALSE
      BY <1>1, <3>2
    <3> QED
      BY <3>1, <3>2
  <2> QED
    BY <1>4, <2>1 DEF Healing
<1>6. ASSUME abreast = 1
      PROVE  vain' <= MemoryTurns - 1 /\ Trail(turns, vain)'
  <2>1. vain <= MemoryTurns - 1 /\ Trail(turns, vain)
    BY <1>6 DEF TalkInv, VainInv
  <2>2. CASE UNCHANGED <<turns, vain>>
    BY <2>1, <2>2 DEF Trail
  <2>3. CASE AppendTurn(Kept(h))
    <3> DEFINE a == AsStored(Kept(h))
    <3>0. Kept(h) \in Turns
      BY <1>1, KeptTurn
    <3>1. a \in Turns /\ a.heavy = Kept(h).heavy /\ (a.role = "tool" => Kept(h).role = "tool")
      BY <3>0, StoredTurn
    <3>2. /\ turns' \in Seq(Turns) /\ Len(turns') = Len(turns) + 1
          /\ \A i \in DOMAIN turns' : turns'[i] = IF i <= Len(turns) THEN turns[i] ELSE a
      BY <1>1, <1>2, <1>6, <2>3, AppendedTurn
    <3> HIDE DEF a
    <3>3. CASE Harmful(Kept(h))
      <4>1. vain' = 0
        BY <2>3, <3>3 DEF AppendTurn
      <4>2. Trail(turns', 0)
        BY <3>2 DEF Trail
      <4> QED
        BY <1>1, <4>1, <4>2
    <3>4. CASE ~Harmful(Kept(h))
      <4>1. vain' = vain /\ a.role # "tool" /\ ~a.heavy
        BY <2>3, <3>1, <3>4 DEF AppendTurn, Harmful
      <4>2. Trail(turns', vain + 1)
        BY <1>1, <2>1, <3>1, <3>2, <4>1, TrailGrows
      <4>3. Trail(turns', vain)
        BY <1>1, <3>2, <4>2, TrailShortens
      <4> QED
        BY <2>1, <4>1, <4>3
    <3> QED
      BY <3>3, <3>4
  <2> QED
    BY <1>2, <2>2, <2>3 DEF Keeps
<1> QED
  BY <1>1, <1>2, <1>3, <1>5, <1>6, KeepKeeps

LEMMA JoinedTurns ==
  ASSUME NEW s \in Seq(Turns), NEW r \in Seq(Turns)
  PROVE  /\ s \o r \in Seq(Turns) /\ Len(s \o r) = Len(s) + Len(r)
         /\ \A i \in 1 .. Len(s) + Len(r) : (s \o r)[i] = IF i <= Len(s) THEN s[i] ELSE r[i - Len(s)]
BY ConcatProperties

\* A window that cannot harm does not spoil a prompt that is light, or alone.
LEMMA NotSpoiled ==
  ASSUME TalkInv, NEW h \in Talkers, stage[h] = "send", Len(exchange[h].own) = 1,
         Mild(exchange[h].window), exchange[h].own[1].heavy => exchange[h].window = <<>>
  PROVE  ~Spoiled(h)
<1> DEFINE w == exchange[h].window
           own == exchange[h].own
           payload == Payload(h)
           heavy == {i \in DOMAIN payload : payload[i].heavy}
<1>1. TalkTypeOK /\ w \in Seq(Turns) /\ own \in Seq(Turns) /\ own[1].role = "user"
  BY TurnsOf DEF TalkInv, OwnTurns
<1>2. /\ Len(w) \in Nat /\ Len(own) = 1 /\ DOMAIN payload = 1 .. Len(w) + 1 /\ DOMAIN w = 1 .. Len(w)
      /\ \A i \in 1 .. Len(w) + 1 : payload[i] = IF i <= Len(w) THEN w[i] ELSE own[i - Len(w)]
  <2>1. Len(w) \in Nat /\ Len(own) = 1 /\ DOMAIN w = 1 .. Len(w)
    BY <1>1
  <2>2. /\ payload \in Seq(Turns) /\ Len(payload) = Len(w) + Len(own)
        /\ \A i \in 1 .. Len(w) + Len(own) : payload[i] = IF i <= Len(w) THEN w[i] ELSE own[i - Len(w)]
    <3>1. /\ w \o own \in Seq(Turns) /\ Len(w \o own) = Len(w) + Len(own)
          /\ \A i \in 1 .. Len(w) + Len(own) : (w \o own)[i] = IF i <= Len(w) THEN w[i] ELSE own[i - Len(w)]
      BY <1>1, JoinedTurns
    <3>2. payload = w \o own
      BY DEF Payload
    <3> HIDE DEF payload
    <3> QED
      BY <3>1, <3>2
  <2> HIDE DEF payload
  <2>3. DOMAIN payload = 1 .. Len(w) + Len(own)
    BY <2>2
  <2> QED
    BY <2>1, <2>2, <2>3
<1>3. ASSUME NEW i \in DOMAIN payload
      PROVE  payload[i].role # "tool" /\ (payload[i].heavy => i = 1)
  <2>1. CASE i <= Len(w)
    <3>1. i \in DOMAIN w /\ payload[i] = w[i]
      BY <1>2, <1>3, <2>1
    <3> QED
      BY <3>1 DEF Mild
  <2>2. CASE ~(i <= Len(w))
    <3>1. i = Len(w) + 1 /\ i - Len(w) = 1 /\ payload[i] = own[i - Len(w)]
      BY <1>2, <1>3, <2>2
    <3>2. payload[i] = own[1] /\ (own[1].heavy => Len(w) = 0)
      BY <3>1
    <3> QED
      BY <1>1, <3>1, <3>2
  <2> QED
    BY <2>1, <2>2
<1> HIDE DEF payload
<1>4. Cardinality(heavy) <= 1
  <2>1. heavy \subseteq {1}
    BY <1>3
  <2>2. IsFiniteSet({1}) /\ Cardinality({1}) = 1
    BY FS_Singleton
  <2> QED
    BY <2>1, <2>2, FS_Subset
<1>5. ~TooLong(payload)
  <2>1. heavy \subseteq {1} /\ IsFiniteSet({1})
    BY <1>3, FS_Singleton
  <2>2. Cardinality(heavy) \in Nat
    BY <2>1, FS_Subset, FS_CardinalityType
  <2> QED
    BY <1>4, <2>2, MemoryAssumption DEF TooLong
<1>6. ~Orphaned(payload)
  BY <1>3 DEF Orphaned
<1> QED
  BY <1>5, <1>6 DEF Spoiled, payload

\* A request that its memory ruins has left its prompt behind.
LEMMA SendKeeps ==
  ASSUME TalkInv, NEW h \in Talkers, Send(h)
  PROVE  TalkInv'
<1> DEFINE t == [exchange[h] EXCEPT !.round = @ + 1]
           where == IF TooLong(Payload(h)) THEN "free" ELSE "asked"
<1>0. MemoryTurns \in Nat /\ MemoryTurns > 0
  BY MemoryAssumption
<1>1. /\ TalkTypeOK /\ OwnTurns(h) /\ Foreign(h) /\ Remembered(h) /\ exchange[h] \in Exchanges
      /\ turns \in Seq(Turns) /\ vain \in Nat
  BY TurnsOf DEF TalkInv, TalkTypeOK
<1>2. /\ stage[h] = "send" /\ Becomes(h, where, t)
      /\ vain' = IF Spoiled(h) /\ exchange[h].kept THEN vain + 1 ELSE vain
      /\ UNCHANGED <<abreast, turns, made, talks, clears, called, talkTrouble>>
  BY DEF Send
<1>3. /\ t \in Exchanges /\ t.by = exchange[h].by /\ t.own = exchange[h].own /\ t.window = exchange[h].window
  <2>1. exchange[h] \in Exchanges /\ exchange[h].round + 1 \in Nat
    BY <1>1, TurnsOf
  <2> QED
    BY <2>1 DEF Exchanges
<1>4. where \in {"free", "asked"} /\ where \in TalkStages
  BY DEF TalkStages
<1> HIDE DEF t, where
<1>5. stage'[h] = where /\ exchange'[h] = IF where = "free" THEN Nobody ELSE t
  BY <1>1, <1>2, <1>3, <1>4, OneGoesOn
<1>6. TalkTypeOK'
  BY <1>1, <1>2, <1>3, <1>4, BecomesType DEF TalkTypeOK
<1>7. TurnsDated' /\ Ordered'
  BY <1>1, <1>2, <1>6, MemoryStays DEF TalkTypeOK
<1>8. OwnTurns(h)' /\ Foreign(h)' /\ Remembered(h)'
  <2>1. CASE where = "free"
    BY <1>5, <2>1, NobodyType DEF OwnTurns, Foreign, Remembered
  <2>2. CASE where = "asked"
    <3>1. /\ exchange'[h].own = exchange[h].own /\ exchange'[h].by = exchange[h].by
          /\ exchange'[h].window = exchange[h].window
      BY <1>3, <1>5, <2>2
    <3> QED
      BY <1>1, <1>2, <1>5, <2>2, <3>1 DEF OwnTurns, Foreign, Remembered, Unkept
  <2> QED
    BY <1>4, <2>1, <2>2
<1>9. ASSUME abreast = 1
      PROVE  vain' <= MemoryTurns - 1 /\ Trail(turns, vain)' /\ Healing(h)'
  <2>1. vain <= MemoryTurns - 1 /\ Trail(turns, vain) /\ Healing(h)
    BY <1>9 DEF TalkInv, VainInv
  <2>2. Healing(h)'
    BY <1>4, <1>5 DEF Healing
  <2>3. CASE Spoiled(h) /\ exchange[h].kept
    <3>1. Trail(turns, vain + 1) /\ ~(vain >= MemoryTurns - 1)
      BY <1>2, <2>1, <2>3, NotSpoiled DEF Healing, Spoiled
    <3>2. vain' = vain + 1 /\ vain' <= MemoryTurns - 1
      BY <1>0, <1>1, <1>2, <2>3, <3>1
    <3> QED
      BY <1>2, <2>2, <3>1, <3>2
  <2>4. CASE ~(Spoiled(h) /\ exchange[h].kept)
    BY <1>2, <2>1, <2>2, <2>4
  <2> QED
    BY <2>3, <2>4
<1> QED
  BY <1>1, <1>2, <1>3, <1>4, <1>6, <1>7, <1>8, <1>9, RequestKeeps DEF TalkTypeOK

\* A turn is made: of a round, of a tool, or the last.
LEMMA MakesKeeps ==
  ASSUME TalkInv, NEW h \in Talkers, NEW role \in {"assistant", "calls", "tool"}, NEW e \in Exchanges,
         e.by = exchange[h].by, e.own = exchange[h].own, e.window = exchange[h].window,
         NEW where \in {"calls", "result", "final"}, stage[h] \in {"asked", "tool", "last"},
         Makes(h, Turn(h, role, FALSE), e, where)
  PROVE  TalkInv'
<1> DEFINE turn == Turn(h, role, FALSE)
           own == exchange[h].own
           more == Append(own, turn)
           t == [e EXCEPT !.own = Append(@, turn)]
<1>1. /\ TalkTypeOK /\ OwnTurns(h) /\ Foreign(h) /\ Remembered(h) /\ made \in Nat
      /\ own \in Seq(Turns) /\ exchange[h].by \in Nat /\ where \in TalkStages
  BY TurnsOf DEF TalkInv, TalkTypeOK, TalkStages
<1>2. Dated /\ Becomes(h, where, t) /\ UNCHANGED <<abreast, turns, vain, talks, clears, talkTrouble>>
  BY DEF Makes
<1>3. made' \in Nat /\ made' >= made /\ (abreast = 1 => made' = made)
  BY <1>1, <1>2, DatedType
<1>4. turn \in Turns /\ turn.by = exchange[h].by /\ turn.n = Len(own) + 1 /\ turn.made = made'
  <2>1. turn \in Turns
    BY <1>1, <1>3, TurnType
  <2> QED
    BY <2>1 DEF Turn
<1> HIDE DEF turn
<1>5. /\ more \in Seq(Turns) /\ Len(more) = Len(own) + 1 /\ DOMAIN more = 1 .. Len(own) + 1
      /\ more[Len(own) + 1] = turn /\ \A k \in 1 .. Len(own) : more[k] = own[k]
      /\ Len(own) \in Nat /\ DOMAIN own = 1 .. Len(own)
  BY <1>1, <1>4, AppendProperties
<1> HIDE DEF more
<1>6. t \in Exchanges /\ t.by = exchange[h].by /\ t.own = more /\ t.window = exchange[h].window
  BY <1>5 DEF Exchanges, more
<1> HIDE DEF t
<1>7. stage'[h] = where /\ exchange'[h] = t
  BY <1>1, <1>2, <1>6, OneGoesOn DEF turn, t
<1>8. TalkTypeOK'
  BY <1>1, <1>2, <1>3, <1>6, BecomesType DEF TalkTypeOK, turn, t
<1>9. TurnsDated' /\ Ordered'
  BY <1>1, <1>2, <1>3, <1>8, MemoryStays DEF TalkTypeOK
<1>10. Len(own) > 0
  <2>1. own # <<>>
    BY <1>1 DEF OwnTurns
  <2> QED
    BY <1>1, <2>1
<1>11. OwnTurns(h)'
  <2>1. ASSUME NEW k \in DOMAIN more
        PROVE  more[k].by = exchange[h].by /\ more[k].n = k /\ more[k].made <= made'
    <3>1. CASE k = Len(own) + 1
      BY <1>3, <1>4, <1>5, <3>1
    <3>2. CASE k # Len(own) + 1
      <4>1. k \in DOMAIN own /\ more[k] = own[k]
        BY <1>5, <2>1, <3>2
      <4>2. own[k].made <= made /\ own[k].made \in Nat /\ own[k].by = exchange[h].by /\ own[k].n = k
        BY <1>1, <4>1, ATurn DEF OwnTurns
      <4> QED
        BY <1>1, <1>3, <4>1, <4>2
    <3> QED
      BY <3>1, <3>2
  <2>2. more # <<>> /\ more[1].role = "user" /\ Len(more) > 1
    <3>1. own[1].role = "user"
      BY <1>1 DEF OwnTurns
    <3> QED
      BY <1>5, <1>10, <3>1
  <2> QED
    BY <1>6, <1>7, <2>1, <2>2 DEF OwnTurns
<1>12. Foreign(h)'
  BY <1>1, <1>6, <1>7 DEF Foreign
<1>13. Remembered(h)'
  <2> SUFFICES ASSUME NEW i \in DOMAIN turns, turns[i].by = exchange[h].by
               PROVE  more # <<>> /\ turns[i].n < Len(more) + 0 /\ turns[i].made <= more[Len(more)].made
    BY <1>2, <1>6, <1>7 DEF Remembered, Unkept
  <2>1. turns[i].n < Len(own) + 1
    BY <1>1 DEF Remembered, Unkept
  <2>2. turns[i].made <= made /\ turns[i].made \in Nat /\ turns[i].n \in Nat
    BY <1>1, ATurn DEF TalkInv, TurnsDated, TalkTypeOK
  <2>3. more # <<>>
    BY <1>5
  <2> QED
    BY <1>1, <1>3, <1>4, <1>5, <2>1, <2>2, <2>3
<1>14. ASSUME abreast = 1
       PROVE  vain' <= MemoryTurns - 1 /\ Trail(turns, vain)' /\ Healing(h)'
  BY <1>2, <1>7, <1>14 DEF TalkInv, VainInv, Healing
<1>15. /\ stage[h] # "free" /\ talks' = talks /\ abreast' = abreast
       /\ \A i \in DOMAIN turns' : turns'[i].by = exchange[h].by \/ \E j \in DOMAIN turns : turns'[i] = turns[j]
  BY <1>2
<1> QED
  BY <1>1, <1>2, <1>3, <1>6, <1>8, <1>9, <1>11, <1>12, <1>13, <1>14, <1>15, RequestKeeps DEF t, turn

\* A request ends without a word.
LEMMA EndsKeep ==
  ASSUME TalkInv, NEW h \in Talkers, stage[h] # "free", Becomes(h, "free", Nobody),
         UNCHANGED <<abreast, turns, made, vain, talks, talkTrouble>>
  PROVE  TalkInv'
<1>1. TalkTypeOK /\ TalkTypeOK'
  BY BecomesType, NobodyType DEF TalkInv, TalkTypeOK, TalkStages
<1>2. stage'[h] = "free" /\ exchange'[h] = Nobody /\ made' >= made /\ "free" \in TalkStages
  BY <1>1, OneGoesOn, NobodyType DEF TalkStages, TalkTypeOK
<1>3. TurnsDated' /\ Ordered'
  BY <1>1, MemoryStays DEF TalkTypeOK
<1>4. OwnTurns(h)' /\ Foreign(h)' /\ Remembered(h)'
  BY <1>2, NobodyType DEF OwnTurns, Foreign, Remembered
<1>5. abreast = 1 => vain' <= MemoryTurns - 1 /\ Trail(turns, vain)' /\ Healing(h)'
  BY <1>2 DEF TalkInv, VainInv, Healing
<1> QED
  BY <1>1, <1>2, <1>3, <1>4, <1>5, NobodyType, RequestKeeps DEF TalkStages

LEMMA AnswersKeeps ==
  ASSUME TalkInv, NEW h \in Talkers, Answers(h)
  PROVE  TalkInv'
<1>1. TalkTypeOK /\ exchange[h] \in Exchanges /\ stage[h] = "asked"
  BY TurnsOf DEF TalkInv, Answers
<1>2. CASE Makes(h, Turn(h, "assistant", FALSE), exchange[h], "final")
  BY <1>1, <1>2, MakesKeeps
<1>3. CASE /\ Becomes(h, "free", Nobody)
           /\ UNCHANGED <<abreast, turns, made, vain, talks, clears, called, talkTrouble>>
  BY <1>1, <1>3, EndsKeep
<1>4. ASSUME NEW n \in 1 .. MaxCalls, Makes(h, Turn(h, "calls", FALSE), [exchange[h] EXCEPT !.calls = n], "calls")
      PROVE  TalkInv'
  <2> DEFINE e == [exchange[h] EXCEPT !.calls = n]
  <2>1. e \in Exchanges /\ e.by = exchange[h].by /\ e.own = exchange[h].own /\ e.window = exchange[h].window
    BY <1>1, <1>4 DEF Exchanges
  <2> HIDE DEF e
  <2>2. Makes(h, Turn(h, "calls", FALSE), e, "calls")
    BY <1>4 DEF e
  <2> QED
    BY <1>1, <2>1, <2>2, MakesKeeps
<1> QED
  BY <1>2, <1>3, <1>4 DEF Answers

LEMMA InvokeKeeps ==
  ASSUME TalkInv, NEW h \in Talkers, Invoke(h)
  PROVE  TalkInv'
<1> DEFINE e == [exchange[h] EXCEPT !.calls = @ - 1]
<1>1. TalkTypeOK /\ exchange[h] \in Exchanges /\ exchange[h].calls \in Int /\ stage[h] = "tool"
  BY TurnsOf DEF TalkInv, Invoke
<1>2. e \in Exchanges /\ e.by = exchange[h].by /\ e.own = exchange[h].own /\ e.window = exchange[h].window
  BY <1>1 DEF Exchanges
<1>3. Makes(h, Turn(h, "tool", FALSE), e, "result")
  BY DEF Invoke
<1> HIDE DEF e
<1> QED
  BY <1>1, <1>2, <1>3, MakesKeeps

\* .ai clear: what is remembered goes, and nobody's part of the invariant with it.
LEMMA ClearKeeps ==
  ASSUME TalkInv, Clear
  PROVE  TalkInv'
<1>1. turns' = <<>> /\ DOMAIN turns' = {} /\ turns' \in Seq(Turns)
  BY DEF Clear
<1>2. UNCHANGED <<abreast, made, stage, exchange, vain, talks, called, talkTrouble>>
  BY DEF Clear
<1>3. TalkTypeOK' /\ TurnsDated' /\ Ordered'
  BY <1>1, <1>2 DEF TalkInv, TalkTypeOK, TurnsDated, Ordered
<1>4. ASSUME NEW h \in Talkers
      PROVE  Apart(h)' /\ OwnTurns(h)' /\ Remembered(h)' /\ Foreign(h)'
  BY <1>1, <1>2 DEF TalkInv, Apart, OwnTurns, Remembered, Foreign
<1>5. VainInv'
  <2>1. Trail(turns', vain') /\ Trail(turns', vain' + 1)
    BY <1>1 DEF Trail
  <2> QED
    BY <1>2, <2>1 DEF TalkInv, VainInv, Healing
<1> QED
  BY <1>3, <1>4, <1>5 DEF TalkInv

LEMMA TalkCrashKeeps ==
  ASSUME TalkInv, TalkCrash
  PROVE  TalkInv'
<1>1. /\ stage' = [h \in Talkers |-> "free"] /\ exchange' = [h \in Talkers |-> Nobody]
      /\ UNCHANGED <<abreast, turns, made, vain, talks, clears, called>>
  BY DEF TalkCrash
<1>2. TalkTypeOK'
  BY <1>1, NobodyType DEF TalkInv, TalkTypeOK, TalkCrash, TalkFault, TalkStages
<1>3. TurnsDated' /\ Ordered'
  BY <1>1, <1>2, MemoryStays DEF TalkInv, TalkTypeOK
<1>4. ASSUME NEW h \in Talkers
      PROVE  Apart(h)' /\ OwnTurns(h)' /\ Remembered(h)' /\ Foreign(h)'
  <2>1. \A g \in Talkers : stage'[g] = "free" /\ exchange'[g] = Nobody
    BY <1>1
  <2>2. stage'[h] = "free" /\ exchange'[h].own = <<>> /\ exchange'[h].window = <<>>
    BY <1>4, <2>1, NobodyType
  <2>3. Apart(h)'
    BY <1>4, <2>1 DEF Apart
  <2>4. OwnTurns(h)' /\ Remembered(h)' /\ Foreign(h)'
    BY <2>2 DEF OwnTurns, Remembered, Foreign
  <2> QED
    BY <2>3, <2>4
<1>5. VainInv'
  BY <1>1 DEF TalkInv, VainInv, Healing
<1> QED
  BY <1>2, <1>3, <1>4, <1>5 DEF TalkInv

LEMMA TalkInit_Inv == TalkInit => TalkInv
<1> SUFFICES ASSUME TalkInit
             PROVE  TalkInv
  OBVIOUS
<1>1. TalkTypeOK
  <2>1. <<>> \in Seq(Turns)
    OBVIOUS
  <2> QED
    BY <2>1, NobodyType, MemoryAssumption DEF TalkInit, TalkTypeOK, TalkStages
<1>2. DOMAIN turns = {} /\ made = 0 /\ vain = 0
  BY DEF TalkInit
<1>3. \A h \in Talkers : stage[h] = "free" /\ exchange[h] = Nobody
  BY DEF TalkInit
<1>4. TurnsDated /\ Ordered
  BY <1>2 DEF TurnsDated, Ordered
<1>5. VainInv
  BY <1>2, <1>3, MemoryAssumption DEF VainInv, Trail, Healing
<1>6. \A h \in Talkers : Apart(h) /\ OwnTurns(h) /\ Remembered(h) /\ Foreign(h)
  BY <1>2, <1>3, NobodyType DEF Apart, OwnTurns, Remembered, Foreign
<1> QED
  BY <1>1, <1>4, <1>5, <1>6 DEF TalkInv

LEMMA TalkStep == TalkInv /\ [TalkNext]_talkVars => TalkInv'
<1> SUFFICES ASSUME TalkInv, [TalkNext]_talkVars
             PROVE  TalkInv'
  OBVIOUS
<1>1. CASE Clear
  BY <1>1, ClearKeeps
<1>2. CASE TalkCrash
  BY <1>2, TalkCrashKeeps
<1>3. ASSUME NEW h \in Talkers,
             \/ Ask(h) \/ Recall(h) \/ Prompt(h) \/ Send(h) \/ RoundFails(h) \/ Answers(h)
             \/ KeepCalls(h) \/ Invoke(h) \/ KeepResult(h) \/ LastWords(h) \/ KeepAnswer(h)
      PROVE  TalkInv'
  <2>1. CASE Ask(h)
    BY <2>1, AskKeeps
  <2>2. CASE Recall(h)
    BY <2>2, RecallKeeps
  <2>3. CASE Prompt(h)
    BY <2>3, PromptKeeps
  <2>4. CASE Send(h)
    BY <2>4, SendKeeps
  <2>5. CASE RoundFails(h)
    BY <2>5, EndsKeep DEF RoundFails
  <2>6. CASE Answers(h)
    BY <2>6, AnswersKeeps
  <2>7. CASE KeepCalls(h)
    BY <2>7, KeepLastKeeps DEF KeepCalls
  <2>8. CASE Invoke(h)
    BY <2>8, InvokeKeeps
  <2>9. CASE KeepResult(h)
    <3>1. PICK where \in {"tool", "last", "send", "free"} : KeepLast(h, where)
      BY <2>9 DEF KeepResult
    <3> QED
      BY <2>9, <3>1, KeepLastKeeps DEF KeepResult
  <2>10. CASE LastWords(h)
    <3>1. TalkTypeOK /\ exchange[h] \in Exchanges
      BY TurnsOf DEF TalkInv
    <3> QED
      BY <2>10, <3>1, MakesKeeps DEF LastWords
  <2>11. CASE KeepAnswer(h)
    BY <2>11, KeepLastKeeps DEF KeepAnswer
  <2> QED
    BY <1>3, <2>1, <2>2, <2>3, <2>4, <2>5, <2>6, <2>7, <2>8, <2>9, <2>10, <2>11
<1>4. CASE UNCHANGED talkVars
  <2>1. UNCHANGED <<abreast, turns, made, stage, exchange, vain, talks, talkTrouble>>
    BY <1>4 DEF talkVars
  <2>2. TalkTypeOK' /\ TurnsDated' /\ Ordered'
    BY <2>1 DEF TalkInv, TalkTypeOK, TurnsDated, Ordered
  <2>3. VainInv'
    BY <2>1 DEF TalkInv, VainInv, Healing
  <2>4. ASSUME NEW h \in Talkers
        PROVE  Apart(h)' /\ OwnTurns(h)' /\ Remembered(h)' /\ Foreign(h)'
    <3>1. Apart(h) /\ OwnTurns(h) /\ Remembered(h) /\ Foreign(h)
      BY DEF TalkInv
    <3>2. Apart(h)'
      BY <2>1, <3>1 DEF Apart
    <3>3. OwnTurns(h)'
      BY <2>1, <3>1 DEF OwnTurns
    <3> QED
      BY <2>1, <3>1, <3>2, <3>3 DEF Remembered, Foreign
  <2> QED
    BY <2>2, <2>3, <2>4 DEF TalkInv
<1> QED
  BY <1>1, <1>2, <1>3, <1>4 DEF TalkNext

\* However requests, .ai clear and failures overlap, the memory of a chat keeps the
\* order of each request, no request reads its own turns, and requests one at a time
\* are ruined by their memory at most as often in a row as the window is long.
THEOREM MemoryHeals == TalkSpec => []ConversationInv
<1>1. TalkInv => ConversationInv
  <2> SUFFICES ASSUME TalkInv
               PROVE  ConversationInv
    OBVIOUS
  <2>1. InOrder
    BY DEF TalkInv, Ordered, Foreign, InOrder
  <2>2. VainEnds
    BY DEF TalkInv, VainInv, VainEnds
  <2> QED
    BY <2>1, <2>2 DEF ConversationInv
<1> QED
  BY <1>1, TalkInit_Inv, TalkStep, PTL DEF TalkSpec

-----------------------------------------------------------------------------
(* The rows of the mute list: the invariant *)

MuteCalls == {<<"insert">>, <<"hset", "lpush", "ltrim">>, <<"lpush", "ltrim">>, <<"ltrim">>}
UnmuteCalls == {<<"update">>, <<"hdel", "lindex">>, <<"lindex">>, <<"lset">>}
ReadCalls == {<<"select">>, <<"scan", "select">>}

Rows == [n : Nat, user : Mutees, until : Nat, open : BOOLEAN]
Methods ==
  [n : Nat, user : Mutees \union {"all"}, until : Nat, calls : MuteCalls \union UnmuteCalls \union ReadCalls,
   head : SUBSET Rows]
Reads == [n : Nat, found : [Mutees -> SUBSET Nat], late : SUBSET Mutees]

\* How many of its calls a method on the log has made, and one.
Stage(m) ==
  IF m.calls \in {<<"hset", "lpush", "ltrim">>, <<"hdel", "lindex">>} THEN 1
  ELSE IF m.calls \in {<<"lpush", "ltrim">>, <<"lindex">>} THEN 2 ELSE 3

\* What a method is about.
Fits(m) ==
  /\ muteStore = "redis" => m.calls \notin {<<"insert">>, <<"update">>}
  /\ muteStore # "redis" => m.calls \in {<<"insert">>, <<"update">>, <<"select">>}
  /\ m.calls \in ReadCalls => m.user = "all" /\ m.n <= commands
  /\ m.calls \notin ReadCalls =>
       /\ m.user \in Mutees /\ m.n > 0 /\ m.n <= said[m.user].n
       /\ m.n = said[m.user].n => m.until = said[m.user].until
       /\ m.until = 0 <=> m.calls \in UnmuteCalls

MuteShape ==
  /\ muteStore \in {"postgres", "mongo", "redis"} /\ clock \in Nat /\ running \in BOOLEAN
  /\ list \in [Mutees -> Nat] /\ expiries \in [Mutees -> Nat]
  /\ muteTable \in Seq(Rows) /\ muteLog \in Seq(Rows)
  /\ pending \in Seq(Methods) /\ answers \in SUBSET Reads
  /\ commands \in Nat /\ said \in [Mutees -> [n : Nat, until : Nat]]
  /\ unsure \in SUBSET Mutees /\ unheard \in SUBSET Mutees
  /\ recorded \in SUBSET (1 .. commands) /\ clobbered \in Nat /\ hydrations \in Nat /\ muteTrouble \in Nat
  /\ commands <= MaxEvents
  /\ \A u \in Mutees : said[u].n <= commands
  /\ \A i \in DOMAIN pending : Fits(pending[i])
  /\ muteStore = "redis" => muteTable = <<>> /\ answers = {}
  /\ muteStore # "redis" => muteLog = <<>> /\ \A u \in Mutees : expiries[u] = 0
  /\ ~running => pending = <<>> /\ answers = {} /\ unheard = Mutees

\* Methods come once each, and redis takes their calls in turn.
InTurn ==
  \A i, j \in DOMAIN pending : i # j /\ pending[i].user # "all" /\ pending[j].user # "all" =>
    /\ pending[i].n # pending[j].n
    /\ muteStore = "redis" /\ pending[i].n < pending[j].n =>
         /\ Stage(pending[i]) >= Stage(pending[j])
         /\ Stage(pending[i]) = Stage(pending[j]) => i < j

-----------------------------------------------------------------------------

\* Who is muted, as the store has it.
RowTells(row, u) == row.user = u /\ row.open /\ row.until > clock
StoreTells(u) ==
  /\ muteStore = "redis" => Commands(u) = {} /\ expiries[u] = said[u].until
  /\ muteStore # "redis" =>
       /\ said[u].until = 0 => \A k \in DOMAIN muteTable : ~RowTells(muteTable[k], u)
       /\ said[u].until > clock => \E k \in DOMAIN muteTable : RowTells(muteTable[k], u) /\ muteTable[k].until = said[u].until

\* The last command on u is on its way or told, and on stores that take calls in any
\* order none of the other kind is.
Decided(u) ==
  /\ muteStore # "redis" => \A i \in Commands(u) : (pending[i].until = 0) <=> (said[u].until = 0)
  /\ StoreTells(u) \/ \E i \in Commands(u) : pending[i].n = said[u].n

AllDecided == \A u \in Mutees \ unsure : Decided(u)

-----------------------------------------------------------------------------

\* An answer tells of who had no command under way what was said until the read.
AnswerTells(a) ==
  /\ a.n <= commands
  /\ \A u \in Mutees : IsFiniteSet(a.found[u]) /\ \A t \in a.found[u] : t > clock
  /\ \A u \in Mutees \ (a.late \union unsure) : said[u].n <= a.n =>
       /\ said[u].until = 0 => a.found[u] = {}
       /\ said[u].until > clock => said[u].until \in a.found[u]

\* Who is to be heard of although the read is too old to tell is muted in the list.
StillMuted(n) == \A u \in unheard : said[u].n > n => list[u] > clock

Heard ==
  /\ \A a \in answers : AnswerTells(a) /\ StillMuted(a.n)
  /\ \A i \in DOMAIN pending : pending[i].user = "all" => StillMuted(pending[i].n)
  /\ ListTold

-----------------------------------------------------------------------------

\* The table has a row of each recorded mute and only one, and none of those to come.
RowsOnce ==
  muteStore # "redis" =>
    /\ \A n \in recorded : \E k \in DOMAIN muteTable : muteTable[k].n = n
    /\ \A k \in DOMAIN muteTable : muteTable[k].n \in recorded
    /\ \A i, j \in DOMAIN muteTable : i # j => muteTable[i].n # muteTable[j].n
    /\ \A i \in DOMAIN pending : pending[i].user # "all" => pending[i].n \notin recorded

\* What is about to be pushed is newer than all that was.
PushedInOrder ==
  muteStore = "redis" =>
    \A i \in DOMAIN pending : pending[i].user # "all" /\ Stage(pending[i]) < 3 =>
      \A n \in recorded : n < pending[i].n

\* As many were recorded after an entry as are before it in the log.
LogRanks ==
  /\ \A i \in DOMAIN muteLog : muteLog[i].n \in recorded /\ Cardinality({k \in recorded : k > muteLog[i].n}) >= i - 1
  /\ muteStore = "redis" => Cardinality(NewestRecorded \ {muteLog[i].n : i \in DOMAIN muteLog}) <= clobbered

\* A mark holds a copy of an entry that a method older than it pushed.
Marks ==
  \A i \in DOMAIN pending : pending[i].calls = <<"lset">> =>
    \E c \in pending[i].head :
      /\ pending[i].head = {c} /\ ~c.open /\ c.user = pending[i].user
      /\ c.n \in recorded /\ c.n < pending[i].n /\ muteLog # <<>>
      /\ clobbered = 0 => \A k \in DOMAIN muteLog : muteLog[k].n = c.n => muteLog[k].user = c.user

\* Unless a mark wrote over another entry, the log goes down from the last push.
LogFalls ==
  clobbered = 0 =>
    /\ \A i, j \in DOMAIN muteLog : i < j => muteLog[i].n > muteLog[j].n
    /\ muteLog # <<>> => \A n \in recorded : n <= muteLog[1].n

\* The last mute of a user is in the log or has its push before it.
PushesToCome ==
  muteStore = "redis" /\ muteTrouble = 0 =>
    \A u \in Mutees : said[u].until # 0 =>
      \/ said[u].n \in recorded
      \/ \E j \in DOMAIN pending : pending[j].user = u /\ pending[j].n = said[u].n /\ Stage(pending[j]) < 3

\* The unmute that is the last command on u has yet to look at the log.
LookToCome(u) ==
  \E j \in DOMAIN pending : pending[j].user = u /\ pending[j].n = said[u].n /\ Stage(pending[j]) < 3

LooksToCome ==
  muteStore = "redis" /\ muteTrouble = 0 =>
    \A i \in DOMAIN pending :
      LET u == pending[i].user IN
      u # "all" /\ Stage(pending[i]) < 3 /\ said[u].n > pending[i].n => LookToCome(u)

\* The newest entry is open until the unmute after it has marked it.
HeadTold ==
  muteStore = "redis" /\ muteTrouble = 0 /\ clobbered = 0 /\ muteLog # <<>> =>
    LET e == muteLog[1] IN
    /\ ~e.open => said[e.user].n > e.n
    /\ e.open /\ said[e.user].until = 0 =>
         \/ LookToCome(e.user)
         \/ \E j \in DOMAIN pending : /\ pending[j].user = e.user /\ pending[j].n = said[e.user].n
                                      /\ pending[j].calls = <<"lset">> /\ \E c \in pending[j].head : c.n = e.n

LogKept == RowsOnce /\ PushedInOrder /\ LogRanks /\ Marks /\ LogFalls /\ PushesToCome /\ LooksToCome /\ HeadTold

MuteRowsIInv == MuteShape /\ InTurn /\ AllDecided /\ Heard /\ LogKept

-----------------------------------------------------------------------------
(* Lists of methods *)

LEMMA ItemOf ==
  ASSUME NEW S, NEW s \in Seq(S)
  PROVE  /\ Len(s) \in Nat /\ DOMAIN s = 1 .. Len(s) /\ \A x \in DOMAIN s : s[x] \in S
         /\ s = <<>> <=> Len(s) = 0
BY LenProperties, ElementOfSeq, EmptySeq

LEMMA LengthAfter ==
  ASSUME NEW n \in Nat, NEW i \in 1 .. n, NEW x, x = IF i + 1 <= n THEN n - (i + 1) + 1 ELSE 0
  PROVE  x = n - i
<1>1. CASE i + 1 <= n
  <2>1. x = n - (i + 1) + 1
    BY <1>1
  <2>2. n - (i + 1) + 1 = n - i
    OBVIOUS
  <2> QED
    BY <2>1, <2>2
<1>2. CASE ~(i + 1 <= n)
  BY <1>2
<1> QED
  BY <1>1, <1>2

LEMMA TakenOut ==
  ASSUME NEW S, NEW s \in Seq(S), NEW i \in 1 .. Len(s)
  PROVE  /\ RemoveAt(s, i) \in Seq(S) /\ Len(RemoveAt(s, i)) = Len(s) - 1
         /\ \A x \in 1 .. Len(s) - 1 : RemoveAt(s, i)[x] = IF x < i THEN s[x] ELSE s[x + 1]
<1> DEFINE a == SubSeq(s, 1, i - 1)
           b == SubSeq(s, i + 1, Len(s))
<1>1. Len(s) \in Nat /\ DOMAIN s = 1 .. Len(s)
  BY ItemOf
<1>2. a \in Seq(S) /\ Len(a) = i - 1 /\ \A x \in 1 .. i - 1 : a[x] = s[x]
  BY <1>1
<1>3. b \in Seq(S) /\ Len(b) = Len(s) - i /\ \A x \in 1 .. Len(s) - i : b[x] = s[x + i]
  <2>1. \A k \in i + 1 .. Len(s) : s[k] \in S
    BY <1>1, ItemOf
  <2>2. i + 1 \in Int /\ Len(s) \in Int /\ i \in Int
    BY <1>1
  <2>3. /\ b \in Seq(S)
        /\ Len(b) = IF i + 1 <= Len(s) THEN Len(s) - (i + 1) + 1 ELSE 0
        /\ \A x \in 1 .. Len(s) - (i + 1) + 1 : b[x] = s[(i + 1) + x - 1]
    BY <2>1, <2>2, SubSeqProperties
  <2> HIDE DEF b
  <2>4. Len(b) = Len(s) - i
    BY <1>1, <2>3, LengthAfter, Zenon
  <2>5. ASSUME NEW x \in 1 .. Len(s) - i PROVE b[x] = s[x + i]
    <3>1. x \in 1 .. Len(s) - (i + 1) + 1
      BY <1>1
    <3>2. (i + 1) + x - 1 = x + i
      BY <1>1
    <3> QED
      BY <2>3, <3>1, <3>2
  <2> QED
    BY <2>3, <2>4, <2>5
<1>4. RemoveAt(s, i) = a \o b
  BY DEF RemoveAt
<1> HIDE DEF a, b
<1>5. /\ a \o b \in Seq(S) /\ Len(a \o b) = Len(a) + Len(b)
      /\ \A x \in 1 .. Len(a) + Len(b) : (a \o b)[x] = IF x <= Len(a) THEN a[x] ELSE b[x - Len(a)]
  BY <1>2, <1>3, ConcatProperties
<1>6. ASSUME NEW x \in 1 .. Len(s) - 1
      PROVE  RemoveAt(s, i)[x] = IF x < i THEN s[x] ELSE s[x + 1]
  <2>1. CASE x < i
    <3>1. x \in 1 .. i - 1
      BY <1>1, <2>1
    <3> QED
      BY <1>1, <1>2, <1>3, <1>4, <1>5, <2>1, <3>1
  <2>2. CASE ~(x < i)
    <3>1. x - (i - 1) \in 1 .. Len(s) - i /\ (x - (i - 1)) + i = x + 1
      BY <1>1, <2>2
    <3>2. b[x - (i - 1)] = s[x + 1]
      BY <1>3, <3>1
    <3> QED
      BY <1>1, <1>2, <1>3, <1>4, <1>5, <2>2, <3>2
  <2> QED
    BY <2>1, <2>2
<1> QED
  BY <1>1, <1>2, <1>3, <1>4, <1>5, <1>6

\* Where an item was before the i-th was taken out.
From(i, k) == IF k < i THEN k ELSE k + 1

\* The i-th method has made a call, and goes to the end unless it is done.
GoesOn(s, i, r, t) ==
  /\ \A k \in DOMAIN t :
       \/ k < Len(s) /\ From(i, k) \in DOMAIN s /\ From(i, k) # i /\ t[k] = s[From(i, k)]
       \/ k = Len(s) /\ r = <<t[k]>>
  /\ \A j \in DOMAIN s : j # i => \E k \in DOMAIN t : k < Len(s) /\ t[k] = s[j]
  /\ r # <<>> => Len(s) \in DOMAIN t /\ r = <<t[Len(s)]>>

LEMMA MovedOn ==
  ASSUME NEW S, NEW s \in Seq(S), NEW i \in DOMAIN s, NEW r, r = <<>> \/ \E x \in S : r = <<x>>,
         NEW t, t = RemoveAt(s, i) \o r
  PROVE  t \in Seq(S) /\ GoesOn(s, i, r, t)
<1> DEFINE q == RemoveAt(s, i)
<1>1. Len(s) \in Nat /\ DOMAIN s = 1 .. Len(s) /\ i \in 1 .. Len(s)
  BY ItemOf
<1>2. /\ q \in Seq(S) /\ Len(q) = Len(s) - 1
      /\ \A x \in 1 .. Len(s) - 1 : q[x] = IF x < i THEN s[x] ELSE s[x + 1]
  BY <1>1, TakenOut
<1> HIDE DEF q
<1>3. r \in Seq(S) /\ ((r = <<>> /\ Len(r) = 0) \/ (r = <<r[1]>> /\ Len(r) = 1))
  <2>1. CASE r = <<>>
    BY <2>1
  <2>2. ASSUME NEW x \in S, r = <<x>> PROVE r \in Seq(S) /\ r = <<r[1]>> /\ Len(r) = 1
    BY <2>2
  <2> QED
    BY <2>1, <2>2
<1>4. /\ t \in Seq(S) /\ Len(t) = Len(s) - 1 + Len(r)
      /\ \A x \in 1 .. Len(s) - 1 + Len(r) : t[x] = IF x <= Len(s) - 1 THEN q[x] ELSE r[x - (Len(s) - 1)]
  <2>1. t = q \o r
    BY DEF q
  <2>2. /\ q \o r \in Seq(S) /\ Len(q \o r) = Len(q) + Len(r)
        /\ \A x \in 1 .. Len(q) + Len(r) : (q \o r)[x] = IF x <= Len(q) THEN q[x] ELSE r[x - Len(q)]
    BY <1>2, <1>3, ConcatProperties, Zenon
  <2> QED
    BY <1>2, <2>1, <2>2, Zenon
<1>5. DOMAIN t = 1 .. Len(s) - 1 + Len(r)
  BY <1>4, ItemOf
<1>6. ASSUME NEW k \in DOMAIN t
      PROVE \/ k < Len(s) /\ From(i, k) \in DOMAIN s /\ From(i, k) # i /\ t[k] = s[From(i, k)]
            \/ k = Len(s) /\ r = <<t[k]>>
  <2>1. CASE k < Len(s)
    <3>1. k \in 1 .. Len(s) - 1 /\ k <= Len(s) - 1
      BY <1>1, <1>5, <2>1
    <3>2. From(i, k) \in DOMAIN s /\ From(i, k) # i
      BY <1>1, <3>1 DEF From
    <3>3. t[k] = q[k]
      BY <1>4, <1>5, <3>1
    <3>4. q[k] = s[From(i, k)]
      BY <1>2, <3>1 DEF From
    <3> QED
      BY <2>1, <3>2, <3>3, <3>4
  <2>2. CASE ~(k < Len(s))
    <3>1. k = Len(s) /\ Len(r) = 1
      BY <1>1, <1>3, <1>5, <2>2
    <3>2. k - (Len(s) - 1) = 1 /\ ~(k <= Len(s) - 1)
      BY <1>1, <3>1
    <3>3. t[k] = r[1]
      BY <1>4, <1>5, <3>2
    <3> QED
      BY <1>3, <3>1, <3>3
  <2> QED
    BY <2>1, <2>2
<1>7. ASSUME NEW j \in DOMAIN s, j # i PROVE \E k \in DOMAIN t : k < Len(s) /\ t[k] = s[j]
  <2> DEFINE k == IF j < i THEN j ELSE j - 1
  <2>1. k \in 1 .. Len(s) - 1 /\ k \in DOMAIN t /\ k < Len(s) /\ k <= Len(s) - 1
    BY <1>1, <1>3, <1>5, <1>7
  <2>2. q[k] = s[j]
    BY <1>1, <1>2, <1>7, <2>1
  <2> QED
    BY <1>4, <1>5, <2>1, <2>2
<1>8. ASSUME r # <<>> PROVE Len(s) \in DOMAIN t /\ r = <<t[Len(s)]>>
  <2>1. Len(s) \in DOMAIN t
    BY <1>1, <1>3, <1>5, <1>8
  <2> QED
    BY <1>1, <1>6, <2>1
<1> QED
  BY <1>4, <1>6, <1>7, <1>8, Zenon DEF GoesOn

-----------------------------------------------------------------------------
(* What a call does, as a step *)

\* The log is left alone, or the table, or the list.
LogStays == UNCHANGED <<muteLog, recorded, clobbered>>
ListStays == UNCHANGED <<list, unheard, answers>>
Writes == UNCHANGED <<unsure, muteTrouble>>

Inserts(m, r) ==
  /\ m.calls = <<"insert">> /\ r = <<>>
  /\ muteTable' = Append(muteTable, Entry(m)) /\ recorded' = recorded \union {m.n}
  /\ UNCHANGED <<expiries, muteLog, clobbered>> /\ ListStays /\ Writes
Updates(m, r) ==
  /\ m.calls = <<"update">> /\ r = <<>>
  /\ muteTable' = [i \in DOMAIN muteTable |-> Closed(muteTable[i], m)]
  /\ UNCHANGED expiries /\ LogStays /\ ListStays /\ Writes
Sets(m, r) ==
  /\ \/ m.calls = <<"hset", "lpush", "ltrim">> /\ r = <<[m EXCEPT !.calls = <<"lpush", "ltrim">>]>>
     \/ m.calls = <<"hdel", "lindex">> /\ r = <<[m EXCEPT !.calls = <<"lindex">>]>>
  /\ expiries' = [expiries EXCEPT ![m.user] = m.until]
  /\ UNCHANGED muteTable /\ LogStays /\ ListStays /\ Writes
Pushes(m, r) ==
  /\ m.calls = <<"lpush", "ltrim">> /\ r = <<[m EXCEPT !.calls = <<"ltrim">>]>>
  /\ muteLog' = <<Entry(m)>> \o muteLog /\ recorded' = recorded \union {m.n}
  /\ UNCHANGED <<muteTable, expiries, clobbered>> /\ ListStays /\ Writes
Trims(m, r) ==
  /\ m.calls = <<"ltrim">> /\ r = <<>>
  /\ muteLog' = FirstOf(muteLog, LogLength)
  /\ UNCHANGED <<muteTable, expiries, recorded, clobbered>> /\ ListStays /\ Writes
Looks(m, r) ==
  /\ m.calls = <<"lindex">>
  /\ \/ MarksHead(m) /\ r = <<[m EXCEPT !.calls = <<"lset">>, !.head = {[muteLog[1] EXCEPT !.open = FALSE]}]>>
     \/ ~MarksHead(m) /\ r = <<>>
  /\ UNCHANGED <<muteTable, expiries>> /\ LogStays /\ ListStays /\ Writes
MarksIt(m, r) ==
  /\ m.calls = <<"lset">> /\ r = <<>>
  /\ muteLog' = [muteLog EXCEPT ![1] = CHOOSE e \in m.head : TRUE]
  /\ clobbered' = IF \A e \in m.head : e.n # muteLog[1].n THEN clobbered + 1 ELSE clobbered
  /\ UNCHANGED <<muteTable, expiries, recorded>> /\ ListStays /\ Writes
Scans(m, r) ==
  /\ m.calls = <<"scan", "select">> /\ (r = <<>> \/ r = <<[m EXCEPT !.calls = <<"select">>]>>)
  /\ UNCHANGED <<muteTable, expiries>> /\ LogStays /\ ListStays /\ Writes
Selects(m, r) ==
  /\ m.calls = <<"select">> /\ r = <<>>
  /\ \/ muteStore = "redis" /\ Hydrates(Found(m)) /\ UNCHANGED answers
     \/ muteStore # "redis" /\ answers' = answers \union {Found(m)} /\ UNCHANGED <<list, unheard>>
  /\ UNCHANGED <<muteTable, expiries>> /\ LogStays /\ Writes
GivesUp(m, r) ==
  /\ r = <<>> /\ muteTrouble' = muteTrouble + 1 /\ unsure' = unsure \union Blamed(m)
  /\ UNCHANGED <<muteTable, expiries>> /\ LogStays /\ ListStays

CallMade(i, r) ==
  LET m == pending[i] IN
  /\ i \in DOMAIN pending /\ (muteStore = "redis" => i = 1)
  /\ pending' = RemoveAt(pending, i) \o r
  /\ \/ Inserts(m, r) \/ Updates(m, r) \/ Sets(m, r) \/ Pushes(m, r) \/ Trims(m, r)
     \/ Looks(m, r) \/ MarksIt(m, r) \/ Scans(m, r) \/ Selects(m, r) \/ GivesUp(m, r)
  /\ UNCHANGED <<muteStore, clock, running, commands, said, hydrations>>

LEMMA StoreCalls ==
  ASSUME MuteShape, StoreTakes
  PROVE  running /\ \E i, r : CallMade(i, r)
<1>1. PICK i \in DOMAIN pending :
        /\ muteStore = "redis" => i = 1
        /\ \/ Succeed(pending[i]) /\ pending' = RemoveAt(pending, i) \o Rest(pending[i])
           \/ Fail(pending[i]) /\ pending' = RemoveAt(pending, i)
  BY DEF StoreTakes
<1> DEFINE m == pending[i]
<1>2. m \in Methods /\ running /\ UNCHANGED <<muteStore, clock, running, commands, said, hydrations>>
  BY ItemOf DEF MuteShape, StoreTakes
<1>3. ASSUME Fail(m), pending' = RemoveAt(pending, i) PROVE CallMade(i, <<>>)
  <2>1. RemoveAt(pending, i) \in Seq(Methods)
    BY <1>1, ItemOf, TakenOut DEF MuteShape
  <2>2. RemoveAt(pending, i) \o <<>> = RemoveAt(pending, i)
    BY <2>1, ConcatEmptySeq
  <2>3. GivesUp(m, <<>>)
    BY <1>3 DEF Fail, GivesUp, LogStays, ListStays
  <2> QED
    BY <1>1, <1>2, <1>3, <2>2, <2>3 DEF CallMade
<1>4. ASSUME Succeed(m), pending' = RemoveAt(pending, i) \o Rest(m) PROVE CallMade(i, Rest(m))
  <2> HIDE DEF m
  <2>1. CASE m.calls = <<"insert">>
    <3>1. Inserts(m, Rest(m))
      BY <1>4, <2>1 DEF Succeed, Rest, Inserts, LogStays, ListStays, Writes
    <3> QED
      BY <1>1, <1>2, <1>4, <3>1 DEF CallMade, m
  <2>2. CASE m.calls = <<"update">>
    <3>1. Updates(m, Rest(m))
      BY <1>4, <2>2 DEF Succeed, Rest, Updates, LogStays, ListStays, Writes
    <3> QED
      BY <1>1, <1>2, <1>4, <3>1 DEF CallMade, m
  <2>3. CASE m.calls = <<"hset", "lpush", "ltrim">> \/ m.calls = <<"hdel", "lindex">>
    <3>1. /\ m.calls = <<"hset", "lpush", "ltrim">> => Rest(m) = <<[m EXCEPT !.calls = <<"lpush", "ltrim">>]>>
          /\ m.calls = <<"hdel", "lindex">> => Rest(m) = <<[m EXCEPT !.calls = <<"lindex">>]>>
      <4>1. CASE m.calls = <<"hset", "lpush", "ltrim">>
        BY <4>1 DEF Rest
      <4>2. CASE m.calls = <<"hdel", "lindex">>
        BY <4>2 DEF Rest
      <4> QED
        BY <2>3, <4>1, <4>2
    <3>2. expiries' = [expiries EXCEPT ![m.user] = m.until]
      BY <1>4, <2>3 DEF Succeed
    <3>3. UNCHANGED muteTable /\ LogStays /\ ListStays /\ Writes
      BY <1>4, <2>3 DEF Succeed, LogStays, ListStays, Writes
    <3>4. Sets(m, Rest(m))
      BY <2>3, <3>1, <3>2, <3>3 DEF Sets
    <3> QED
      BY <1>1, <1>2, <1>4, <3>4 DEF CallMade, m
  <2>4. CASE m.calls = <<"lpush", "ltrim">>
    <3>1. Pushes(m, Rest(m))
      BY <1>4, <2>4 DEF Succeed, Rest, Pushes, LogStays, ListStays, Writes
    <3> QED
      BY <1>1, <1>2, <1>4, <3>1 DEF CallMade, m
  <2>5. CASE m.calls = <<"ltrim">>
    <3>1. Rest(m) = <<>>
      BY <2>5 DEF Rest
    <3>2. muteLog' = FirstOf(muteLog, LogLength)
      BY <1>4, <2>5 DEF Succeed
    <3>3. UNCHANGED <<muteTable, expiries, recorded, clobbered>> /\ ListStays /\ Writes
      BY <1>4, <2>5 DEF Succeed, ListStays, Writes
    <3>4. Trims(m, Rest(m))
      BY <2>5, <3>1, <3>2, <3>3 DEF Trims
    <3> QED
      BY <1>1, <1>2, <1>4, <3>4 DEF CallMade, m
  <2>6. CASE m.calls = <<"lindex">>
    <3>1. Looks(m, Rest(m))
      BY <1>4, <2>6 DEF Succeed, Rest, Looks, LogStays, ListStays, Writes
    <3> QED
      BY <1>1, <1>2, <1>4, <3>1 DEF CallMade, m
  <2>7. CASE m.calls = <<"lset">>
    <3>1. MarksIt(m, Rest(m))
      BY <1>4, <2>7 DEF Succeed, Rest, MarksIt, LogStays, ListStays, Writes
    <3> QED
      BY <1>1, <1>2, <1>4, <3>1 DEF CallMade, m
  <2>8. CASE m.calls = <<"scan", "select">>
    <3>1. Scans(m, Rest(m))
      BY <1>4, <2>8 DEF Succeed, Rest, Scans, LogStays, ListStays, Writes
    <3> QED
      BY <1>1, <1>2, <1>4, <3>1 DEF CallMade, m
  <2>9. CASE m.calls = <<"select">>
    <3>1. Selects(m, Rest(m))
      BY <1>4, <2>9 DEF Succeed, Rest, Selects, LogStays, ListStays, Writes
    <3> QED
      BY <1>1, <1>2, <1>4, <3>1 DEF CallMade, m
  <2> QED
    BY <1>2, <2>1, <2>2, <2>3, <2>4, <2>5, <2>6, <2>7, <2>8, <2>9 DEF Methods, MuteCalls, UnmuteCalls, ReadCalls
<1> QED
  BY <1>1, <1>2, <1>3, <1>4

\* What is left of a method is about the same.
Leaves(m, x) ==
  /\ x \in Methods /\ Fits(x) /\ x.n = m.n /\ x.user = m.user /\ x.until = m.until
  /\ m.user # "all" => Stage(x) = Stage(m) + 1

LEMMA CallLeaves ==
  ASSUME MuteShape, NEW i, NEW r, CallMade(i, r)
  PROVE  /\ i \in DOMAIN pending /\ pending[i] \in Methods /\ Fits(pending[i])
         /\ r = <<>> \/ \E x \in Methods : r = <<x>> /\ Leaves(pending[i], x)
<1> DEFINE m == pending[i]
<1>1. i \in DOMAIN pending /\ m \in Methods /\ Fits(m) /\ muteLog \in Seq(Rows)
  BY ItemOf DEF MuteShape, CallMade
<1> HIDE DEF m
<1>2. ASSUME NEW c, m.calls # c, NEW x, x = [m EXCEPT !.calls = c]
      PROVE  x = [n |-> m.n, user |-> m.user, until |-> m.until, calls |-> c, head |-> m.head]
  BY <1>1, <1>2 DEF Methods
<1>3. ASSUME Sets(m, r) PROVE \E x \in Methods : r = <<x>> /\ Leaves(m, x)
  <2>1. CASE m.calls = <<"hset", "lpush", "ltrim">>
    <3>1. PICK x : x = [m EXCEPT !.calls = <<"lpush", "ltrim">>] /\ r = <<x>>
      BY <1>3, <2>1 DEF Sets
    <3>2. x = [n |-> m.n, user |-> m.user, until |-> m.until, calls |-> <<"lpush", "ltrim">>, head |-> m.head]
      BY <1>2, <2>1, <3>1
    <3>3. x \in Methods
      BY <1>1, <3>2 DEF Methods, MuteCalls
    <3>4. Fits(x)
      BY <1>1, <2>1, <3>2 DEF Fits, MuteCalls, UnmuteCalls, ReadCalls
    <3>5. Stage(x) = Stage(m) + 1
      BY <2>1, <3>2 DEF Stage
    <3> QED
      BY <3>1, <3>2, <3>3, <3>4, <3>5 DEF Leaves
  <2>2. CASE m.calls = <<"hdel", "lindex">>
    <3>1. PICK x : x = [m EXCEPT !.calls = <<"lindex">>] /\ r = <<x>>
      BY <1>3, <2>2 DEF Sets
    <3>2. x = [n |-> m.n, user |-> m.user, until |-> m.until, calls |-> <<"lindex">>, head |-> m.head]
      BY <1>2, <2>2, <3>1
    <3>3. x \in Methods
      BY <1>1, <3>2 DEF Methods, UnmuteCalls
    <3>4. Fits(x)
      BY <1>1, <2>2, <3>2 DEF Fits, MuteCalls, UnmuteCalls, ReadCalls
    <3>5. Stage(x) = Stage(m) + 1
      BY <2>2, <3>2 DEF Stage
    <3> QED
      BY <3>1, <3>2, <3>3, <3>4, <3>5 DEF Leaves
  <2> QED
    BY <1>3, <2>1, <2>2 DEF Sets
<1>4. ASSUME Pushes(m, r) PROVE \E x \in Methods : r = <<x>> /\ Leaves(m, x)
  <2>1. PICK x : x = [m EXCEPT !.calls = <<"ltrim">>] /\ r = <<x>> /\ m.calls = <<"lpush", "ltrim">>
    BY <1>4 DEF Pushes
  <2>2. x = [n |-> m.n, user |-> m.user, until |-> m.until, calls |-> <<"ltrim">>, head |-> m.head]
    BY <1>2, <2>1
  <2>3. x \in Methods
    BY <1>1, <2>2 DEF Methods, MuteCalls
  <2>4. Fits(x)
    BY <1>1, <2>1, <2>2 DEF Fits, MuteCalls, UnmuteCalls, ReadCalls
  <2>5. Stage(x) = Stage(m) + 1
    BY <2>1, <2>2 DEF Stage
  <2> QED
    BY <2>1, <2>2, <2>3, <2>4, <2>5 DEF Leaves
<1>5. ASSUME Looks(m, r), r # <<>> PROVE \E x \in Methods : r = <<x>> /\ Leaves(m, x)
  <2> DEFINE c == [muteLog[1] EXCEPT !.open = FALSE]
  <2>1. PICK x : x = [m EXCEPT !.calls = <<"lset">>, !.head = {c}] /\ r = <<x>> /\ m.calls = <<"lindex">> /\ MarksHead(m)
    BY <1>5 DEF Looks
  <2>2. 1 \in DOMAIN muteLog
    BY <1>1, <2>1, ItemOf DEF MarksHead
  <2>3. c \in Rows
    <3>1. muteLog[1] \in Rows
      BY <1>1, <2>2, ItemOf
    <3> QED
      BY <3>1 DEF Rows
  <2> HIDE DEF c
  <2>4. x = [n |-> m.n, user |-> m.user, until |-> m.until, calls |-> <<"lset">>, head |-> {c}]
    BY <1>1, <2>1 DEF Methods
  <2>5. x \in Methods
    BY <1>1, <2>3, <2>4 DEF Methods, UnmuteCalls
  <2>6. Fits(x)
    BY <1>1, <2>1, <2>4 DEF Fits, MuteCalls, UnmuteCalls, ReadCalls
  <2>7. Stage(x) = Stage(m) + 1
    BY <2>1, <2>4 DEF Stage
  <2> QED
    BY <2>1, <2>4, <2>5, <2>6, <2>7 DEF Leaves
<1>6. ASSUME Scans(m, r), r # <<>> PROVE \E x \in Methods : r = <<x>> /\ Leaves(m, x)
  <2>1. PICK x : x = [m EXCEPT !.calls = <<"select">>] /\ r = <<x>> /\ m.calls = <<"scan", "select">>
    BY <1>6 DEF Scans
  <2>2. x = [n |-> m.n, user |-> m.user, until |-> m.until, calls |-> <<"select">>, head |-> m.head]
    BY <1>2, <2>1
  <2>3. x \in Methods
    BY <1>1, <2>2 DEF Methods, ReadCalls
  <2>4. Fits(x)
    BY <1>1, <2>1, <2>2 DEF Fits, MuteCalls, UnmuteCalls, ReadCalls
  <2>5. m.user = "all"
    BY <1>1, <2>1 DEF Fits, ReadCalls
  <2> QED
    BY <2>1, <2>2, <2>3, <2>4, <2>5 DEF Leaves
<1>7. r = <<>> \/ Sets(m, r) \/ Pushes(m, r) \/ (Looks(m, r) /\ r # <<>>) \/ (Scans(m, r) /\ r # <<>>)
  BY DEF CallMade, Inserts, Updates, Trims, Looks, MarksIt, Scans, Selects, GivesUp, m
<1>8. r = <<>> \/ \E x \in Methods : r = <<x>> /\ Leaves(m, x)
  BY <1>3, <1>4, <1>5, <1>6, <1>7, Zenon
<1> QED
  BY <1>1, <1>8 DEF m

\* Every method goes on as it was but for the one whose call was made.
LEMMA CallPending ==
  ASSUME MuteShape, NEW i, NEW r, CallMade(i, r)
  PROVE  /\ pending' \in Seq(Methods)
         /\ \A k \in DOMAIN pending' :
              \/ k < Len(pending) /\ From(i, k) \in DOMAIN pending /\ From(i, k) # i /\ pending'[k] = pending[From(i, k)]
              \/ k = Len(pending) /\ r = <<pending'[k]>> /\ Leaves(pending[i], pending'[k])
         /\ \A j \in DOMAIN pending : j # i => \E k \in DOMAIN pending' : k < Len(pending) /\ pending'[k] = pending[j]
         /\ r # <<>> => Len(pending) \in DOMAIN pending' /\ r = <<pending'[Len(pending)]>>
<1>1. /\ i \in DOMAIN pending /\ pending \in Seq(Methods) /\ pending' = RemoveAt(pending, i) \o r
  BY DEF CallMade, MuteShape
<1>2. r = <<>> \/ \E x \in Methods : r = <<x>> /\ Leaves(pending[i], x)
  BY CallLeaves
<1>3. r = <<>> \/ \E x \in Methods : r = <<x>>
  BY <1>2
<1>4. \A y : r = <<y>> => Leaves(pending[i], y)
  BY <1>2
<1>5. /\ pending' \in Seq(Methods)
      /\ \A k \in DOMAIN pending' :
           \/ k < Len(pending) /\ From(i, k) \in DOMAIN pending /\ From(i, k) # i /\ pending'[k] = pending[From(i, k)]
           \/ k = Len(pending) /\ r = <<pending'[k]>>
      /\ \A j \in DOMAIN pending : j # i => \E k \in DOMAIN pending' : k < Len(pending) /\ pending'[k] = pending[j]
      /\ r # <<>> => Len(pending) \in DOMAIN pending' /\ r = <<pending'[Len(pending)]>>
  <2>1. pending' \in Seq(Methods) /\ GoesOn(pending, i, r, pending')
    BY <1>1, <1>3, MovedOn
  <2> QED
    BY <2>1 DEF GoesOn
<1> QED
  BY <1>4, <1>5, Zenon

-----------------------------------------------------------------------------
(* What stays well formed *)

LEMMA ActiveTypes ==
  ASSUME MuteShape
  PROVE  /\ ActiveMutes \in [Mutees -> SUBSET Nat]
         /\ \A u \in Mutees : \A t \in ActiveMutes[u] : t > clock
<1>1. ASSUME NEW u \in Mutees PROVE ActiveMutes[u] \in SUBSET Nat /\ \A t \in ActiveMutes[u] : t > clock
  <2>1. /\ \A row \in ToSet(muteTable) : row.until \in Nat
        /\ expiries[u] \in Nat /\ clock \in Nat
    <3>1. ASSUME NEW row \in ToSet(muteTable) PROVE row \in Rows
      BY ItemOf DEF MuteShape, ToSet
    <3> QED
      BY <3>1 DEF Rows, MuteShape
  <2>2. ASSUME NEW t \in {row.until : row \in ActiveRows(u)} PROVE t \in Nat /\ t > clock
    BY <2>1 DEF ActiveRows
  <2>3. ASSUME NEW t \in {expiries[u]} \ (0 .. clock) PROVE t \in Nat /\ t > clock
    BY <2>1
  <2>4. \/ ActiveMutes[u] = {row.until : row \in ActiveRows(u)}
        \/ ActiveMutes[u] = {expiries[u]} \ (0 .. clock)
    BY DEF ActiveMutes, PostgresActive, MongoActive, RedisActive
  <2> QED
    BY <2>2, <2>3, <2>4
<1>2. ActiveMutes = [u \in Mutees |-> ActiveMutes[u]]
  BY DEF ActiveMutes
<1> QED
  BY <1>1, <1>2

LEMMA FoundTypes ==
  ASSUME MuteShape, NEW m \in Methods
  PROVE  Found(m) \in Reads /\ Found(m).n = m.n /\ Found(m).found = ActiveMutes
         /\ Found(m).late = {u \in Mutees : Commands(u) # {}}
BY ActiveTypes DEF Found, Reads, Methods

\* An entry of the list is one that was found, or stays.
LEMMA Hydrated ==
  ASSUME NEW a \in Reads, list \in [Mutees -> Nat], Hydrates(a)
  PROVE  /\ list' \in [Mutees -> Nat] /\ unheard' \in SUBSET Mutees
         /\ \E v \in [Mutees -> Nat] :
              /\ \A u \in Mutees :
                   /\ v[u] = 0 => a.found[u] = {} \/ 0 \in a.found[u]
                   /\ v[u] # 0 => v[u] \in a.found[u]
                   /\ list'[u] = IF v[u] = 0 THEN list[u] ELSE v[u]
              /\ unheard' = Misheard(a, v)
<1>1. PICK v \in [Mutees -> {0} \union UNION {a.found[u] : u \in Mutees}] :
        /\ \A u \in Mutees : v[u] \in IF a.found[u] = {} THEN {0} ELSE a.found[u]
        /\ list' = Refilled(a, v)
        /\ unheard' = Misheard(a, v)
  BY DEF Hydrates
<1>2. ASSUME NEW u \in Mutees PROVE v[u] \in Nat /\ (v[u] = 0 => a.found[u] = {} \/ 0 \in a.found[u]) /\ (v[u] # 0 => v[u] \in a.found[u])
  BY <1>1 DEF Reads
<1>3. v \in [Mutees -> Nat]
  BY <1>1, <1>2
<1>4. \A u \in Mutees : list'[u] = IF v[u] = 0 THEN list[u] ELSE v[u]
  BY <1>1 DEF Refilled
<1>5. list' \in [Mutees -> Nat]
  BY <1>1, <1>3 DEF Refilled
<1>6. unheard' \in SUBSET Mutees
  BY <1>1 DEF Misheard
<1> QED
  BY <1>1, <1>2, <1>3, <1>4, <1>5, <1>6

LEMMA EntryRow == ASSUME NEW m \in Methods, m.user \in Mutees PROVE Entry(m) \in Rows
BY DEF Entry, Rows, Methods

LEMMA FirstOnes ==
  ASSUME NEW S, NEW s \in Seq(S), NEW n \in Nat
  PROVE  /\ FirstOf(s, n) \in Seq(S)
         /\ \A k \in DOMAIN FirstOf(s, n) : k \in DOMAIN s /\ FirstOf(s, n)[k] = s[k]
         /\ \A k \in DOMAIN s : k <= n => k \in DOMAIN FirstOf(s, n)
<1> DEFINE m == IF n < Len(s) THEN n ELSE Len(s)
<1>1. Len(s) \in Nat /\ DOMAIN s = 1 .. Len(s) /\ \A k \in DOMAIN s : s[k] \in S
  BY ItemOf
<1>2. m \in Nat /\ m <= Len(s) /\ \A k \in Nat : k <= n /\ k <= Len(s) => k <= m
  BY <1>1
<1>3. FirstOf(s, n) = SubSeq(s, 1, m)
  BY DEF FirstOf
<1> HIDE DEF m
<1>4. SubSeq(s, 1, m) \in Seq(S) /\ Len(SubSeq(s, 1, m)) = m /\ \A k \in 1 .. m : SubSeq(s, 1, m)[k] = s[k]
  <2>1. \A k \in 1 .. m : s[k] \in S
    BY <1>1, <1>2
  <2>2. /\ SubSeq(s, 1, m) \in Seq(S)
        /\ Len(SubSeq(s, 1, m)) = IF 1 <= m THEN m - 1 + 1 ELSE 0
        /\ \A k \in 1 .. m - 1 + 1 : SubSeq(s, 1, m)[k] = s[1 + k - 1]
    BY <1>2, <2>1, SubSeqProperties
  <2>3. \A x : x = (IF 1 <= m THEN m - 1 + 1 ELSE 0) => x = m
    BY <1>2
  <2>4. m - 1 + 1 = m /\ \A k \in 1 .. m : 1 + k - 1 = k
    BY <1>2
  <2> QED
    BY <2>2, <2>3, <2>4
<1>5. DOMAIN SubSeq(s, 1, m) = 1 .. m
  BY <1>4, ItemOf
<1>6. ASSUME NEW k \in 1 .. m PROVE k \in DOMAIN s
  BY <1>1, <1>2
<1>7. ASSUME NEW k \in DOMAIN s, k <= n PROVE k \in 1 .. m
  BY <1>1, <1>2, <1>7
<1> QED
  BY <1>3, <1>4, <1>5, <1>6, <1>7

LEMMA Prefixed ==
  ASSUME NEW S, NEW s \in Seq(S), NEW e \in S
  PROVE  /\ <<e>> \o s \in Seq(S) /\ Len(<<e>> \o s) = Len(s) + 1
         /\ DOMAIN (<<e>> \o s) = 1 .. Len(s) + 1
         /\ (<<e>> \o s)[1] = e
         /\ \A k \in 1 .. Len(s) : (<<e>> \o s)[k + 1] = s[k]
<1>1. <<e>> \in Seq(S) /\ Len(<<e>>) = 1 /\ <<e>>[1] = e
  OBVIOUS
<1>2. Len(s) \in Nat
  BY ItemOf
<1> DEFINE t == <<e>> \o s
<1>3. t \in Seq(S) /\ Len(t) = 1 + Len(s) /\ \A k \in 1 .. 1 + Len(s) : t[k] = IF k <= 1 THEN <<e>>[k] ELSE s[k - 1]
  BY <1>1, ConcatProperties
<1> HIDE DEF t
<1>4. DOMAIN t = 1 .. Len(s) + 1 /\ Len(t) = Len(s) + 1
  BY <1>2, <1>3, ItemOf
<1>5. t[1] = e
  BY <1>1, <1>2, <1>3
<1>6. ASSUME NEW k \in 1 .. Len(s) PROVE t[k + 1] = s[k]
  <2>1. k + 1 \in 1 .. 1 + Len(s) /\ ~(k + 1 <= 1) /\ (k + 1) - 1 = k
    BY <1>2
  <2> QED
    BY <1>3, <2>1
<1> QED
  BY <1>3, <1>4, <1>5, <1>6 DEF t

LEMMA CallShape ==
  ASSUME MuteShape, Marks, NEW i, NEW r, CallMade(i, r)
  PROVE  MuteShape'
<1> DEFINE m == pending[i]
<1>1. m \in Methods /\ Fits(m) /\ pending' \in Seq(Methods)
  BY CallLeaves, CallPending
<1>2. UNCHANGED <<muteStore, clock, running, commands, said, hydrations>>
  BY DEF CallMade
<1>3. ASSUME NEW k \in DOMAIN pending' PROVE Fits(pending'[k])
  <2>1. \/ From(i, k) \in DOMAIN pending /\ pending'[k] = pending[From(i, k)]
        \/ Leaves(m, pending'[k])
    BY CallPending
  <2> QED
    BY <2>1 DEF MuteShape, Leaves
<1>4. \A k \in DOMAIN pending' : Fits(pending[k])'
  BY <1>2, <1>3 DEF Fits
<1>5. running
  <2>1. pending # <<>>
    BY CallLeaves, ItemOf DEF MuteShape
  <2> QED
    BY <2>1 DEF MuteShape
<1> HIDE DEF m
<1>6. ASSUME m.calls \notin ReadCalls PROVE m.user \in Mutees /\ m.n \in 1 .. commands
  <2>1. m.user \in Mutees /\ m.n > 0 /\ m.n <= said[m.user].n
    BY <1>1, <1>6 DEF Fits
  <2>2. said[m.user].n \in Nat /\ said[m.user].n <= commands /\ commands \in Nat /\ m.n \in Nat
    BY <1>1, <2>1 DEF MuteShape, Methods
  <2> QED
    BY <2>1, <2>2
<1>7. /\ muteTable' \in Seq(Rows) /\ muteLog' \in Seq(Rows) /\ expiries' \in [Mutees -> Nat]
      /\ recorded' \in SUBSET (1 .. commands) /\ clobbered' \in Nat
      /\ list' \in [Mutees -> Nat] /\ unheard' \in SUBSET Mutees /\ answers' \in SUBSET Reads
      /\ unsure' \in SUBSET Mutees /\ muteTrouble' \in Nat
      /\ muteStore = "redis" => muteTable' = <<>> /\ answers' = {}
      /\ muteStore # "redis" => muteLog' = <<>> /\ \A u \in Mutees : expiries'[u] = 0
  <2>1. CASE Inserts(m, r)
    <3>1. m.user \in Mutees /\ m.n \in 1 .. commands /\ Entry(m) \in Rows /\ muteStore # "redis"
      BY <1>1, <1>6, <2>1, EntryRow DEF Inserts, ReadCalls, Fits
    <3>2. muteTable' \in Seq(Rows)
      BY <2>1, <3>1, AppendProperties DEF MuteShape, Inserts
    <3> QED
      BY <2>1, <3>1, <3>2 DEF MuteShape, Inserts, ListStays, Writes
  <2>2. CASE Updates(m, r)
    <3>1. ASSUME NEW k \in DOMAIN muteTable PROVE Closed(muteTable[k], m) \in Rows
      <4>1. muteTable[k] \in Rows
        BY ItemOf DEF MuteShape
      <4> QED
        BY <4>1 DEF Closed, Rows
    <3>2. muteTable' \in Seq(Rows)
      <4>1. Len(muteTable) \in Nat /\ DOMAIN muteTable = 1 .. Len(muteTable)
        BY ItemOf DEF MuteShape
      <4>2. muteTable' = [k \in 1 .. Len(muteTable) |-> Closed(muteTable[k], m)]
        BY <2>2, <4>1 DEF Updates
      <4> QED
        BY <3>1, <4>1, <4>2
    <3>3. muteStore # "redis"
      BY <1>1, <2>2 DEF Updates, Fits
    <3> QED
      BY <2>2, <3>2, <3>3 DEF MuteShape, Updates, LogStays, ListStays, Writes
  <2>3. CASE Sets(m, r)
    <3>1. m.user \in Mutees /\ m.until \in Nat /\ muteStore = "redis"
      BY <1>1, <1>6, <2>3 DEF Sets, ReadCalls, Fits, Methods
    <3> QED
      BY <2>3, <3>1 DEF MuteShape, Sets, LogStays, ListStays, Writes
  <2>4. CASE Pushes(m, r)
    <3>1. m.user \in Mutees /\ m.n \in 1 .. commands /\ Entry(m) \in Rows /\ muteStore = "redis"
      BY <1>1, <1>6, <2>4, EntryRow DEF Pushes, ReadCalls, Fits
    <3>2. muteLog' \in Seq(Rows)
      BY <2>4, <3>1, Prefixed DEF MuteShape, Pushes
    <3> QED
      BY <2>4, <3>1, <3>2 DEF MuteShape, Pushes, ListStays, Writes
  <2>5. CASE Trims(m, r)
    <3>1. LogLength \in Nat
      BY MuteRowsAssumption
    <3>2. muteLog' \in Seq(Rows) /\ muteStore = "redis"
      BY <1>1, <2>5, <3>1, FirstOnes DEF MuteShape, Trims, Fits
    <3> QED
      BY <2>5, <3>2 DEF MuteShape, Trims, ListStays, Writes
  <2>6. CASE Looks(m, r)
    BY <2>6 DEF MuteShape, Looks, LogStays, ListStays, Writes
  <2>7. CASE MarksIt(m, r)
    <3>1. muteStore = "redis" /\ clobbered' \in Nat
      BY <1>1, <2>7 DEF MuteShape, MarksIt, Fits
    <3>2. muteLog' \in Seq(Rows)
      <4>1. PICK c : c = CHOOSE e \in m.head : TRUE
        OBVIOUS
      <4>2. muteLog' = [muteLog EXCEPT ![1] = c]
        BY <2>7, <4>1 DEF MarksIt
      <4>3. muteLog # <<>> /\ m.head # {}
        BY <2>7, CallLeaves DEF Marks, MarksIt, m
      <4>4. c \in Rows
        BY <1>1, <4>1, <4>3 DEF Methods
      <4>5. 1 \in 1 .. Len(muteLog)
        BY <4>3, ItemOf DEF MuteShape
      <4> QED
        BY <4>2, <4>4, <4>5, ExceptSeq DEF MuteShape
    <3> QED
      BY <2>7, <3>1, <3>2 DEF MuteShape, MarksIt, ListStays, Writes
  <2>8. CASE Scans(m, r)
    BY <2>8 DEF MuteShape, Scans, LogStays, ListStays, Writes
  <2>9. CASE Selects(m, r)
    <3>1. Found(m) \in Reads
      BY <1>1, FoundTypes
    <3>2. CASE muteStore = "redis"
      <4>1. list' \in [Mutees -> Nat] /\ unheard' \in SUBSET Mutees
        BY <2>9, <3>1, <3>2, Hydrated DEF MuteShape, Selects
      <4> QED
        BY <2>9, <3>2, <4>1 DEF MuteShape, Selects, LogStays, Writes
    <3>3. CASE muteStore # "redis"
      BY <2>9, <3>1, <3>3 DEF MuteShape, Selects, LogStays, Writes
    <3> QED
      BY <3>2, <3>3
  <2>10. CASE GivesUp(m, r)
    <3>1. Blamed(m) \in SUBSET Mutees
      BY DEF Blamed
    <3> QED
      BY <2>10, <3>1 DEF MuteShape, GivesUp, LogStays, ListStays
  <2> QED
    BY <2>1, <2>2, <2>3, <2>4, <2>5, <2>6, <2>7, <2>8, <2>9, <2>10 DEF CallMade, m
<1> QED
  BY <1>1, <1>2, <1>4, <1>5, <1>7 DEF MuteShape

LEMMA Enqueued ==
  ASSUME NEW S, NEW s \in Seq(S), NEW x \in S
  PROVE  /\ Append(s, x) \in Seq(S)
         /\ DOMAIN Append(s, x) = DOMAIN s \union {Len(s) + 1} /\ Len(s) + 1 \notin DOMAIN s
         /\ \A k \in DOMAIN s : Append(s, x)[k] = s[k] /\ k < Len(s) + 1
         /\ Append(s, x)[Len(s) + 1] = x
<1>1. Len(s) \in Nat /\ DOMAIN s = 1 .. Len(s)
  BY ItemOf
<1>2. /\ Append(s, x) \in Seq(S) /\ Len(Append(s, x)) = Len(s) + 1
      /\ \A k \in 1 .. Len(s) : Append(s, x)[k] = s[k]
      /\ Append(s, x)[Len(s) + 1] = x
  BY AppendProperties
<1>3. DOMAIN Append(s, x) = 1 .. Len(s) + 1
  BY <1>2, ItemOf
<1>4. 1 .. Len(s) + 1 = (1 .. Len(s)) \union {Len(s) + 1} /\ Len(s) + 1 \notin 1 .. Len(s)
  BY <1>1
<1>5. \A k \in 1 .. Len(s) : k < Len(s) + 1
  BY <1>1
<1> QED
  BY <1>1, <1>2, <1>3, <1>4, <1>5

\* A command and what it asks of the store.
Asked(u, until, calls) == [n |-> commands + 1, user |-> u, until |-> until, calls |-> calls, head |-> {}]
Commanded(u, until, calls) ==
  /\ Command(u, until, calls) /\ until \in Nat
  /\ \/ until = 0 /\ calls = IF muteStore = "redis" THEN <<"hdel", "lindex">> ELSE <<"update">>
     \/ until > clock /\ calls = IF muteStore = "redis" THEN <<"hset", "lpush", "ltrim">> ELSE <<"insert">>

LEMMA CommandIs ==
  ASSUME MuteShape, NEW u \in Mutees, UnmuteUser(u) \/ \E term \in Terms : MuteUser(u, term)
  PROVE  \E until, calls : Commanded(u, until, calls)
<1>1. CASE UnmuteUser(u)
  <2>1. Commanded(u, 0, MarkMuteUnmuted)
    BY <1>1 DEF Commanded, UnmuteUser, MarkMuteUnmuted, PostgresMarkMuteUnmuted, MongoMarkMuteUnmuted,
                RedisMarkMuteUnmuted, MuteShape
  <2> QED
    BY <2>1
<1>2. ASSUME NEW term \in Terms, MuteUser(u, term) PROVE Commanded(u, clock + term, RecordMute)
  <2>1. clock + term \in Nat /\ clock + term > clock
    BY MuteRowsAssumption DEF MuteShape
  <2> QED
    BY <1>2, <2>1 DEF Commanded, MuteUser, RecordMute, PostgresRecordMute, MongoRecordMute, RedisRecordMute, MuteShape
<1> QED
  BY <1>1, <1>2

LEMMA AskedFits ==
  ASSUME MuteShape, NEW u \in Mutees, NEW until, NEW calls, Commanded(u, until, calls)
  PROVE  /\ Asked(u, until, calls) \in Methods /\ pending' = Append(pending, Asked(u, until, calls))
         /\ said' = [said EXCEPT ![u] = [n |-> commands + 1, until |-> until]] /\ commands' = commands + 1
         /\ u # "all" /\ until \in Nat /\ commands \in Nat
         /\ calls \notin ReadCalls /\ (until = 0 <=> calls \in UnmuteCalls)
         /\ muteStore = "redis" => calls \notin {<<"insert">>, <<"update">>} /\ Stage(Asked(u, until, calls)) = 1
         /\ muteStore # "redis" => calls \in {<<"insert">>, <<"update">>}
<1>1. /\ pending' = Append(pending, Asked(u, until, calls)) /\ commands' = commands + 1
      /\ said' = [said EXCEPT ![u] = [n |-> commands + 1, until |-> until]]
  BY DEF Commanded, Command, Asked
<1>2. calls \in {<<"hdel", "lindex">>, <<"update">>, <<"hset", "lpush", "ltrim">>, <<"insert">>}
  BY DEF Commanded
<1>3. calls \in MuteCalls \union UnmuteCalls /\ calls \notin ReadCalls
  BY <1>2 DEF MuteCalls, UnmuteCalls, ReadCalls
<1>4. until \in Nat /\ clock \in Nat /\ commands \in Nat
  BY DEF Commanded, MuteShape
<1>5. until = 0 <=> calls \in UnmuteCalls
  <2>1. CASE until = 0
    BY <1>4, <2>1 DEF Commanded, UnmuteCalls
  <2>2. CASE until > clock
    BY <1>4, <2>2 DEF Commanded, UnmuteCalls
  <2> QED
    BY <2>1, <2>2 DEF Commanded
<1>6. Asked(u, until, calls) \in Methods
  BY <1>3, <1>4 DEF Asked, Methods
<1>7. u # "all"
  BY MuteRowsAssumption
<1>8. /\ muteStore = "redis" => calls \notin {<<"insert">>, <<"update">>} /\ Stage(Asked(u, until, calls)) = 1
      /\ muteStore # "redis" => calls \in {<<"insert">>, <<"update">>}
  BY DEF Commanded, Stage, Asked
<1> QED
  BY <1>1, <1>3, <1>4, <1>5, <1>6, <1>7, <1>8

LEMMA CommandShape ==
  ASSUME MuteShape, NEW u \in Mutees, NEW until, NEW calls, Commanded(u, until, calls)
  PROVE  MuteShape'
<1>0. PICK x : x = Asked(u, until, calls)
  OBVIOUS
<1>1. /\ x \in Methods /\ pending' = Append(pending, x)
      /\ said' = [said EXCEPT ![u] = [n |-> commands + 1, until |-> until]] /\ commands' = commands + 1
      /\ u # "all" /\ until \in Nat /\ commands \in Nat
      /\ calls \notin ReadCalls /\ (until = 0 <=> calls \in UnmuteCalls)
      /\ muteStore = "redis" => calls \notin {<<"insert">>, <<"update">>}
      /\ muteStore # "redis" => calls \in {<<"insert">>, <<"update">>}
  BY <1>0, AskedFits
<1>2. /\ pending' \in Seq(Methods)
      /\ \A k \in DOMAIN pending' : (k \in DOMAIN pending /\ pending'[k] = pending[k]) \/ pending'[k] = x
  <2>1. /\ pending' \in Seq(Methods)
        /\ DOMAIN pending' = DOMAIN pending \union {Len(pending) + 1}
        /\ \A k \in DOMAIN pending : pending'[k] = pending[k]
        /\ pending'[Len(pending) + 1] = x
    <3>1. pending \in Seq(Methods)
      BY DEF MuteShape
    <3>2. /\ Append(pending, x) \in Seq(Methods)
          /\ DOMAIN Append(pending, x) = DOMAIN pending \union {Len(pending) + 1}
          /\ \A k \in DOMAIN pending : Append(pending, x)[k] = pending[k]
          /\ Append(pending, x)[Len(pending) + 1] = x
      BY <1>1, <3>1, Enqueued
    <3> QED
      BY <1>1, <3>2
  <2> QED
    BY <2>1
<1>3. /\ said' \in [Mutees -> [n : Nat, until : Nat]]
      /\ said'[u] = [n |-> commands + 1, until |-> until] /\ \A w \in Mutees : w # u => said'[w] = said[w]
  BY <1>1 DEF MuteShape
<1>4. ASSUME NEW m \in Methods, Fits(m) PROVE Fits(m)'
  <2>1. CASE m.calls \in ReadCalls
    BY <1>1, <1>4, <2>1 DEF Fits, Commanded, Command, Methods
  <2>2. CASE m.calls \notin ReadCalls
    <3>1. m.user \in Mutees /\ m.n > 0 /\ m.n <= said[m.user].n /\ said[m.user].n <= commands /\ m.n \in Nat
      BY <1>4, <2>2 DEF Fits, MuteShape, Methods
    <3>2. CASE m.user = u
      <4>1. m.n < said'[u].n
        BY <1>1, <1>3, <3>1, <3>2 DEF MuteShape
      <4> QED
        BY <1>1, <1>3, <1>4, <2>2, <3>1, <3>2, <4>1 DEF Fits, Commanded, Command
    <3>3. CASE m.user # u
      BY <1>1, <1>3, <1>4, <2>2, <3>1, <3>3 DEF Fits, Commanded, Command
    <3> QED
      BY <3>2, <3>3
  <2> QED
    BY <2>1, <2>2
<1>5. Fits(x)'
  <2>1. x.n = commands + 1 /\ x.user = u /\ x.until = until /\ x.calls = calls
    BY <1>0 DEF Asked
  <2> QED
    BY <1>1, <1>3, <2>1 DEF Fits, Commanded, Command
<1>6. \A k \in DOMAIN pending' : Fits(pending[k])'
  <2>1. ASSUME NEW k \in DOMAIN pending' PROVE Fits(pending[k])'
    <3>1. CASE k \in DOMAIN pending /\ pending'[k] = pending[k]
      <4>1. pending[k] \in Methods /\ Fits(pending[k])
        BY <3>1, ItemOf DEF MuteShape
      <4>2. PICK m \in Methods : m = pending[k] /\ Fits(m)
        BY <4>1
      <4>3. Fits(m)' /\ pending'[k] = m
        BY <1>4, <3>1, <4>2
      <4> QED
        BY <4>3 DEF Fits
    <3>2. CASE pending'[k] = x
      BY <1>5, <3>2 DEF Fits
    <3> QED
      BY <1>2, <3>1, <3>2
  <2> QED
    BY <2>1
<1>7. recorded' \in SUBSET (1 .. commands')
  BY <1>1 DEF MuteShape, Commanded, Command
<1>8. commands' <= MaxEvents
  BY <1>1, MuteRowsAssumption DEF MuteShape, Commanded, Command, Eventful
<1>9. ASSUME NEW w \in Mutees PROVE said'[w].n <= commands'
  <2>1. said[w].n <= commands /\ said[w].n \in Nat
    BY DEF MuteShape
  <2> QED
    BY <1>1, <1>3, <2>1
<1>10. list' \in [Mutees -> Nat] /\ unsure' \in SUBSET Mutees /\ unheard' \in SUBSET Mutees
  BY <1>1 DEF MuteShape, Commanded, Command
<1>11. UNCHANGED <<muteStore, clock, running, muteTable, expiries, muteLog, answers, clobbered, hydrations, muteTrouble>> /\ running
  BY DEF Commanded, Command
<1> QED
  BY <1>1, <1>2, <1>3, <1>6, <1>7, <1>8, <1>9, <1>10, <1>11 DEF MuteShape

LEMMA ReadingIs ==
  ASSUME MuteShape
  PROVE  Reading \in Methods /\ Fits(Reading) /\ Reading.user = "all" /\ Reading.n = commands
         /\ Reading.calls \in ReadCalls /\ Reading.calls # <<"lset">>
<1>1. /\ Reading.user = "all" /\ Reading.n = commands /\ Reading.until = 0 /\ Reading.head = {}
      /\ Reading.calls = IF muteStore = "redis" THEN <<"scan", "select">> ELSE <<"select">>
  BY DEF Reading, GetActiveMutes, PostgresGetActiveMutes, MongoGetActiveMutes, RedisGetActiveMutes, MuteShape
<1>2. Reading.calls \in ReadCalls /\ Reading.calls # <<"lset">> /\ Reading.calls \notin {<<"insert">>, <<"update">>}
  BY <1>1 DEF ReadCalls
<1>3. Reading = [n |-> commands, user |-> "all", until |-> 0, calls |-> Reading.calls, head |-> {}]
  BY DEF Reading
<1>4. Reading \in Methods
  BY <1>2, <1>3 DEF Methods, MuteShape
<1>5. Fits(Reading)
  BY <1>1, <1>2 DEF Fits, MuteShape
<1> QED
  BY <1>1, <1>2, <1>4, <1>5

LEMMA HydrateAgainShape == ASSUME MuteShape, HydrateAgain PROVE MuteShape'
<1>1. PICK x : x = Reading
  OBVIOUS
<1>2. x \in Methods /\ Fits(x) /\ pending' = Append(pending, x)
  BY <1>1, ReadingIs DEF HydrateAgain
<1>3. /\ pending' \in Seq(Methods)
      /\ DOMAIN pending' = DOMAIN pending \union {Len(pending) + 1}
      /\ \A k \in DOMAIN pending : pending'[k] = pending[k]
      /\ pending'[Len(pending) + 1] = x
  <2>1. pending \in Seq(Methods)
    BY DEF MuteShape
  <2>2. /\ Append(pending, x) \in Seq(Methods)
        /\ DOMAIN Append(pending, x) = DOMAIN pending \union {Len(pending) + 1}
        /\ \A k \in DOMAIN pending : Append(pending, x)[k] = pending[k]
        /\ Append(pending, x)[Len(pending) + 1] = x
    BY <1>2, <2>1, Enqueued
  <2> QED
    BY <1>2, <2>2
<1>4. \A k \in DOMAIN pending' : Fits(pending'[k])
  BY <1>2, <1>3 DEF MuteShape
<1>5. \A k \in DOMAIN pending' : Fits(pending[k])'
  BY <1>4 DEF Fits, HydrateAgain
<1> QED
  BY <1>3, <1>5 DEF MuteShape, HydrateAgain

LEMMA HydrateShape == ASSUME MuteShape, Hydrate PROVE MuteShape'
<1>1. PICK a \in answers : Hydrates(a) /\ answers' = answers \ {a}
  BY DEF Hydrate
<1>2. list' \in [Mutees -> Nat] /\ unheard' \in SUBSET Mutees /\ answers # {}
  BY <1>1, Hydrated DEF MuteShape
<1>3. \A k \in DOMAIN pending : Fits(pending[k])'
  BY DEF MuteShape, Fits, Hydrate
<1> QED
  BY <1>1, <1>2, <1>3 DEF MuteShape, Hydrate

LEMMA TickShape == ASSUME MuteShape, ClockTicks PROVE MuteShape'
<1>1. \A k \in DOMAIN pending : Fits(pending[k])'
  BY DEF MuteShape, Fits, ClockTicks
<1> QED
  BY <1>1 DEF MuteShape, ClockTicks

LEMMA EndShape == ASSUME MuteShape, ProcessEnds PROVE MuteShape'
<1>1. pending' \in Seq(Methods) /\ DOMAIN pending' = {}
  BY DEF ProcessEnds
<1>2. unsure' \in SUBSET Mutees
  BY DEF MuteShape, ProcessEnds, Blamed
<1>3. list' \in [Mutees -> Nat] /\ muteTrouble' \in Nat /\ unheard' \in SUBSET Mutees /\ running' = FALSE
  BY DEF MuteShape, ProcessEnds
<1>4. answers' \in SUBSET Reads /\ answers' = {} /\ pending' = <<>> /\ unheard' = Mutees
  BY DEF ProcessEnds
<1>5. UNCHANGED <<muteStore, clock, muteTable, expiries, muteLog, commands, said, recorded, clobbered, hydrations>>
  BY DEF ProcessEnds
<1>6. \A k \in DOMAIN pending' : Fits(pending[k])'
  BY <1>1
<1> QED
  BY <1>1, <1>2, <1>3, <1>4, <1>5, <1>6 DEF MuteShape

LEMMA StartShape == ASSUME MuteShape, Starts PROVE MuteShape'
<1>1. PICK x : x = Reading
  OBVIOUS
<1>2. x \in Methods /\ Fits(x) /\ pending' = <<x>>
  BY <1>1, ReadingIs DEF Starts
<1>3. pending' \in Seq(Methods) /\ \A k \in DOMAIN pending' : pending'[k] = x
  BY <1>2
<1>4. \A k \in DOMAIN pending' : Fits(pending[k])'
  BY <1>2, <1>3 DEF Fits, Starts
<1> QED
  BY <1>3, <1>4 DEF MuteShape, Starts

-----------------------------------------------------------------------------
(* The methods are in turn *)

LEMMA StageOf == ASSUME NEW m PROVE Stage(m) \in {1, 2, 3}
BY DEF Stage

LEMMA CallInTurn ==
  ASSUME MuteShape, InTurn, NEW i, NEW r, CallMade(i, r)
  PROVE  InTurn'
<1> DEFINE m == pending[i]
<1>1. /\ i \in DOMAIN pending /\ DOMAIN pending = 1 .. Len(pending) /\ Len(pending) \in Nat
      /\ (muteStore = "redis" => i = 1) /\ muteStore' = muteStore /\ m \in Methods
  BY ItemOf, CallLeaves DEF CallMade, MuteShape
<1>2. \A k \in DOMAIN pending' :
        \/ k < Len(pending) /\ From(i, k) \in DOMAIN pending /\ From(i, k) # i /\ pending'[k] = pending[From(i, k)]
        \/ k = Len(pending) /\ Leaves(m, pending'[k])
  BY CallPending
<1>3. DOMAIN pending' \subseteq Nat /\ \A k \in DOMAIN pending' : pending'[k].n \in Nat
  <2>1. pending' \in Seq(Methods)
    BY CallPending
  <2>2. Len(pending') \in Nat /\ DOMAIN pending' = 1 .. Len(pending') /\ \A k \in DOMAIN pending' : pending'[k] \in Methods
    BY <2>1, ItemOf
  <2> QED
    BY <2>2 DEF Methods
<1> HIDE DEF m
<1>4. \A k, l \in DOMAIN pending' : (k < l <=> From(i, k) < From(i, l)) /\ (k # l => From(i, k) # From(i, l))
  BY <1>1, <1>3 DEF From
<1> SUFFICES ASSUME NEW k \in DOMAIN pending', NEW l \in DOMAIN pending', k # l,
                    pending'[k].user # "all", pending'[l].user # "all"
             PROVE  /\ pending'[k].n # pending'[l].n
                    /\ muteStore = "redis" /\ pending'[k].n < pending'[l].n =>
                         /\ Stage(pending'[k]) >= Stage(pending'[l])
                         /\ Stage(pending'[k]) = Stage(pending'[l]) => k < l
  BY <1>1 DEF InTurn, Stage
<1>5. CASE k < Len(pending) /\ l < Len(pending)
  <2>1. /\ From(i, k) \in DOMAIN pending /\ pending'[k] = pending[From(i, k)]
        /\ From(i, l) \in DOMAIN pending /\ pending'[l] = pending[From(i, l)]
        /\ From(i, k) # From(i, l)
    BY <1>2, <1>4, <1>5
  <2>2. k < l <=> From(i, k) < From(i, l)
    BY <1>4
  <2> QED
    BY <2>1, <2>2 DEF InTurn
<1>6. CASE k < Len(pending) /\ l = Len(pending)
  <2> DEFINE j == From(i, k)
  <2>1. j \in DOMAIN pending /\ j # i /\ pending'[k] = pending[j] /\ Leaves(m, pending'[l])
    BY <1>2, <1>6
  <2>2. pending'[l].n = m.n /\ Stage(pending'[l]) = Stage(m) + 1 /\ m.user # "all"
    BY <2>1 DEF Leaves
  <2>3. pending[j].n # m.n /\ (muteStore = "redis" /\ pending[j].n < m.n => Stage(pending[j]) >= Stage(m) /\ (Stage(pending[j]) = Stage(m) => j < i))
    BY <1>1, <2>1, <2>2 DEF InTurn, m
  <2>4. k < l /\ Stage(pending[j]) \in Nat /\ Stage(m) \in Nat /\ (muteStore = "redis" => ~(j < i))
    BY <1>1, <1>6, <2>1, StageOf
  <2> HIDE DEF j
  <2> QED
    BY <2>1, <2>2, <2>3, <2>4
<1>7. CASE k = Len(pending) /\ l < Len(pending)
  <2> DEFINE j == From(i, l)
  <2>1. j \in DOMAIN pending /\ j # i /\ pending'[l] = pending[j] /\ Leaves(m, pending'[k])
    BY <1>2, <1>7
  <2>2. pending'[k].n = m.n /\ Stage(pending'[k]) = Stage(m) + 1 /\ m.user # "all"
    BY <2>1 DEF Leaves
  <2>3. pending[j].n # m.n /\ (muteStore = "redis" /\ m.n < pending[j].n => Stage(m) >= Stage(pending[j]))
    BY <1>1, <2>1, <2>2 DEF InTurn, m
  <2>4. Stage(pending[j]) \in Nat /\ Stage(m) \in Nat
    BY StageOf
  <2> HIDE DEF j
  <2> QED
    BY <2>1, <2>2, <2>3, <2>4
<1> QED
  BY <1>2, <1>5, <1>6, <1>7

LEMMA CommandInTurn ==
  ASSUME MuteShape, InTurn, NEW u \in Mutees, NEW until, NEW calls, Commanded(u, until, calls)
  PROVE  InTurn'
<1>1. PICK x : x = Asked(u, until, calls)
  OBVIOUS
<1>2. /\ x \in Methods /\ pending' = Append(pending, x) /\ pending \in Seq(Methods) /\ commands \in Nat
      /\ muteStore = "redis" => Stage(x) = 1
  BY <1>1, AskedFits DEF MuteShape
<1>3. /\ DOMAIN pending' = DOMAIN pending \union {Len(pending) + 1} /\ Len(pending) + 1 \notin DOMAIN pending
      /\ \A k \in DOMAIN pending : pending'[k] = pending[k] /\ k < Len(pending) + 1
      /\ pending'[Len(pending) + 1] = x
  <2>1. /\ DOMAIN Append(pending, x) = DOMAIN pending \union {Len(pending) + 1} /\ Len(pending) + 1 \notin DOMAIN pending
        /\ \A k \in DOMAIN pending : Append(pending, x)[k] = pending[k] /\ k < Len(pending) + 1
        /\ Append(pending, x)[Len(pending) + 1] = x
    BY <1>2, Enqueued
  <2> QED
    BY <1>2, <2>1
<1>4. x.n = commands + 1
  BY <1>1 DEF Asked
<1>5. ASSUME NEW k \in DOMAIN pending, pending[k].user # "all" PROVE pending[k].n < x.n /\ ~(x.n < pending[k].n) /\ pending[k].n # x.n
  <2>1. pending[k] \in Methods /\ Fits(pending[k]) /\ pending[k].calls \notin ReadCalls
    BY <1>5, ItemOf DEF MuteShape, Fits
  <2>2. pending[k].n \in Nat /\ pending[k].n <= said[pending[k].user].n /\ said[pending[k].user].n <= commands
        /\ said[pending[k].user].n \in Nat
    BY <2>1 DEF MuteShape, Fits, Methods
  <2> QED
    BY <1>2, <1>4, <2>2
<1>6. \A k \in DOMAIN pending : Stage(pending[k]) \in Nat /\ Stage(pending[k]) >= 1
  BY StageOf
<1>7. muteStore' = muteStore
  BY DEF Commanded, Command
<1> SUFFICES ASSUME NEW k \in DOMAIN pending', NEW l \in DOMAIN pending', k # l,
                    pending'[k].user # "all", pending'[l].user # "all"
             PROVE  /\ pending'[k].n # pending'[l].n
                    /\ muteStore = "redis" /\ pending'[k].n < pending'[l].n =>
                         /\ Stage(pending'[k]) >= Stage(pending'[l])
                         /\ Stage(pending'[k]) = Stage(pending'[l]) => k < l
  BY <1>7 DEF InTurn, Stage
<1>8. CASE k \in DOMAIN pending /\ l \in DOMAIN pending
  BY <1>3, <1>8 DEF InTurn
<1>9. CASE k \in DOMAIN pending /\ l = Len(pending) + 1
  BY <1>2, <1>3, <1>5, <1>6, <1>9
<1>10. CASE k = Len(pending) + 1 /\ l \in DOMAIN pending
  BY <1>3, <1>5, <1>10
<1> QED
  BY <1>3, <1>8, <1>9, <1>10

LEMMA HydrateAgainInTurn == ASSUME MuteShape, InTurn, HydrateAgain PROVE InTurn'
<1>1. PICK x : x = Reading
  OBVIOUS
<1>2. x \in Methods /\ x.user = "all" /\ pending' = Append(pending, x) /\ pending \in Seq(Methods)
  BY <1>1, ReadingIs DEF HydrateAgain, MuteShape
<1>3. /\ DOMAIN Append(pending, x) = DOMAIN pending \union {Len(pending) + 1}
      /\ \A k \in DOMAIN pending : Append(pending, x)[k] = pending[k]
      /\ Append(pending, x)[Len(pending) + 1] = x
  BY <1>2, Enqueued
<1>4. \A k \in DOMAIN pending' : pending'[k].user # "all" => k \in DOMAIN pending /\ pending'[k] = pending[k]
  BY <1>2, <1>3
<1>5. muteStore' = muteStore
  BY DEF HydrateAgain
<1> QED
  BY <1>4, <1>5 DEF InTurn, Stage

LEMMA HydrateInTurn == ASSUME InTurn, Hydrate \/ ClockTicks PROVE InTurn'
BY DEF InTurn, Stage, Hydrate, ClockTicks

LEMMA EndInTurn == ASSUME ProcessEnds PROVE InTurn'
<1>1. DOMAIN pending' = {}
  BY DEF ProcessEnds
<1> QED
  BY <1>1 DEF InTurn

LEMMA StartInTurn == ASSUME MuteShape, Starts PROVE InTurn'
<1>1. PICK x : x = Reading
  OBVIOUS
<1>2. x.user = "all" /\ pending' = <<x>>
  BY <1>1, ReadingIs DEF Starts
<1>3. \A k \in DOMAIN pending' : pending'[k].user = "all"
  BY <1>2
<1> QED
  BY <1>3 DEF InTurn

-----------------------------------------------------------------------------
(* The last commands are on their way or told *)

DecidingCalls == {<<"insert">>, <<"update">>, <<"hset", "lpush", "ltrim">>, <<"hdel", "lindex">>}

LEMMA HeadDecides ==
  ASSUME NEW m \in Methods
  PROVE  Head(m.calls) \in Deciding <=> m.calls \in DecidingCalls
<1>1. CASE m.calls \in DecidingCalls
  BY <1>1 DEF DecidingCalls, Deciding
<1>2. CASE m.calls \notin DecidingCalls
  <2>1. m.calls \in {<<"lpush", "ltrim">>, <<"ltrim">>, <<"lindex">>, <<"lset">>, <<"select">>, <<"scan", "select">>}
    BY <1>2 DEF DecidingCalls, Methods, MuteCalls, UnmuteCalls, ReadCalls
  <2> QED
    BY <1>2, <2>1 DEF Deciding
<1> QED
  BY <1>1, <1>2

LEMMA CommandsAre ==
  ASSUME MuteShape, NEW u \in Mutees
  PROVE  Commands(u) = {k \in DOMAIN pending : pending[k].user = u /\ pending[k].calls \in DecidingCalls}
<1>1. \A k \in DOMAIN pending : pending[k] \in Methods
  BY ItemOf DEF MuteShape
<1>2. \A k \in DOMAIN pending : Head(pending[k].calls) \in Deciding <=> pending[k].calls \in DecidingCalls
  BY <1>1, HeadDecides
<1> QED
  BY <1>2 DEF Commands, PendingOf

LEMMA CommandsWillBe ==
  ASSUME NEW u \in Mutees, pending' \in Seq(Methods)
  PROVE  Commands(u)' = {k \in DOMAIN pending' : pending'[k].user = u /\ pending'[k].calls \in DecidingCalls}
<1>1. \A k \in DOMAIN pending' : pending'[k] \in Methods
  BY ItemOf
<1>2. \A k \in DOMAIN pending' : Head(pending'[k].calls) \in Deciding <=> pending'[k].calls \in DecidingCalls
  BY <1>1, HeadDecides
<1> QED
  BY <1>2 DEF Commands, PendingOf

LEMMA CommandOf ==
  ASSUME MuteShape, NEW u \in Mutees, NEW j \in Commands(u)
  PROVE  /\ j \in DOMAIN pending /\ pending[j] \in Methods /\ pending[j].user = u /\ pending[j].calls \in DecidingCalls
         /\ pending[j].calls \notin ReadCalls /\ u # "all"
         /\ pending[j].n \in Nat /\ pending[j].n <= said[u].n /\ said[u].n \in Nat
         /\ pending[j].n = said[u].n => pending[j].until = said[u].until
         /\ muteStore = "redis" => Stage(pending[j]) = 1
<1>1. j \in DOMAIN pending /\ pending[j].user = u /\ pending[j].calls \in DecidingCalls
  BY CommandsAre
<1>2. pending[j] \in Methods /\ Fits(pending[j]) /\ u # "all" /\ said[u].n \in Nat
  BY <1>1, ItemOf, MuteRowsAssumption DEF MuteShape
<1>3. pending[j].calls \notin ReadCalls
  BY <1>1 DEF DecidingCalls, ReadCalls
<1>4. pending[j].n \in Nat
  BY <1>2 DEF Methods
<1>5. pending[j].n <= said[u].n /\ (pending[j].n = said[u].n => pending[j].until = said[u].until)
  BY <1>1, <1>2, <1>3 DEF Fits
<1>6. muteStore = "redis" => Stage(pending[j]) = 1
  BY <1>1, <1>2 DEF Fits, Stage, DecidingCalls
<1> QED
  BY <1>1, <1>2, <1>3, <1>4, <1>5, <1>6

\* A call takes at most its own method from those that decide.
LEMMA CallCommands ==
  ASSUME MuteShape, NEW i, NEW r, CallMade(i, r), NEW u \in Mutees
  PROVE  /\ \A k \in Commands(u)' : \E j \in Commands(u) : j # i /\ pending'[k] = pending[j]
         /\ \A j \in Commands(u) : j # i => \E k \in Commands(u)' : pending'[k] = pending[j]
<1> DEFINE m == pending[i]
<1>1. /\ pending' \in Seq(Methods)
      /\ \A k \in DOMAIN pending' :
           \/ From(i, k) \in DOMAIN pending /\ From(i, k) # i /\ pending'[k] = pending[From(i, k)]
           \/ Leaves(m, pending'[k])
      /\ \A j \in DOMAIN pending : j # i => \E k \in DOMAIN pending' : pending'[k] = pending[j]
  BY CallPending
<1>2. Commands(u)' = {k \in DOMAIN pending' : pending'[k].user = u /\ pending'[k].calls \in DecidingCalls}
  BY <1>1, CommandsWillBe
<1>3. Commands(u) = {k \in DOMAIN pending : pending[k].user = u /\ pending[k].calls \in DecidingCalls}
  BY CommandsAre
<1>4. m \in Methods /\ Fits(m) /\ u # "all"
  BY CallLeaves, MuteRowsAssumption
<1> HIDE DEF m
<1>5. ASSUME NEW x, Leaves(m, x), x.user = u PROVE x.calls \notin DecidingCalls
  <2>1. Fits(x) /\ m.user = u /\ Stage(x) = Stage(m) + 1
    BY <1>4, <1>5 DEF Leaves
  <2>2. CASE muteStore = "redis"
    <3>1. x.calls \notin {<<"insert">>, <<"update">>}
      BY <2>1, <2>2 DEF Fits
    <3>2. Stage(x) # 1
      BY <2>1, StageOf
    <3> QED
      BY <3>1, <3>2 DEF Stage, DecidingCalls
  <2>3. CASE muteStore # "redis"
    <3>1. m.calls \in {<<"insert">>, <<"update">>, <<"select">>}
      BY <1>4, <2>3 DEF Fits
    <3>2. Stage(m) = 3
      BY <3>1 DEF Stage
    <3>3. Stage(x) \in {1, 2, 3}
      BY StageOf
    <3> QED
      BY <2>1, <3>2, <3>3
  <2> QED
    BY <2>2, <2>3
<1>6. ASSUME NEW k \in Commands(u)' PROVE \E j \in Commands(u) : j # i /\ pending'[k] = pending[j]
  BY <1>1, <1>2, <1>3, <1>5
<1>7. ASSUME NEW j \in Commands(u), j # i PROVE \E k \in Commands(u)' : pending'[k] = pending[j]
  BY <1>1, <1>2, <1>3, <1>7
<1> QED
  BY <1>6, <1>7

LEMMA CallDecided ==
  ASSUME MuteShape, InTurn, AllDecided, NEW i, NEW r, CallMade(i, r)
  PROVE  AllDecided'
<1> SUFFICES ASSUME NEW u \in Mutees, u \notin unsure' PROVE Decided(u)'
  BY DEF AllDecided
<1> DEFINE m == pending[i]
<1>1. m \in Methods /\ Fits(m) /\ i \in DOMAIN pending
  BY CallLeaves
<1>2. UNCHANGED <<muteStore, clock, said>> /\ (muteStore = "redis" => i = 1)
  BY DEF CallMade
<1>3. u \notin unsure /\ Decided(u)
  <2>1. unsure \subseteq unsure'
    BY DEF CallMade, Inserts, Updates, Sets, Pushes, Trims, Looks, MarksIt, Scans, Selects, GivesUp, Writes
  <2> QED
    BY <2>1 DEF AllDecided
<1>4. /\ \A k \in Commands(u)' : \E j \in Commands(u) : j # i /\ pending'[k] = pending[j]
      /\ \A j \in Commands(u) : j # i => \E k \in Commands(u)' : pending'[k] = pending[j]
  BY CallCommands
<1>5. muteStore # "redis" => \A k \in Commands(u)' : (pending'[k].until = 0) <=> (said'[u].until = 0)
  BY <1>2, <1>3, <1>4 DEF Decided
<1>6. i \in Commands(u) <=> m.user = u /\ m.calls \in DecidingCalls
  BY <1>1, CommandsAre
<1>7. muteTable \in Seq(Rows) /\ expiries \in [Mutees -> Nat] /\ said \in [Mutees -> [n : Nat, until : Nat]]
      /\ Len(muteTable) \in Nat /\ DOMAIN muteTable = 1 .. Len(muteTable)
  BY ItemOf DEF MuteShape
<1>8. i \in Commands(u) /\ m.n = said[u].n => m.until = said[u].until
  BY CommandOf
<1> HIDE DEF m
<1>9. m.calls \notin ReadCalls => (m.until = 0 <=> m.calls \in UnmuteCalls)
  BY <1>1 DEF Fits
<1>10. ASSUME Inserts(m, r)
       PROVE  /\ m.until # 0 /\ m.calls \in DecidingCalls
              /\ \A k \in DOMAIN muteTable : k \in DOMAIN muteTable' /\ muteTable'[k] = muteTable[k]
              /\ \A k \in DOMAIN muteTable' : k \in DOMAIN muteTable \/ muteTable'[k] = Entry(m)
              /\ \E k \in DOMAIN muteTable' : muteTable'[k] = Entry(m)
  <2>1. m.until # 0 /\ m.calls \in DecidingCalls /\ m.user \in Mutees
    BY <1>1, <1>9, <1>10 DEF Inserts, DecidingCalls, UnmuteCalls, ReadCalls, Fits
  <2>2. Entry(m) \in Rows /\ muteTable' = Append(muteTable, Entry(m))
    BY <1>1, <1>10, <2>1, EntryRow DEF Inserts
  <2>3. PICK e : e = Entry(m)
    OBVIOUS
  <2>4. /\ DOMAIN muteTable' = DOMAIN muteTable \union {Len(muteTable) + 1}
        /\ \A k \in DOMAIN muteTable : muteTable'[k] = muteTable[k]
        /\ muteTable'[Len(muteTable) + 1] = e
    BY <1>7, <2>2, <2>3, Enqueued
  <2> QED
    BY <2>1, <2>3, <2>4
<1>11. ASSUME Updates(m, r)
       PROVE  /\ m.until = 0 /\ m.calls \in DecidingCalls
              /\ DOMAIN muteTable' = DOMAIN muteTable
              /\ \A k \in DOMAIN muteTable : muteTable'[k] = Closed(muteTable[k], m)
  BY <1>1, <1>7, <1>9, <1>11 DEF Updates, DecidingCalls, UnmuteCalls, ReadCalls
<1>12. ASSUME Sets(m, r)
       PROVE  /\ m.calls \in DecidingCalls /\ muteStore = "redis"
              /\ expiries' = [expiries EXCEPT ![m.user] = m.until]
  <2>1. m.calls \in {<<"hset", "lpush", "ltrim">>, <<"hdel", "lindex">>}
    BY <1>12 DEF Sets
  <2> QED
    BY <1>1, <1>12, <2>1 DEF Sets, DecidingCalls, Fits
<1>13. Inserts(m, r) \/ Updates(m, r) \/ (UNCHANGED muteTable /\ muteStore = "redis") \/ UNCHANGED muteTable
  BY DEF CallMade, Sets, Pushes, Trims, Looks, MarksIt, Scans, Selects, GivesUp, m
<1>14. Sets(m, r) \/ UNCHANGED expiries
  BY DEF CallMade, Inserts, Updates, Pushes, Trims, Looks, MarksIt, Scans, Selects, GivesUp, m
<1>15. \A k \in DOMAIN muteTable : muteTable[k] \in Rows
  BY <1>7, ItemOf
<1>16. ASSUME NEW row \in Rows PROVE /\ Closed(row, m).user = row.user /\ Closed(row, m).until = row.until
                                     /\ m.user # row.user => Closed(row, m) = row
                                     /\ m.user = row.user /\ row.until > clock => ~Closed(row, m).open
                                     /\ Closed(row, m).open => row.open
  BY DEF Closed, Rows
<1>17. ASSUME StoreTells(u) PROVE StoreTells(u)'
  <2>1. CASE muteStore = "redis"
    <3>1. Commands(u) = {} /\ expiries[u] = said[u].until
      BY <1>17, <2>1 DEF StoreTells
    <3>2. Commands(u)' = {}
      BY <1>4, <3>1
    <3>3. expiries'[u] = expiries[u]
      BY <1>6, <1>7, <1>12, <1>14, <3>1
    <3> QED
      BY <1>2, <2>1, <3>1, <3>2, <3>3 DEF StoreTells
  <2>2. CASE muteStore # "redis"
    <3>1. /\ said[u].until = 0 => \A k \in DOMAIN muteTable : ~RowTells(muteTable[k], u)
          /\ said[u].until > clock => \E k \in DOMAIN muteTable : RowTells(muteTable[k], u) /\ muteTable[k].until = said[u].until
      BY <1>17, <2>2 DEF StoreTells
    <3>2. m.user = u /\ m.calls \in DecidingCalls => ((m.until = 0) <=> (said[u].until = 0))
      BY <1>3, <1>6, <2>2 DEF Decided, m
    <3>3. clock \in Nat /\ said[u].until \in Nat
      BY <1>7 DEF MuteShape
    <3>4. /\ said[u].until = 0 => \A k \in DOMAIN muteTable' : ~RowTells(muteTable'[k], u)
          /\ said[u].until > clock => \E k \in DOMAIN muteTable' : RowTells(muteTable'[k], u) /\ muteTable'[k].until = said[u].until
      <4>1. CASE Inserts(m, r)
        <5>1. Entry(m).user = m.user
          BY DEF Entry
        <5>2. m.user # u => ~RowTells(Entry(m), u)
          BY <5>1 DEF RowTells
        <5>3. m.user = u => said[u].until # 0
          BY <1>10, <3>2, <4>1
        <5> QED
          BY <1>10, <3>1, <4>1, <5>2, <5>3
      <4>2. CASE Updates(m, r)
        <5>1. m.user = u => said[u].until = 0
          BY <1>11, <3>2, <4>2
        <5>2. \A k \in DOMAIN muteTable : RowTells(muteTable'[k], u) => RowTells(muteTable[k], u)
          BY <1>11, <1>15, <1>16, <4>2 DEF RowTells
        <5>3. m.user # u => \A k \in DOMAIN muteTable : muteTable[k].user = u => muteTable'[k] = muteTable[k]
          BY <1>11, <1>15, <1>16, <4>2
        <5>4. said[u].until = 0 => ~(said[u].until > clock)
          BY <3>3
        <5> QED
          BY <1>11, <3>1, <4>2, <5>1, <5>2, <5>3, <5>4 DEF RowTells
      <4>3. CASE UNCHANGED muteTable
        BY <3>1, <4>3
      <4> QED
        BY <1>13, <4>1, <4>2, <4>3
    <3> QED
      BY <1>2, <2>2, <3>4 DEF StoreTells, RowTells
  <2> QED
    BY <2>1, <2>2
<1>18. ASSUME NEW j \in Commands(u), pending[j].n = said[u].n, j # i
       PROVE  \E k \in Commands(u)' : pending'[k].n = said'[u].n
  BY <1>2, <1>4, <1>18
<1>19. ASSUME i \in Commands(u), m.n = said[u].n PROVE StoreTells(u)'
  <2>1. m.user = u /\ m.calls \in DecidingCalls /\ m.until = said[u].until
    BY <1>6, <1>8, <1>19
  <2>2. ~GivesUp(m, r)
    <3>1. Head(m.calls) \in Deciding
      BY <1>1, <2>1, HeadDecides
    <3>2. Blamed(m) = {u}
      BY <1>19, <2>1, <3>1 DEF Blamed
    <3> QED
      BY <3>2 DEF GivesUp
  <2>3. Inserts(m, r) \/ Updates(m, r) \/ Sets(m, r)
    BY <2>1, <2>2 DEF CallMade, Pushes, Trims, Looks, MarksIt, Scans, Selects, DecidingCalls, m
  <2>4. CASE Inserts(m, r)
    <3>1. muteStore # "redis"
      BY <1>1, <2>4 DEF Inserts, Fits
    <3>2. Entry(m).user = u /\ Entry(m).open /\ Entry(m).until = said[u].until
      BY <2>1 DEF Entry
    <3>3. said[u].until > clock => RowTells(Entry(m), u)
      BY <3>2 DEF RowTells
    <3> QED
      BY <1>2, <1>10, <2>1, <2>4, <3>1, <3>2, <3>3 DEF StoreTells, RowTells
  <2>5. CASE Updates(m, r)
    <3>1. muteStore # "redis" /\ said[u].until = 0
      BY <1>1, <1>11, <2>1, <2>5 DEF Updates, Fits
    <3>2. \A k \in DOMAIN muteTable' : ~RowTells(muteTable'[k], u)
      BY <1>11, <1>15, <1>16, <2>1, <2>5 DEF RowTells
    <3>3. ~(said[u].until > clock)
      BY <3>1 DEF MuteShape
    <3> QED
      BY <1>2, <3>1, <3>2, <3>3 DEF StoreTells, RowTells
  <2>6. CASE Sets(m, r)
    <3>1. muteStore = "redis" /\ expiries'[u] = said[u].until
      BY <1>7, <1>12, <2>1, <2>6
    <3>2. ASSUME NEW j \in Commands(u), j # i PROVE FALSE
      <4>1. /\ j \in DOMAIN pending /\ pending[j].user = u /\ u # "all" /\ Stage(pending[j]) = 1
            /\ pending[j].n \in Nat /\ pending[j].n <= said[u].n /\ said[u].n \in Nat
        BY <3>1, <3>2, CommandOf
      <4>2. Stage(m) = 1
        BY <1>19, <3>1, CommandOf DEF m
      <4>3. pending[j].n # m.n /\ (pending[j].n < m.n /\ Stage(pending[j]) = Stage(m) => j < i)
        BY <1>1, <2>1, <3>1, <3>2, <4>1 DEF InTurn, m
      <4>4. pending[j].n < m.n
        BY <1>19, <4>1, <4>3
      <4>5. j < i /\ i = 1 /\ j \in 1 .. Len(pending) /\ Len(pending) \in Nat
        BY <1>2, <3>1, <4>1, <4>2, <4>3, <4>4, ItemOf DEF MuteShape
      <4> QED
        BY <4>5
    <3>3. Commands(u)' = {}
      BY <1>4, <3>2
    <3> QED
      BY <1>2, <3>1, <3>3 DEF StoreTells
  <2> QED
    BY <2>3, <2>4, <2>5, <2>6
<1>20. StoreTells(u)' \/ \E k \in Commands(u)' : pending'[k].n = said'[u].n
  BY <1>3, <1>17, <1>18, <1>19 DEF Decided, m
<1> QED
  BY <1>2, <1>5, <1>20 DEF Decided

\* A method is the last of those under way.
Joined(x) ==
  /\ pending' \in Seq(Methods) /\ DOMAIN pending' = DOMAIN pending \union {Len(pending) + 1}
  /\ \A k \in DOMAIN pending : pending'[k] = pending[k]
  /\ pending'[Len(pending) + 1] = x

\* What a command adds to the methods.
LEMMA CommandPending ==
  ASSUME MuteShape, NEW u \in Mutees, NEW until, NEW calls, Commanded(u, until, calls)
  PROVE  \E x \in Methods :
           Joined(x) /\ x.n = commands + 1 /\ x.user = u /\ x.until = until /\ x.calls = calls /\ x.head = {}
<1>1. PICK x : x = Asked(u, until, calls)
  OBVIOUS
<1>2. x \in Methods /\ pending' = Append(pending, x) /\ pending \in Seq(Methods)
  BY <1>1, AskedFits DEF MuteShape
<1>3. /\ Append(pending, x) \in Seq(Methods)
      /\ DOMAIN Append(pending, x) = DOMAIN pending \union {Len(pending) + 1}
      /\ \A k \in DOMAIN pending : Append(pending, x)[k] = pending[k]
      /\ Append(pending, x)[Len(pending) + 1] = x
  BY <1>2, Enqueued
<1>4. x.n = commands + 1 /\ x.user = u /\ x.until = until /\ x.calls = calls
  BY <1>1 DEF Asked
<1>5. x.head = {}
  BY <1>1 DEF Asked
<1> QED
  BY <1>2, <1>3, <1>4, <1>5 DEF Joined

LEMMA HydrateAgainPending ==
  ASSUME MuteShape, HydrateAgain
  PROVE  \E x \in Methods :
           /\ x.user = "all" /\ x.n = commands /\ x.calls \in ReadCalls /\ x.calls # <<"lset">>
           /\ pending' \in Seq(Methods) /\ DOMAIN pending' = DOMAIN pending \union {Len(pending) + 1}
           /\ \A k \in DOMAIN pending : pending'[k] = pending[k]
           /\ pending'[Len(pending) + 1] = x
<1>1. PICK x : x = Reading
  OBVIOUS
<1>2. /\ x \in Methods /\ x.user = "all" /\ x.n = commands /\ x.calls \in ReadCalls /\ x.calls # <<"lset">>
      /\ pending' = Append(pending, x) /\ pending \in Seq(Methods)
  BY <1>1, ReadingIs DEF MuteShape, HydrateAgain
<1>3. /\ Append(pending, x) \in Seq(Methods)
      /\ DOMAIN Append(pending, x) = DOMAIN pending \union {Len(pending) + 1}
      /\ \A k \in DOMAIN pending : Append(pending, x)[k] = pending[k]
      /\ Append(pending, x)[Len(pending) + 1] = x
  BY <1>2, Enqueued
<1> QED
  BY <1>2, <1>3

LEMMA StartPending ==
  ASSUME MuteShape, Starts
  PROVE  /\ pending' \in Seq(Methods)
         /\ \A k \in DOMAIN pending' : /\ pending'[k].user = "all" /\ pending'[k].n = commands
                                       /\ pending'[k].calls \in ReadCalls /\ pending'[k].calls # <<"lset">>
         /\ pending = <<>> /\ answers = {} /\ unheard = Mutees
<1>1. PICK x : x = Reading
  OBVIOUS
<1>2. /\ x \in Methods /\ x.user = "all" /\ x.n = commands /\ x.calls \in ReadCalls /\ x.calls # <<"lset">>
      /\ pending' = <<x>>
  BY <1>1, ReadingIs DEF Starts
<1>3. pending' \in Seq(Methods) /\ \A k \in DOMAIN pending' : pending'[k] = x
  BY <1>2
<1>4. pending = <<>> /\ answers = {} /\ unheard = Mutees
  BY DEF MuteShape, Starts
<1> QED
  BY <1>2, <1>3, <1>4

LEMMA CommandDecided ==
  ASSUME MuteShape, AllDecided, NEW u \in Mutees, NEW until, NEW calls, Commanded(u, until, calls)
  PROVE  AllDecided'
<1>1. PICK x \in Methods :
        Joined(x) /\ x.n = commands + 1 /\ x.user = u /\ x.until = until /\ x.calls = calls /\ x.head = {}
  BY CommandPending
<1>0. /\ pending' \in Seq(Methods) /\ DOMAIN pending' = DOMAIN pending \union {Len(pending) + 1}
      /\ \A k \in DOMAIN pending : pending'[k] = pending[k]
      /\ pending'[Len(pending) + 1] = x
  BY <1>1 DEF Joined
<1>2. /\ said' = [said EXCEPT ![u] = [n |-> commands + 1, until |-> until]] /\ said \in [Mutees -> [n : Nat, until : Nat]]
      /\ UNCHANGED <<muteStore, muteTable, expiries, clock>>
      /\ unsure' = IF Overtaken(u, until) THEN unsure \union {u} ELSE unsure \ {u}
  BY DEF Commanded, Command, MuteShape
<1>3. x.calls \in DecidingCalls
  BY <1>0, <1>1 DEF Commanded, DecidingCalls
<1>4. \A w \in Mutees : Commands(w)' = {k \in DOMAIN pending' : pending'[k].user = w /\ pending'[k].calls \in DecidingCalls}
  BY <1>0, <1>1, CommandsWillBe
<1>5. \A w \in Mutees : Commands(w) = {k \in DOMAIN pending : pending[k].user = w /\ pending[k].calls \in DecidingCalls}
  BY CommandsAre
<1> SUFFICES ASSUME NEW w \in Mutees, w \notin unsure' PROVE Decided(w)'
  BY DEF AllDecided
<1>6. CASE w # u
  <2>1. Decided(w) /\ said'[w] = said[w]
    BY <1>2, <1>6 DEF AllDecided
  <2>2. Commands(w)' = Commands(w)
    <3>1. \A k \in DOMAIN pending' : (k \in DOMAIN pending /\ pending'[k] = pending[k]) \/ pending'[k].user = u
      BY <1>0, <1>1
    <3>2. \A k \in DOMAIN pending : k \in DOMAIN pending' /\ pending'[k] = pending[k]
      BY <1>0, <1>1
    <3>3. \A k : k \in Commands(w)' <=> k \in Commands(w)
      BY <1>4, <1>5, <1>6, <3>1, <3>2
    <3> QED
      BY <3>3
  <2>3. \A k \in Commands(w) : pending'[k] = pending[k]
    BY <1>0, <1>1, <1>5
  <2>4. StoreTells(w) => StoreTells(w)'
    BY <1>2, <2>1, <2>2 DEF StoreTells, RowTells
  <2> QED
    BY <1>2, <2>1, <2>2, <2>3, <2>4 DEF Decided
<1>7. CASE w = u
  <2>1. said'[u].n = commands + 1 /\ said'[u].until = until
    BY <1>2
  <2>2. Len(pending) + 1 \in Commands(u)' /\ pending'[Len(pending) + 1].n = said'[u].n
    BY <1>0, <1>1, <1>3, <1>4, <2>1
  <2>3. ASSUME muteStore # "redis", NEW k \in Commands(u)'
        PROVE  (pending'[k].until = 0) <=> (until = 0)
    <3>1. ~Overtaken(u, until)
      BY <1>2, <1>7
    <3>2. \A j \in Commands(u) : (pending[j].until = 0) = (until = 0)
      BY <2>3, <3>1 DEF Overtaken
    <3>3. k \in Commands(u) \/ pending'[k] = x
      BY <1>0, <1>1, <1>4, <1>5, <2>3
    <3> QED
      BY <1>0, <1>1, <1>5, <3>2, <3>3
  <2> QED
    BY <1>2, <1>7, <2>1, <2>2, <2>3 DEF Decided
<1> QED
  BY <1>6, <1>7

LEMMA HydrateAgainDecided == ASSUME MuteShape, AllDecided, HydrateAgain PROVE AllDecided'
<1>1. PICK x \in Methods :
        /\ x.user = "all" /\ pending' \in Seq(Methods) /\ DOMAIN pending' = DOMAIN pending \union {Len(pending) + 1}
        /\ \A k \in DOMAIN pending : pending'[k] = pending[k]
        /\ pending'[Len(pending) + 1] = x
  BY HydrateAgainPending
<1> SUFFICES ASSUME NEW w \in Mutees, w \notin unsure PROVE Decided(w)'
  BY DEF AllDecided, HydrateAgain
<1>2. w # "all"
  BY MuteRowsAssumption
<1>3. Commands(w)' = {k \in DOMAIN pending' : pending'[k].user = w /\ pending'[k].calls \in DecidingCalls}
  BY <1>1, CommandsWillBe
<1>4. Commands(w) = {k \in DOMAIN pending : pending[k].user = w /\ pending[k].calls \in DecidingCalls}
  BY CommandsAre
<1>5. \A k \in DOMAIN pending' : pending'[k].user = w => k \in DOMAIN pending /\ pending'[k] = pending[k]
  BY <1>1, <1>2
<1>6. Commands(w)' = Commands(w) /\ \A k \in Commands(w) : pending'[k] = pending[k]
  BY <1>1, <1>3, <1>4, <1>5
<1>7. UNCHANGED <<muteStore, clock, muteTable, expiries, said>> /\ Decided(w)
  BY DEF HydrateAgain, AllDecided
<1>8. StoreTells(w) => StoreTells(w)'
  BY <1>6, <1>7 DEF StoreTells, RowTells
<1> QED
  BY <1>6, <1>7, <1>8 DEF Decided

LEMMA HydrateDecided == ASSUME AllDecided, Hydrate PROVE AllDecided'
BY DEF AllDecided, Decided, StoreTells, RowTells, Commands, PendingOf, Hydrate

LEMMA QuietTells ==
  ASSUME AllDecided, pending = <<>>, NEW u \in Mutees, u \notin unsure
  PROVE  StoreTells(u)
<1>1. Commands(u) = {}
  BY DEF Commands, PendingOf
<1> QED
  BY <1>1 DEF AllDecided, Decided

LEMMA TickDecided == ASSUME MuteShape, AllDecided, ClockTicks PROVE AllDecided'
<1> SUFFICES ASSUME NEW u \in Mutees, u \notin unsure PROVE Decided(u)'
  BY DEF AllDecided, ClockTicks
<1>1. StoreTells(u) /\ pending' = <<>> /\ clock' = clock + 1 /\ clock \in Nat
      /\ UNCHANGED <<muteStore, muteTable, expiries, said>>
  BY QuietTells DEF ClockTicks, MuteShape
<1>2. Commands(u)' = {}
  BY <1>1 DEF Commands, PendingOf
<1>3. said[u].until \in Nat /\ \A k \in DOMAIN muteTable : muteTable[k].until \in Nat
  <2>1. \A k \in DOMAIN muteTable : muteTable[k] \in Rows
    BY ItemOf DEF MuteShape
  <2> QED
    BY <2>1 DEF MuteShape, Rows
<1>4. \A k \in DOMAIN muteTable : muteTable[k].until > clock' => muteTable[k].until > clock
  BY <1>1, <1>3
<1>5. said[u].until > clock' => said[u].until > clock
  BY <1>1, <1>3
<1>6. StoreTells(u)'
  BY <1>1, <1>2, <1>4, <1>5 DEF StoreTells, RowTells
<1> QED
  BY <1>2, <1>6 DEF Decided

LEMMA EndDecided == ASSUME MuteShape, AllDecided, ProcessEnds PROVE AllDecided'
<1> SUFFICES ASSUME NEW u \in Mutees, u \notin unsure' PROVE Decided(u)'
  BY DEF AllDecided
<1>1. u \notin unsure /\ \A k \in DOMAIN pending : u \notin Blamed(pending[k])
  BY DEF ProcessEnds
<1>2. pending' = <<>> /\ UNCHANGED <<muteStore, muteTable, expiries, said, clock>>
  BY DEF ProcessEnds
<1>3. Commands(u)' = {}
  BY <1>2 DEF Commands, PendingOf
<1>4. \A k \in Commands(u) : pending[k].n # said[u].n
  BY <1>1 DEF Commands, PendingOf, Blamed
<1>5. StoreTells(u)
  BY <1>1, <1>4 DEF AllDecided, Decided
<1>6. StoreTells(u)'
  BY <1>2, <1>3, <1>5 DEF StoreTells, RowTells
<1> QED
  BY <1>3, <1>6 DEF Decided

LEMMA StartDecided == ASSUME MuteShape, AllDecided, Starts PROVE AllDecided'
<1>1. /\ pending' \in Seq(Methods) /\ pending = <<>>
      /\ \A k \in DOMAIN pending' : pending'[k].user = "all"
  BY StartPending
<1> SUFFICES ASSUME NEW u \in Mutees, u \notin unsure PROVE Decided(u)'
  BY DEF AllDecided, Starts
<1>2. Commands(u)' = {}
  BY <1>1, MuteRowsAssumption DEF Commands, PendingOf
<1>3. StoreTells(u)
  BY <1>1, QuietTells
<1>4. StoreTells(u)'
  BY <1>2, <1>3 DEF StoreTells, RowTells, Starts
<1> QED
  BY <1>2, <1>4 DEF Decided

-----------------------------------------------------------------------------
(* What a hydration hears *)

LEMMA ImageFinite ==
  ASSUME NEW S, IsFiniteSet(S), NEW f
  PROVE  IsFiniteSet({f[x] : x \in S}) /\ Cardinality({f[x] : x \in S}) <= Cardinality(S)
<1> DEFINE T == {f[x] : x \in S}
           g == [x \in S |-> f[x]]
<1>1. g \in Surjection(S, T)
  BY DEF Surjection
<1> HIDE DEF g, T
<1>2. IsFiniteSet(T) /\ Cardinality(T) <= Cardinality(S)
  BY <1>1, FS_Surjection
<1> QED
  BY <1>2 DEF T

LEMMA ActiveFinite == ASSUME MuteShape, NEW u \in Mutees PROVE IsFiniteSet(ActiveMutes[u])
<1>1. IsFiniteSet(DOMAIN muteTable)
  <2>1. Len(muteTable) \in Nat /\ DOMAIN muteTable = 1 .. Len(muteTable)
    BY ItemOf DEF MuteShape
  <2> QED
    BY <2>1, FS_Interval
<1>2. IsFiniteSet({muteTable[k].until : k \in DOMAIN muteTable})
  <2>1. PICK f : f = [k \in DOMAIN muteTable |-> muteTable[k].until]
    OBVIOUS
  <2>2. {muteTable[k].until : k \in DOMAIN muteTable} = {f[k] : k \in DOMAIN muteTable}
    BY <2>1
  <2> QED
    BY <1>1, <2>2, ImageFinite
<1>3. {row.until : row \in ActiveRows(u)} \subseteq {muteTable[k].until : k \in DOMAIN muteTable}
  BY DEF ActiveRows, ToSet
<1>4. IsFiniteSet({row.until : row \in ActiveRows(u)})
  BY <1>2, <1>3, FS_Subset
<1>5. IsFiniteSet({expiries[u]} \ (0 .. clock))
  <2>1. IsFiniteSet({expiries[u]})
    BY FS_Singleton
  <2> QED
    BY <2>1, FS_Subset
<1>6. \/ ActiveMutes[u] = {row.until : row \in ActiveRows(u)}
      \/ ActiveMutes[u] = {expiries[u]} \ (0 .. clock)
  BY DEF ActiveMutes, PostgresActive, MongoActive, RedisActive
<1> QED
  BY <1>4, <1>5, <1>6

\* What the store has of a user is what it finds of her.
LEMMA StoreSays ==
  ASSUME MuteShape, NEW u \in Mutees, StoreTells(u)
  PROVE  /\ said[u].until = 0 => ActiveMutes[u] = {}
         /\ said[u].until > clock => said[u].until \in ActiveMutes[u]
         /\ muteStore = "redis" => ActiveMutes[u] = {said[u].until} \ (0 .. clock)
<1>1. said[u].until \in Nat /\ clock \in Nat
  BY DEF MuteShape
<1>2. CASE muteStore = "redis"
  <2>1. ActiveMutes[u] = {said[u].until} \ (0 .. clock)
    BY <1>2 DEF StoreTells, ActiveMutes, RedisActive
  <2> QED
    BY <1>1, <2>1
<1>3. CASE muteStore # "redis"
  <2>1. ActiveMutes[u] = {row.until : row \in ActiveRows(u)}
    BY <1>3 DEF ActiveMutes, PostgresActive, MongoActive, MuteShape
  <2>2. ActiveRows(u) = {row \in ToSet(muteTable) : RowTells(row, u)}
    BY DEF ActiveRows, RowTells
  <2>3. said[u].until = 0 => ActiveMutes[u] = {}
    BY <1>3, <2>1, <2>2 DEF StoreTells, ToSet
  <2>4. said[u].until > clock => said[u].until \in ActiveMutes[u]
    BY <1>3, <2>1, <2>2 DEF StoreTells, ToSet
  <2> QED
    BY <1>3, <2>3, <2>4
<1> QED
  BY <1>2, <1>3

LEMMA SelectTells ==
  ASSUME MuteShape, AllDecided, NEW m \in Methods, Fits(m), m.calls \in ReadCalls
  PROVE  /\ AnswerTells(Found(m))
         /\ muteStore = "redis" =>
              \A u \in Mutees \ (Found(m).late \union unsure) : Found(m).found[u] = {said[u].until} \ (0 .. clock)
<1>1. Found(m).n = m.n /\ Found(m).found = ActiveMutes /\ Found(m).late = {u \in Mutees : Commands(u) # {}}
  BY FoundTypes
<1>2. m.n <= commands
  BY DEF Fits
<1>3. \A u \in Mutees : IsFiniteSet(ActiveMutes[u]) /\ \A t \in ActiveMutes[u] : t > clock
  BY ActiveTypes, ActiveFinite
<1>4. ASSUME NEW u \in Mutees \ (Found(m).late \union unsure)
      PROVE  /\ said[u].until = 0 => ActiveMutes[u] = {}
             /\ said[u].until > clock => said[u].until \in ActiveMutes[u]
             /\ muteStore = "redis" => ActiveMutes[u] = {said[u].until} \ (0 .. clock)
  <2>1. Commands(u) = {} /\ u \notin unsure
    BY <1>1
  <2>2. StoreTells(u)
    BY <2>1 DEF AllDecided, Decided
  <2> QED
    BY <2>2, StoreSays
<1> QED
  BY <1>1, <1>2, <1>3, <1>4 DEF AnswerTells

\* Hydrating from an answer that tells leaves a list that does.
LEMMA HydrationTells ==
  ASSUME MuteShape, NEW a \in Reads, AnswerTells(a), StillMuted(a.n), Hydrates(a), ListTold, running,
         muteStore = "redis" =>
           \A u \in Mutees \ (a.late \union unsure) : a.found[u] = {said[u].until} \ (0 .. clock),
         UNCHANGED <<muteStore, clock, running, said>>
  PROVE  ListTold' /\ \A n : StillMuted(n) => StillMuted(n)'
<1>1. PICK v \in [Mutees -> Nat] :
        /\ \A u \in Mutees :
             /\ v[u] = 0 => a.found[u] = {} \/ 0 \in a.found[u]
             /\ v[u] # 0 => v[u] \in a.found[u]
             /\ list'[u] = IF v[u] = 0 THEN list[u] ELSE v[u]
        /\ unheard' = Misheard(a, v)
  BY Hydrated DEF MuteShape
<1>2. clock \in Nat /\ said \in [Mutees -> [n : Nat, until : Nat]] /\ list \in [Mutees -> Nat] /\ a.n \in Nat
  BY DEF MuteShape, Reads
<1>3. ASSUME NEW u \in Mutees PROVE v[u] # 0 => v[u] > clock
  BY <1>1 DEF AnswerTells
<1>4. ASSUME NEW n, StillMuted(n) PROVE StillMuted(n)'
  <2> SUFFICES ASSUME NEW u \in unheard', said[u].n > n PROVE list'[u] > clock
    BY DEF StillMuted
  <2>1. u \in Mutees /\ (v[u] = 0 => u \in unheard)
    BY <1>1 DEF Misheard
  <2>2. CASE v[u] = 0
    BY <1>1, <1>4, <2>1, <2>2 DEF StillMuted
  <2>3. CASE v[u] # 0
    BY <1>1, <1>3, <2>1, <2>3
  <2> QED
    BY <2>2, <2>3
<1>5. ASSUME NEW u \in Mutees, u \notin unheard'
      PROVE  /\ said[u].until = 0 => list'[u] <= clock
             /\ said[u].until > clock => list'[u] = said[u].until
             /\ muteStore = "redis" => list'[u] <= IF said[u].until > clock THEN said[u].until ELSE clock
  <2>1. CASE v[u] # 0
    <3>1. /\ ~(said[u].n > a.n) /\ u \notin a.late \union unsure /\ ~(Cardinality(a.found[u]) > 1)
          /\ v[u] \in a.found[u] /\ list'[u] = v[u]
      BY <1>1, <1>5, <2>1 DEF Misheard
    <3>2. said[u].n <= a.n
      BY <1>2, <3>1
    <3>3. /\ said[u].until = 0 => a.found[u] = {}
          /\ said[u].until > clock => said[u].until \in a.found[u]
          /\ IsFiniteSet(a.found[u])
      BY <3>1, <3>2 DEF AnswerTells
    <3>4. said[u].until # 0
      BY <3>1, <3>3
    <3>5. said[u].until > clock => v[u] = said[u].until
      <4>1. ASSUME said[u].until > clock, v[u] # said[u].until PROVE FALSE
        <5>1. {v[u], said[u].until} \subseteq a.found[u]
          BY <3>1, <3>3, <4>1
        <5>2. Cardinality({v[u], said[u].until}) <= Cardinality(a.found[u]) /\ Cardinality(a.found[u]) \in Nat
          BY <3>3, <5>1, FS_Subset, FS_CardinalityType
        <5>3. Cardinality({v[u], said[u].until}) = 2
          <6>1. IsFiniteSet({v[u]}) /\ Cardinality({v[u]}) = 1
            BY FS_Singleton
          <6>2. said[u].until \notin {v[u]}
            BY <4>1
          <6>3. Cardinality({v[u]} \union {said[u].until}) = Cardinality({v[u]}) + 1
            BY <6>1, <6>2, FS_AddElement
          <6>4. {v[u]} \union {said[u].until} = {v[u], said[u].until}
            OBVIOUS
          <6> QED
            BY <6>1, <6>3, <6>4
        <5> QED
          BY <3>1, <5>2, <5>3
      <4> QED
        BY <4>1
    <3>6. muteStore = "redis" => said[u].until > clock
      <4>1. ASSUME muteStore = "redis" PROVE v[u] \in {said[u].until} \ (0 .. clock)
        BY <3>1, <4>1
      <4> QED
        BY <1>2, <4>1
    <3> QED
      BY <1>2, <3>1, <3>4, <3>5, <3>6
  <2>2. CASE v[u] = 0 /\ u \notin unheard
    <3>1. list'[u] = list[u]
      BY <1>1, <2>2
    <3> QED
      BY <2>2, <3>1 DEF ListTold
  <2>3. CASE v[u] = 0 /\ u \in unheard
    <3>1. ~(list[u] > clock) /\ u \notin unsure /\ u \notin a.late /\ list'[u] = list[u]
      BY <1>1, <1>5, <2>3 DEF Misheard
    <3>2. ~(said[u].n > a.n)
      BY <2>3, <3>1 DEF StillMuted
    <3>3. said[u].n <= a.n /\ list[u] <= clock
      BY <1>2, <3>1, <3>2
    <3>4. a.found[u] = {}
      BY <1>1, <1>2, <2>3 DEF AnswerTells
    <3>5. ~(said[u].until > clock)
      BY <3>1, <3>3, <3>4 DEF AnswerTells
    <3> QED
      BY <3>1, <3>3, <3>5
  <2> QED
    BY <2>1, <2>2, <2>3
<1>6. ListTold'
  BY <1>5 DEF ListTold
<1> QED
  BY <1>4, <1>6

LEMMA TellsStill ==
  ASSUME NEW a, AnswerTells(a), UNCHANGED <<commands, clock, said>>, unsure \subseteq unsure'
  PROVE  AnswerTells(a)'
BY DEF AnswerTells

LEMMA CallHeard ==
  ASSUME MuteShape, AllDecided, Heard, NEW i, NEW r, CallMade(i, r)
  PROVE  Heard'
<1> DEFINE m == pending[i]
<1>1. /\ m \in Methods /\ Fits(m) /\ i \in DOMAIN pending
      /\ r = <<>> \/ \E x \in Methods : r = <<x>> /\ Leaves(m, x)
  BY CallLeaves
<1>2. UNCHANGED <<muteStore, clock, running, commands, said>> /\ unsure \subseteq unsure'
  BY DEF CallMade, Inserts, Updates, Sets, Pushes, Trims, Looks, MarksIt, Scans, Selects, GivesUp, Writes
<1>3. running
  <2>1. pending # <<>>
    BY <1>1, ItemOf DEF MuteShape
  <2> QED
    BY <2>1 DEF MuteShape
<1>4. \A k \in DOMAIN pending' : pending'[k].user = "all" =>
        \E j \in DOMAIN pending : pending[j].user = "all" /\ pending[j].n = pending'[k].n
  <2>1. \A k \in DOMAIN pending' :
          \/ From(i, k) \in DOMAIN pending /\ pending'[k] = pending[From(i, k)]
          \/ Leaves(m, pending'[k])
    BY CallPending
  <2> QED
    BY <1>1, <2>1 DEF Leaves
<1>5. PICK a : a = Found(m)
  OBVIOUS
<1>6. a \in Reads /\ a.n = m.n
  BY <1>1, <1>5, FoundTypes
<1>7. m.calls \in ReadCalls => AnswerTells(a) /\ StillMuted(a.n) /\
        (muteStore = "redis" =>
           \A u \in Mutees \ (a.late \union unsure) : a.found[u] = {said[u].until} \ (0 .. clock))
  <2>1. m.calls \in ReadCalls => m.user = "all"
    BY <1>1 DEF Fits
  <2>2. m.user = "all" => StillMuted(m.n)
    BY <1>1 DEF Heard
  <2> QED
    BY <1>1, <1>5, <1>6, <2>1, <2>2, SelectTells
<1> HIDE DEF m
<1>8. \/ UNCHANGED <<list, unheard, answers>>
      \/ m.calls \in ReadCalls /\ muteStore = "redis" /\ Hydrates(a) /\ UNCHANGED answers
      \/ m.calls \in ReadCalls /\ answers' = answers \union {a} /\ UNCHANGED <<list, unheard>>
  <2>1. ASSUME Selects(m, r) PROVE m.calls \in ReadCalls
    BY <2>1 DEF Selects, ReadCalls
  <2>2. \/ UNCHANGED <<list, unheard, answers>>
        \/ Selects(m, r) /\ muteStore = "redis" /\ Hydrates(Found(m)) /\ UNCHANGED answers
        \/ Selects(m, r) /\ answers' = answers \union {Found(m)} /\ UNCHANGED <<list, unheard>>
    BY DEF CallMade, Inserts, Updates, Sets, Pushes, Trims, Looks, MarksIt, Scans, Selects, GivesUp, ListStays, m
  <2> QED
    BY <1>5, <2>1, <2>2
<1>9. ListTold' /\ \A n : StillMuted(n) => StillMuted(n)'
  <2>1. CASE UNCHANGED <<list, unheard>>
    BY <1>2, <2>1 DEF Heard, ListTold, StillMuted
  <2>2. CASE m.calls \in ReadCalls /\ muteStore = "redis" /\ Hydrates(a)
    BY <1>2, <1>3, <1>6, <1>7, <2>2, HydrationTells DEF Heard
  <2> QED
    BY <1>8, <2>1, <2>2
<1>10. ASSUME NEW b \in answers' PROVE AnswerTells(b)' /\ StillMuted(b.n)'
  <2>1. AnswerTells(b) /\ StillMuted(b.n)
    BY <1>7, <1>8, <1>10 DEF Heard
  <2> QED
    BY <1>2, <1>9, <2>1, TellsStill
<1>11. ASSUME NEW k \in DOMAIN pending', pending'[k].user = "all", NEW n, n = pending'[k].n PROVE StillMuted(n)'
  BY <1>4, <1>9, <1>11 DEF Heard
<1>12. \A k \in DOMAIN pending' : pending'[k].user = "all" => StillMuted(pending[k].n)'
  BY <1>11 DEF StillMuted
<1>13. \A b \in answers' : AnswerTells(b)' /\ StillMuted(b.n)'
  BY <1>10
<1> QED
  BY <1>9, <1>12, <1>13 DEF Heard

LEMMA CommandHeard ==
  ASSUME MuteShape, Heard, NEW u \in Mutees, NEW until, NEW calls, Commanded(u, until, calls)
  PROVE  Heard'
<1>1. PICK x \in Methods :
        Joined(x) /\ x.n = commands + 1 /\ x.user = u /\ x.until = until /\ x.calls = calls /\ x.head = {}
  BY CommandPending
<1>2. /\ pending' \in Seq(Methods) /\ DOMAIN pending' = DOMAIN pending \union {Len(pending) + 1}
      /\ \A k \in DOMAIN pending : pending'[k] = pending[k]
      /\ pending'[Len(pending) + 1] = x
  BY <1>1 DEF Joined
<1>3. /\ running /\ commands' = commands + 1 /\ list' = [list EXCEPT ![u] = until] /\ list \in [Mutees -> Nat]
      /\ said' = [said EXCEPT ![u] = [n |-> commands + 1, until |-> until]] /\ said \in [Mutees -> [n : Nat, until : Nat]]
      /\ unsure \subseteq unsure' \union {u}
      /\ unheard' = unheard \ {u} /\ unheard \in SUBSET Mutees
      /\ UNCHANGED <<muteStore, clock, running, answers>>
      /\ (until = 0 \/ until > clock) /\ until \in Nat /\ clock \in Nat /\ commands \in Nat
  BY DEF Commanded, Command, MuteShape
<1>4. /\ list'[u] = until /\ said'[u].n = commands + 1 /\ said'[u].until = until
      /\ \A w \in Mutees : w # u => list'[w] = list[w] /\ said'[w] = said[w]
  BY <1>3
<1>5. ASSUME NEW n, StillMuted(n) PROVE StillMuted(n)'
  <2>1. \A w \in unheard' : w \in unheard /\ list'[w] = list[w] /\ said'[w] = said[w]
    BY <1>3, <1>4
  <2> QED
    BY <1>3, <1>5, <2>1 DEF StillMuted
<1>6. ASSUME NEW a \in answers PROVE AnswerTells(a)'
  <2>1. AnswerTells(a) /\ a.n <= commands /\ a.n \in Nat
    BY DEF Heard, AnswerTells, MuteShape, Reads
  <2>2. a.n <= commands' /\ ~(said'[u].n <= a.n)
    BY <1>3, <1>4, <2>1
  <2>3. \A w \in Mutees \ (a.late \union unsure') : w # u => w \in Mutees \ (a.late \union unsure) /\ said'[w] = said[w]
    BY <1>3, <1>4
  <2> QED
    BY <1>3, <2>1, <2>2, <2>3 DEF AnswerTells
<1>7. ListTold'
  <2>1. ASSUME NEW w \in Mutees \ unheard'
        PROVE  /\ said'[w].until = 0 => list'[w] <= clock
               /\ said'[w].until > clock => list'[w] = said'[w].until
               /\ muteStore = "redis" => list'[w] <= IF said'[w].until > clock THEN said'[w].until ELSE clock
    <3>1. CASE w = u
      BY <1>3, <1>4, <3>1
    <3>2. CASE w # u
      BY <1>3, <1>4, <2>1, <3>2 DEF Heard, ListTold
    <3> QED
      BY <3>1, <3>2
  <2> QED
    BY <1>3, <2>1 DEF ListTold
<1>8. ASSUME NEW k \in DOMAIN pending', pending'[k].user = "all", NEW n, n = pending'[k].n PROVE StillMuted(n)'
  <2>1. k \in DOMAIN pending /\ pending'[k] = pending[k]
    BY <1>1, <1>2, <1>8, MuteRowsAssumption
  <2> QED
    BY <1>5, <1>8, <2>1 DEF Heard
<1>9. \A k \in DOMAIN pending' : pending'[k].user = "all" => StillMuted(pending[k].n)'
  BY <1>8 DEF StillMuted
<1>10. \A a \in answers' : AnswerTells(a)' /\ StillMuted(a.n)'
  BY <1>3, <1>5, <1>6 DEF Heard
<1> QED
  BY <1>7, <1>9, <1>10 DEF Heard

LEMMA NothingLater == ASSUME MuteShape, UNCHANGED <<said, list, unheard, clock, commands>> PROVE StillMuted(commands)'
<1>1. \A u \in unheard : ~(said[u].n > commands)
  BY DEF MuteShape
<1> QED
  BY <1>1 DEF StillMuted

LEMMA HydrateAgainHeard == ASSUME MuteShape, Heard, HydrateAgain PROVE Heard'
<1>1. PICK x \in Methods :
        /\ x.user = "all" /\ x.n = commands
        /\ pending' \in Seq(Methods) /\ DOMAIN pending' = DOMAIN pending \union {Len(pending) + 1}
        /\ \A k \in DOMAIN pending : pending'[k] = pending[k]
        /\ pending'[Len(pending) + 1] = x
  BY HydrateAgainPending
<1>2. UNCHANGED <<muteStore, clock, running, list, answers, commands, said, unsure, unheard>>
  BY DEF HydrateAgain
<1>3. StillMuted(commands)'
  BY <1>2, NothingLater
<1>4. ASSUME NEW k \in DOMAIN pending', pending'[k].user = "all" PROVE StillMuted(pending[k].n)'
  <2>1. CASE k \in DOMAIN pending
    BY <1>1, <1>2, <1>4, <2>1 DEF Heard, StillMuted
  <2>2. CASE pending'[k] = x
    BY <1>1, <1>2, <1>3, <2>2 DEF StillMuted
  <2> QED
    BY <1>1, <2>1, <2>2
<1> QED
  BY <1>2, <1>4 DEF Heard, AnswerTells, StillMuted, ListTold

LEMMA HydrateHeard == ASSUME MuteShape, Heard, Hydrate PROVE Heard'
<1>1. PICK a \in answers : Hydrates(a) /\ answers' = answers \ {a}
  BY DEF Hydrate
<1>2. UNCHANGED <<muteStore, clock, running, pending, commands, said, unsure>>
  BY DEF Hydrate
<1>3. a \in Reads /\ running /\ muteStore # "redis"
  BY <1>1 DEF MuteShape
<1>4. AnswerTells(a) /\ StillMuted(a.n) /\ ListTold
  BY DEF Heard
<1>5. ListTold' /\ \A n : StillMuted(n) => StillMuted(n)'
  BY <1>1, <1>2, <1>3, <1>4, HydrationTells
<1>6. \A b \in answers' : AnswerTells(b)' /\ StillMuted(b.n)'
  BY <1>1, <1>2, <1>5, TellsStill DEF Heard
<1>7. \A k \in DOMAIN pending' : pending'[k].user = "all" => StillMuted(pending[k].n)'
  BY <1>2, <1>5 DEF Heard, StillMuted
<1> QED
  BY <1>5, <1>6, <1>7 DEF Heard

LEMMA TickHeard == ASSUME MuteShape, Heard, ClockTicks PROVE Heard'
<1>1. /\ pending' = <<>> /\ answers' = {} /\ clock' = clock + 1 /\ clock \in Nat
      /\ UNCHANGED <<muteStore, running, list, said, unheard>>
  BY DEF ClockTicks, MuteShape
<1>2. ASSUME running, NEW u \in Mutees \ unheard
      PROVE  /\ said[u].until = 0 => list[u] <= clock'
             /\ said[u].until > clock' => list[u] = said[u].until
             /\ muteStore = "redis" => list[u] <= IF said[u].until > clock' THEN said[u].until ELSE clock'
  <2>1. list[u] \in Nat /\ said[u].until \in Nat
    BY DEF MuteShape
  <2>2. /\ said[u].until = 0 => list[u] <= clock
        /\ said[u].until > clock => list[u] = said[u].until
        /\ muteStore = "redis" => list[u] <= IF said[u].until > clock THEN said[u].until ELSE clock
    BY <1>2 DEF Heard, ListTold
  <2> QED
    BY <1>1, <2>1, <2>2
<1>3. ListTold'
  BY <1>1, <1>2 DEF ListTold
<1>4. DOMAIN pending' = {}
  BY <1>1
<1> QED
  BY <1>1, <1>3, <1>4 DEF Heard

LEMMA EndHeard == ASSUME ProcessEnds PROVE Heard'
<1>1. DOMAIN pending' = {} /\ answers' = {} /\ running' = FALSE
  BY DEF ProcessEnds
<1> QED
  BY <1>1 DEF Heard, ListTold

LEMMA StartHeard == ASSUME MuteShape, Starts PROVE Heard'
<1>1. /\ \A k \in DOMAIN pending' : pending'[k].n = commands
      /\ answers = {} /\ unheard = Mutees
  BY StartPending
<1>2. UNCHANGED <<said, list, unheard, clock, answers, commands>>
  BY DEF Starts
<1>3. StillMuted(commands)'
  BY <1>2, NothingLater
<1>4. \A k \in DOMAIN pending' : StillMuted(pending[k].n)'
  BY <1>1, <1>2, <1>3 DEF StillMuted
<1>5. ListTold'
  BY <1>1, <1>2 DEF ListTold
<1> QED
  BY <1>1, <1>2, <1>4, <1>5 DEF Heard

-----------------------------------------------------------------------------
(* The history of the mutes *)

\* What a method finds of itself in the list of methods, and of the others.
LEMMA CallAround ==
  ASSUME MuteShape, NEW i, NEW r, CallMade(i, r)
  PROVE  /\ i \in DOMAIN pending /\ pending[i] \in Methods /\ Fits(pending[i]) /\ (muteStore = "redis" => i = 1)
         /\ \A k \in DOMAIN pending' :
              \/ \E j \in DOMAIN pending : j # i /\ pending'[k] = pending[j]
              \/ r = <<pending'[k]>> /\ Leaves(pending[i], pending'[k])
         /\ \A j \in DOMAIN pending : j # i => \E k \in DOMAIN pending' : pending'[k] = pending[j]
         /\ \A x : r = <<x>> => \E k \in DOMAIN pending' : pending'[k] = x
         /\ \A j \in DOMAIN pending : pending[j] \in Methods /\ pending[j].n \in Nat /\ Fits(pending[j]) /\ j \in Nat /\ j > 0
         /\ \A k \in DOMAIN pending' : pending'[k] \in Methods /\ pending'[k].n \in Nat
         /\ UNCHANGED <<muteStore, clock, running, commands, said, hydrations>>
<1>1. i \in DOMAIN pending /\ pending[i] \in Methods /\ Fits(pending[i])
  BY CallLeaves
<1>2. /\ pending' \in Seq(Methods)
      /\ \A k \in DOMAIN pending' :
           \/ From(i, k) \in DOMAIN pending /\ From(i, k) # i /\ pending'[k] = pending[From(i, k)]
           \/ r = <<pending'[k]>> /\ Leaves(pending[i], pending'[k])
      /\ \A j \in DOMAIN pending : j # i => \E k \in DOMAIN pending' : pending'[k] = pending[j]
      /\ r # <<>> => Len(pending) \in DOMAIN pending' /\ r = <<pending'[Len(pending)]>>
  BY CallPending
<1>3. \A x : r = <<x>> => \E k \in DOMAIN pending' : pending'[k] = x
  BY <1>2
<1>4. \A j \in DOMAIN pending : pending[j] \in Methods /\ pending[j].n \in Nat /\ Fits(pending[j]) /\ j \in Nat /\ j > 0
  <2>1. Len(pending) \in Nat /\ DOMAIN pending = 1 .. Len(pending) /\ \A j \in DOMAIN pending : pending[j] \in Methods
    BY ItemOf DEF MuteShape
  <2>2. \A j \in DOMAIN pending : pending[j].n \in Nat
    BY <2>1 DEF Methods
  <2>3. \A j \in DOMAIN pending : Fits(pending[j])
    BY DEF MuteShape
  <2>4. \A j \in DOMAIN pending : j \in Nat /\ j > 0
    BY <2>1
  <2> QED
    BY <2>1, <2>2, <2>3, <2>4
<1>5. \A k \in DOMAIN pending' : pending'[k] \in Methods /\ pending'[k].n \in Nat
  <2>1. \A k \in DOMAIN pending' : pending'[k] \in Methods
    BY <1>2, ItemOf
  <2> QED
    BY <2>1 DEF Methods
<1>6. (muteStore = "redis" => i = 1) /\ UNCHANGED <<muteStore, clock, running, commands, said, hydrations>>
  BY DEF CallMade
<1> QED
  BY <1>1, <1>2, <1>3, <1>4, <1>5, <1>6

\* On redis a method that pushes or looks comes before those of the same stage and later ones.
LEMMA FirstInTurn ==
  ASSUME MuteShape, InTurn, muteStore = "redis", NEW i, NEW r, CallMade(i, r), NEW j \in DOMAIN pending, j # i,
         pending[i].user # "all", pending[j].user # "all", Stage(pending[j]) <= Stage(pending[i])
  PROVE  pending[i].n < pending[j].n
<1>1. i = 1 /\ i \in DOMAIN pending /\ j > 0 /\ j \in Nat /\ pending[i].n \in Nat /\ pending[j].n \in Nat
  BY CallAround
<1>2. pending[i].n # pending[j].n /\ (pending[j].n < pending[i].n =>
        /\ Stage(pending[j]) >= Stage(pending[i])
        /\ Stage(pending[j]) = Stage(pending[i]) => j < i)
  BY <1>1 DEF InTurn
<1>3. Stage(pending[i]) \in Nat /\ Stage(pending[j]) \in Nat
  BY StageOf
<1>4. ~(j < i)
  BY <1>1
<1> QED
  BY <1>1, <1>2, <1>3, <1>4

LEMMA Pushing ==
  ASSUME MuteShape, PushedInOrder, NEW i, NEW r, CallMade(i, r), Pushes(pending[i], r)
  PROVE  /\ muteStore = "redis" /\ pending[i].user \in Mutees /\ pending[i].user # "all" /\ Stage(pending[i]) = 2
         /\ pending[i].until # 0 /\ pending[i].n \in Nat /\ \A n \in recorded : n < pending[i].n /\ n \in Nat
         /\ DOMAIN muteLog' = 1 .. Len(muteLog) + 1 /\ Len(muteLog) \in Nat /\ DOMAIN muteLog = 1 .. Len(muteLog)
         /\ muteLog'[1] = Entry(pending[i]) /\ \A k \in 1 .. Len(muteLog) : muteLog'[k + 1] = muteLog[k]
         /\ recorded' = recorded \union {pending[i].n} /\ clobbered' = clobbered
<1> DEFINE m == pending[i]
<1>1. i \in DOMAIN pending /\ m \in Methods /\ Fits(m) /\ m.n \in Nat
  BY CallAround
<1>2. m.calls = <<"lpush", "ltrim">> /\ muteLog' = <<Entry(m)>> \o muteLog /\ recorded' = recorded \union {m.n}
      /\ clobbered' = clobbered
  BY DEF Pushes
<1>3. m.calls \notin ReadCalls /\ m.calls \notin UnmuteCalls /\ Stage(m) = 2
  BY <1>2 DEF ReadCalls, UnmuteCalls, Stage
<1>4. m.user \in Mutees /\ m.user # "all" /\ m.until # 0 /\ muteStore = "redis"
  BY <1>1, <1>2, <1>3, MuteRowsAssumption DEF Fits
<1>5. \A n \in recorded : n < m.n /\ n \in Nat
  <2>1. Stage(m) < 3
    BY <1>3
  <2>2. \A n \in recorded : n < m.n
    BY <1>1, <1>4, <2>1 DEF PushedInOrder
  <2>3. \A n \in recorded : n \in Nat
    BY DEF MuteShape
  <2> QED
    BY <2>2, <2>3
<1>6. Entry(m) \in Rows
  BY <1>1, <1>4, EntryRow
<1>7. PICK e \in Rows : e = Entry(m)
  BY <1>6
<1> HIDE DEF m
<1>8. /\ DOMAIN (<<e>> \o muteLog) = 1 .. Len(muteLog) + 1 /\ (<<e>> \o muteLog)[1] = e
      /\ \A k \in 1 .. Len(muteLog) : (<<e>> \o muteLog)[k + 1] = muteLog[k]
      /\ Len(muteLog) \in Nat /\ DOMAIN muteLog = 1 .. Len(muteLog)
  BY Prefixed, ItemOf DEF MuteShape
<1>9. /\ DOMAIN muteLog' = 1 .. Len(muteLog) + 1 /\ muteLog'[1] = Entry(m)
      /\ \A k \in 1 .. Len(muteLog) : muteLog'[k + 1] = muteLog[k]
  BY <1>2, <1>7, <1>8
<1> QED
  BY <1>1, <1>2, <1>3, <1>4, <1>5, <1>8, <1>9 DEF m

LEMMA Trimming ==
  ASSUME MuteShape, NEW i, NEW r, CallMade(i, r), Trims(pending[i], r)
  PROVE  /\ muteStore = "redis" /\ recorded' = recorded /\ clobbered' = clobbered
         /\ \A k \in DOMAIN muteLog' : k \in DOMAIN muteLog /\ muteLog'[k] = muteLog[k]
         /\ \A k \in DOMAIN muteLog : k <= LogLength => k \in DOMAIN muteLog'
         /\ muteLog # <<>> => muteLog' # <<>> /\ 1 \in DOMAIN muteLog' /\ muteLog'[1] = muteLog[1]
         /\ muteLog' # <<>> => muteLog # <<>>
<1>1. muteStore = "redis"
  <2>1. Fits(pending[i]) /\ pending[i].calls = <<"ltrim">>
    BY CallAround DEF Trims
  <2> QED
    BY <2>1 DEF Fits
<1>2. LogLength \in Nat /\ LogLength >= 1
  BY MuteRowsAssumption
<1>3. muteLog' = FirstOf(muteLog, LogLength) /\ recorded' = recorded /\ clobbered' = clobbered /\ muteLog \in Seq(Rows)
  BY DEF Trims, MuteShape
<1>4. /\ muteLog' \in Seq(Rows)
      /\ \A k \in DOMAIN muteLog' : k \in DOMAIN muteLog /\ muteLog'[k] = muteLog[k]
      /\ \A k \in DOMAIN muteLog : k <= LogLength => k \in DOMAIN muteLog'
  BY <1>2, <1>3, FirstOnes
<1>5. muteLog # <<>> <=> 1 \in DOMAIN muteLog
  <2>1. Len(muteLog) \in Nat /\ DOMAIN muteLog = 1 .. Len(muteLog) /\ (muteLog = <<>> <=> Len(muteLog) = 0)
    BY <1>3, ItemOf
  <2> QED
    BY <2>1
<1>6. muteLog' # <<>> <=> 1 \in DOMAIN muteLog'
  <2>1. PICK s : s = muteLog'
    OBVIOUS
  <2>2. Len(s) \in Nat /\ DOMAIN s = 1 .. Len(s) /\ (s = <<>> <=> Len(s) = 0)
    BY <1>4, <2>1, ItemOf
  <2> QED
    BY <2>1, <2>2
<1> QED
  BY <1>1, <1>2, <1>3, <1>4, <1>5, <1>6

LEMMA Marking ==
  ASSUME MuteShape, Marks, NEW i, NEW r, CallMade(i, r), MarksIt(pending[i], r)
  PROVE  /\ muteStore = "redis" /\ recorded' = recorded /\ muteLog # <<>> /\ muteLog' # <<>> /\ 1 \in DOMAIN muteLog
         /\ pending[i].user \in Mutees
         /\ DOMAIN muteLog' = DOMAIN muteLog /\ \A k \in DOMAIN muteLog : k # 1 => muteLog'[k] = muteLog[k]
         /\ \E c : /\ pending[i].head = {c} /\ muteLog'[1] = c /\ ~c.open /\ c.user = pending[i].user
                   /\ c.n \in recorded /\ c.n < pending[i].n
                   /\ clobbered = 0 => \A k \in DOMAIN muteLog : muteLog[k].n = c.n => muteLog[k].user = c.user
                   /\ clobbered' = IF c.n # muteLog[1].n THEN clobbered + 1 ELSE clobbered
<1> DEFINE m == pending[i]
<1>1. i \in DOMAIN pending /\ m \in Methods /\ Fits(m) /\ m.calls = <<"lset">>
  BY CallAround DEF MarksIt
<1>2. PICK c : /\ m.head = {c} /\ ~c.open /\ c.user = m.user /\ c.n \in recorded /\ c.n < m.n /\ muteLog # <<>>
               /\ clobbered = 0 => \A k \in DOMAIN muteLog : muteLog[k].n = c.n => muteLog[k].user = c.user
  BY <1>1 DEF Marks
<1>3. muteStore = "redis" /\ m.user \in Mutees
  BY <1>1 DEF Fits, ReadCalls
<1>4. muteLog \in Seq(Rows) /\ Len(muteLog) \in Nat /\ DOMAIN muteLog = 1 .. Len(muteLog) /\ (muteLog = <<>> <=> Len(muteLog) = 0)
  BY ItemOf DEF MuteShape
<1>5. 1 \in DOMAIN muteLog
  BY <1>2, <1>4
<1>6. (CHOOSE e \in m.head : TRUE) = c
  BY <1>2
<1>7. /\ muteLog' = [muteLog EXCEPT ![1] = c] /\ recorded' = recorded
      /\ clobbered' = IF c.n # muteLog[1].n THEN clobbered + 1 ELSE clobbered
  BY <1>2, <1>6 DEF MarksIt
<1>8. muteLog' # <<>>
  <2>1. PICK s : s = muteLog'
    OBVIOUS
  <2>2. 1 \in DOMAIN s
    BY <1>4, <1>5, <1>7, <2>1
  <2>3. s # <<>>
    BY <2>2, EmptySeq
  <2> QED
    BY <2>1, <2>3
<1> HIDE DEF m
<1>9. DOMAIN muteLog' = DOMAIN muteLog /\ muteLog'[1] = c /\ \A k \in DOMAIN muteLog : k # 1 => muteLog'[k] = muteLog[k]
  BY <1>4, <1>5, <1>7
<1> QED
  BY <1>2, <1>3, <1>5, <1>7, <1>8, <1>9 DEF m

\* Only these calls change the log.
LEMMA LogCalls ==
  ASSUME MuteShape, NEW i, NEW r, CallMade(i, r)
  PROVE  \/ Inserts(pending[i], r) /\ muteStore # "redis" /\ UNCHANGED <<muteLog, clobbered>>
         \/ Pushes(pending[i], r)
         \/ Trims(pending[i], r)
         \/ MarksIt(pending[i], r)
         \/ UNCHANGED <<muteLog, recorded, clobbered>>
<1>1. Fits(pending[i])
  BY CallAround
<1>2. ASSUME Inserts(pending[i], r) PROVE muteStore # "redis" /\ UNCHANGED <<muteLog, clobbered>>
  BY <1>1, <1>2 DEF Inserts, Fits
<1> QED
  BY <1>2 DEF CallMade, Updates, Sets, Looks, Scans, Selects, GivesUp, LogStays

LEMMA CallRowsOnce ==
  ASSUME MuteShape, InTurn, RowsOnce, NEW i, NEW r, CallMade(i, r)
  PROVE  RowsOnce'
<1> DEFINE m == pending[i]
<1>1. /\ i \in DOMAIN pending /\ m \in Methods /\ Fits(m) /\ muteStore' = muteStore
      /\ \A k \in DOMAIN pending' :
           \/ \E j \in DOMAIN pending : j # i /\ pending'[k] = pending[j]
           \/ r = <<pending'[k]>> /\ Leaves(m, pending'[k])
  BY CallAround, Zenon
<1> SUFFICES ASSUME muteStore # "redis"
             PROVE  /\ \A n \in recorded' : \E k \in DOMAIN muteTable' : muteTable'[k].n = n
                    /\ \A k \in DOMAIN muteTable' : muteTable'[k].n \in recorded'
                    /\ \A k, l \in DOMAIN muteTable' : k # l => muteTable'[k].n # muteTable'[l].n
                    /\ \A k \in DOMAIN pending' : pending'[k].user # "all" => pending'[k].n \notin recorded'
  BY <1>1 DEF RowsOnce
<1>2. /\ \A n \in recorded : \E k \in DOMAIN muteTable : muteTable[k].n = n
      /\ \A k \in DOMAIN muteTable : muteTable[k].n \in recorded
      /\ \A k, l \in DOMAIN muteTable : k # l => muteTable[k].n # muteTable[l].n
      /\ \A j \in DOMAIN pending : pending[j].user # "all" => pending[j].n \notin recorded
  BY DEF RowsOnce
<1>3. m.user = "all" => m.calls \in ReadCalls
  BY <1>1, MuteRowsAssumption DEF Fits
<1>4. muteTable \in Seq(Rows) /\ Len(muteTable) \in Nat /\ DOMAIN muteTable = 1 .. Len(muteTable)
      /\ \A k \in DOMAIN muteTable : muteTable[k] \in Rows
  BY ItemOf DEF MuteShape
<1>5. \A j \in DOMAIN pending : j # i /\ m.user # "all" /\ pending[j].user # "all" => pending[j].n # m.n
  BY <1>1 DEF InTurn
<1>6. \A k \in DOMAIN pending' : pending'[k].user # "all" =>
        \/ \E j \in DOMAIN pending : j # i /\ pending'[k] = pending[j] /\ pending[j].user # "all"
        \/ r # <<>> /\ m.user # "all" /\ pending'[k].n = m.n
  BY <1>1 DEF Leaves
<1>7. \A k \in DOMAIN pending' : pending'[k].user # "all" => pending'[k].n \notin recorded
  BY <1>1, <1>2, <1>6
<1> HIDE DEF m
<1>8. CASE Inserts(m, r)
  <2>1. m.calls = <<"insert">> /\ r = <<>> /\ muteTable' = Append(muteTable, Entry(m)) /\ recorded' = recorded \union {m.n}
    BY <1>8 DEF Inserts
  <2>2. m.calls \notin ReadCalls /\ m.user \in Mutees /\ m.user # "all"
    BY <1>1, <1>3, <2>1 DEF ReadCalls, Fits
  <2>3. PICK e \in Rows : e = Entry(m) /\ e.n = m.n
    BY <1>1, <2>2, EntryRow DEF Entry
  <2>4. /\ DOMAIN muteTable' = DOMAIN muteTable \union {Len(muteTable) + 1} /\ Len(muteTable) + 1 \notin DOMAIN muteTable
        /\ \A k \in DOMAIN muteTable : muteTable'[k] = muteTable[k]
        /\ muteTable'[Len(muteTable) + 1] = e
    <3>1. /\ DOMAIN Append(muteTable, e) = DOMAIN muteTable \union {Len(muteTable) + 1}
          /\ Len(muteTable) + 1 \notin DOMAIN muteTable
          /\ \A k \in DOMAIN muteTable : Append(muteTable, e)[k] = muteTable[k]
          /\ Append(muteTable, e)[Len(muteTable) + 1] = e
      BY <1>4, Enqueued
    <3> QED
      BY <2>1, <2>3, <3>1
  <2>5. m.n \notin recorded
    BY <1>1, <1>2, <2>2 DEF m
  <2>6. \A k \in DOMAIN pending' : pending'[k].user # "all" => pending'[k].n # m.n
    BY <1>5, <1>6, <2>1, <2>2
  <2>7. \A k, l \in DOMAIN muteTable' : k # l => muteTable'[k].n # muteTable'[l].n
    BY <1>2, <2>3, <2>4, <2>5
  <2>8. \A n \in recorded' : \E k \in DOMAIN muteTable' : muteTable'[k].n = n
    <3>1. ASSUME NEW n \in recorded PROVE \E k \in DOMAIN muteTable' : muteTable'[k].n = n
      BY <1>2, <2>4
    <3>2. \E k \in DOMAIN muteTable' : muteTable'[k].n = m.n
      BY <2>3, <2>4
    <3> QED
      BY <2>1, <3>1, <3>2
  <2>9. \A k \in DOMAIN muteTable' : muteTable'[k].n \in recorded'
    BY <1>2, <2>1, <2>3, <2>4
  <2> QED
    BY <1>7, <2>1, <2>6, <2>7, <2>8, <2>9
<1>9. CASE Updates(m, r)
  <2>1. DOMAIN muteTable' = DOMAIN muteTable /\ \A k \in DOMAIN muteTable : muteTable'[k].n = muteTable[k].n
    <3>1. \A row \in Rows : Closed(row, m).n = row.n
      BY DEF Closed, Rows
    <3>2. DOMAIN muteTable' = DOMAIN muteTable /\ \A k \in DOMAIN muteTable : muteTable'[k] = Closed(muteTable[k], m)
      BY <1>9 DEF Updates
    <3> QED
      BY <1>4, <3>1, <3>2
  <2>2. recorded' = recorded
    BY <1>9 DEF Updates, LogStays
  <2> QED
    BY <1>2, <1>7, <2>1, <2>2
<1>10. CASE UNCHANGED <<muteTable, recorded>>
  BY <1>2, <1>7, <1>10
<1>11. ~Pushes(m, r)
  BY <1>1 DEF Pushes, Fits
<1>12. Inserts(m, r) \/ Updates(m, r) \/ UNCHANGED <<muteTable, recorded>>
  BY <1>11 DEF CallMade, Sets, Trims, Looks, MarksIt, Scans, Selects, GivesUp, LogStays, m
<1> QED
  BY <1>8, <1>9, <1>10, <1>12

LEMMA CallPushed ==
  ASSUME MuteShape, InTurn, PushedInOrder, NEW i, NEW r, CallMade(i, r)
  PROVE  PushedInOrder'
<1> DEFINE m == pending[i]
<1>1. /\ i \in DOMAIN pending /\ m \in Methods /\ Fits(m) /\ muteStore' = muteStore /\ m.n \in Nat
      /\ \A k \in DOMAIN pending' :
           \/ \E j \in DOMAIN pending : j # i /\ pending'[k] = pending[j]
           \/ r = <<pending'[k]>> /\ Leaves(m, pending'[k])
      /\ \A j \in DOMAIN pending : pending[j].n \in Nat
  BY CallAround
<1> SUFFICES ASSUME muteStore = "redis", NEW k \in DOMAIN pending', pending'[k].user # "all", Stage(pending'[k]) < 3
             PROVE  \A n \in recorded' : n < pending'[k].n
  <2>1. \A k \in DOMAIN pending' : Stage(pending[k])' = Stage(pending'[k])
    BY DEF Stage
  <2> QED
    BY <1>1, <2>1 DEF PushedInOrder
<1>2. \A n \in recorded : n < pending'[k].n
  <2>1. CASE \E j \in DOMAIN pending : j # i /\ pending'[k] = pending[j]
    BY <2>1 DEF PushedInOrder
  <2>2. CASE Leaves(m, pending'[k])
    <3>1. m.user # "all" /\ pending'[k].n = m.n /\ Stage(pending'[k]) = Stage(m) + 1
      BY <2>2 DEF Leaves
    <3>2. Stage(m) < 3
      BY <3>1, StageOf
    <3> QED
      BY <1>1, <3>1, <3>2 DEF PushedInOrder
  <2> QED
    BY <1>1, <2>1, <2>2
<1>3. CASE Pushes(m, r)
  <2>1. m.user # "all" /\ Stage(m) = 2 /\ recorded' = recorded \union {m.n}
    BY <1>3, Pushing
  <2>2. ~Leaves(m, pending'[k])
    BY <2>1 DEF Leaves
  <2>3. PICK j \in DOMAIN pending : j # i /\ pending'[k] = pending[j]
    BY <1>1, <2>2
  <2>4. Stage(pending[j]) <= Stage(m)
    BY <2>1, <2>3, StageOf
  <2>5. m.n < pending[j].n
    BY <2>1, <2>3, <2>4, FirstInTurn
  <2> QED
    BY <1>2, <2>1, <2>3, <2>5
<1>4. Pushes(m, r) \/ recorded' = recorded
  BY LogCalls DEF Trims, MarksIt
<1> QED
  BY <1>2, <1>3, <1>4

LEMMA CallFalls ==
  ASSUME MuteShape, PushedInOrder, LogRanks, Marks, LogFalls, NEW i, NEW r, CallMade(i, r), MuteShape'
  PROVE  LogFalls'
<1> SUFFICES ASSUME clobbered' = 0
             PROVE  /\ \A k, l \in DOMAIN muteLog' : k < l => muteLog'[k].n > muteLog'[l].n
                    /\ muteLog' # <<>> => \A n \in recorded' : n <= muteLog'[1].n
  BY DEF LogFalls
<1> DEFINE m == pending[i]
<1>1. CASE Pushes(m, r)
  <2>1. /\ m.n \in Nat /\ (\A n \in recorded : n < m.n /\ n \in Nat)
        /\ DOMAIN muteLog' = 1 .. Len(muteLog) + 1 /\ Len(muteLog) \in Nat /\ DOMAIN muteLog = 1 .. Len(muteLog)
        /\ muteLog'[1] = Entry(m) /\ (\A k \in 1 .. Len(muteLog) : muteLog'[k + 1] = muteLog[k])
        /\ recorded' = recorded \union {m.n} /\ clobbered' = clobbered
    BY <1>1, Pushing
  <2>2. /\ \A k, l \in DOMAIN muteLog : k < l => muteLog[k].n > muteLog[l].n
        /\ \A k \in DOMAIN muteLog : muteLog[k].n \in recorded
    BY <2>1 DEF LogFalls, LogRanks
  <2>3. Entry(m).n = m.n
    BY DEF Entry
  <2> HIDE DEF m
  <2>4. \A n \in recorded' : n <= muteLog'[1].n
    BY <2>1, <2>3
  <2>5. ASSUME NEW k \in DOMAIN muteLog', NEW l \in DOMAIN muteLog', k < l PROVE muteLog'[k].n > muteLog'[l].n
    <3>1. l - 1 \in DOMAIN muteLog /\ (l - 1) + 1 = l
      BY <2>1, <2>5
    <3>2. muteLog'[l] = muteLog[l - 1] /\ muteLog[l - 1].n \in recorded
      BY <2>1, <2>2, <3>1
    <3>3. CASE k = 1
      BY <2>1, <2>3, <3>2, <3>3
    <3>4. CASE k # 1
      <4>1. k - 1 \in DOMAIN muteLog /\ (k - 1) + 1 = k /\ k - 1 < l - 1
        BY <2>1, <2>5, <3>4
      <4>2. muteLog'[k] = muteLog[k - 1]
        BY <2>1, <4>1
      <4> QED
        BY <2>2, <3>1, <3>2, <4>1, <4>2
    <3> QED
      BY <3>3, <3>4
  <2> QED
    BY <2>4, <2>5
<1>2. CASE Trims(m, r)
  <2>1. /\ recorded' = recorded /\ clobbered' = clobbered
        /\ \A k \in DOMAIN muteLog' : k \in DOMAIN muteLog /\ muteLog'[k] = muteLog[k]
        /\ muteLog # <<>> => muteLog'[1] = muteLog[1]
        /\ muteLog' # <<>> => muteLog # <<>>
    BY <1>2, Trimming
  <2> QED
    BY <2>1 DEF LogFalls
<1>3. CASE MarksIt(m, r)
  <2>1. PICK c : muteLog'[1] = c /\ clobbered' = IF c.n # muteLog[1].n THEN clobbered + 1 ELSE clobbered
    BY <1>3, Marking
  <2>2. /\ recorded' = recorded /\ muteLog # <<>> /\ 1 \in DOMAIN muteLog
        /\ DOMAIN muteLog' = DOMAIN muteLog /\ \A k \in DOMAIN muteLog : k # 1 => muteLog'[k] = muteLog[k]
    BY <1>3, Marking
  <2>3. c.n = muteLog[1].n /\ clobbered = 0
    BY <2>1 DEF MuteShape
  <2>4. \A k \in DOMAIN muteLog' : muteLog'[k].n = muteLog[k].n
    BY <2>1, <2>2, <2>3
  <2> QED
    BY <2>1, <2>2, <2>3, <2>4 DEF LogFalls
<1>4. CASE muteLog' = <<>>
  BY <1>4
<1>5. CASE UNCHANGED <<muteLog, recorded, clobbered>>
  BY <1>5 DEF LogFalls
<1>6. ASSUME muteStore # "redis" PROVE muteLog' = <<>>
  BY <1>6 DEF MuteShape, CallMade
<1> QED
  BY <1>1, <1>2, <1>3, <1>4, <1>5, <1>6, LogCalls

\* How many were recorded after one.
After(n) == {k \in recorded : k > n}

LEMMA RecordedFinite ==
  ASSUME MuteShape
  PROVE  IsFiniteSet(recorded) /\ \A n : IsFiniteSet(After(n)) /\ Cardinality(After(n)) \in Nat
<1>1. IsFiniteSet(1 .. commands)
  BY FS_Interval DEF MuteShape
<1>2. IsFiniteSet(recorded)
  BY <1>1, FS_Subset DEF MuteShape
<1>3. \A n : IsFiniteSet(After(n))
  BY <1>2, FS_Subset DEF After
<1> QED
  BY <1>2, <1>3, FS_CardinalityType

\* The numbers in the log, and the newest that are missing there.
Listed == {muteLog[k].n : k \in DOMAIN muteLog}
Missing == NewestRecorded \ Listed

LEMMA RanksAre ==
  LogRanks <=>
    /\ \A k \in DOMAIN muteLog : muteLog[k].n \in recorded /\ Cardinality(After(muteLog[k].n)) >= k - 1
    /\ muteStore = "redis" => Cardinality(Missing) <= clobbered
BY DEF LogRanks, After, Missing, Listed

LEMMA MissingFinite ==
  ASSUME MuteShape
  PROVE  IsFiniteSet(Missing) /\ Cardinality(Missing) \in Nat
<1>1. Missing \subseteq recorded
  BY DEF Missing, NewestRecorded
<1> QED
  BY <1>1, RecordedFinite, FS_Subset, FS_CardinalityType

LEMMA CallRanks ==
  ASSUME MuteShape, PushedInOrder, LogRanks, Marks, NEW i, NEW r, CallMade(i, r), MuteShape'
  PROVE  LogRanks'
<1> DEFINE m == pending[i]
<1>1. /\ \A k \in DOMAIN muteLog : muteLog[k].n \in recorded /\ Cardinality(After(muteLog[k].n)) >= k - 1
      /\ muteStore = "redis" => Cardinality(Missing) <= clobbered
  BY RanksAre
<1>2. muteStore' = muteStore /\ muteLog \in Seq(Rows) /\ Len(muteLog) \in Nat /\ DOMAIN muteLog = 1 .. Len(muteLog)
      /\ clobbered \in Nat
  BY ItemOf DEF CallMade, MuteShape
<1>3. /\ IsFiniteSet(recorded) /\ \A n : IsFiniteSet(After(n)) /\ Cardinality(After(n)) \in Nat
      /\ IsFiniteSet(Missing) /\ Cardinality(Missing) \in Nat
  BY RecordedFinite, MissingFinite
<1> SUFFICES /\ \A k \in DOMAIN muteLog' : muteLog'[k].n \in recorded' /\ Cardinality({l \in recorded' : l > muteLog'[k].n}) >= k - 1
             /\ muteStore = "redis" => Cardinality(Missing') <= clobbered'
  BY <1>2 DEF LogRanks, Missing, Listed
<1>4. ASSUME Missing' \subseteq Missing PROVE Cardinality(Missing') <= Cardinality(Missing)
  <2>1. PICK M : M = Missing'
    OBVIOUS
  <2> QED
    BY <1>3, <1>4, <2>1, FS_Subset
<1>5. CASE Pushes(m, r)
  <2>1. /\ m.n \in Nat /\ (\A n \in recorded : n < m.n /\ n \in Nat)
        /\ DOMAIN muteLog' = 1 .. Len(muteLog) + 1
        /\ muteLog'[1] = Entry(m) /\ (\A k \in 1 .. Len(muteLog) : muteLog'[k + 1] = muteLog[k])
        /\ recorded' = recorded \union {m.n} /\ clobbered' = clobbered /\ muteStore = "redis"
    BY <1>5, Pushing
  <2>2. Entry(m).n = m.n
    BY DEF Entry
  <2> HIDE DEF m
  <2>3. ASSUME NEW k \in DOMAIN muteLog'
        PROVE  muteLog'[k].n \in recorded' /\ Cardinality({l \in recorded' : l > muteLog'[k].n}) >= k - 1
    <3>1. CASE k = 1
      <4>1. muteLog'[k].n \in recorded'
        BY <2>1, <2>2, <3>1
      <4>2. IsFiniteSet({l \in recorded' : l > muteLog'[k].n})
        <5>1. IsFiniteSet(recorded')
          BY <1>3, <2>1, FS_AddElement
        <5> QED
          BY <5>1, FS_Subset
      <4>3. Cardinality({l \in recorded' : l > muteLog'[k].n}) \in Nat
        BY <4>2, FS_CardinalityType
      <4> QED
        BY <3>1, <4>1, <4>3
    <3>2. CASE k # 1
      <4>1. k - 1 \in DOMAIN muteLog /\ k - 1 \in 1 .. Len(muteLog) /\ (k - 1) + 1 = k
        BY <1>2, <2>1, <3>2
      <4>2. PICK n : n = muteLog[k - 1].n
        OBVIOUS
      <4>3. muteLog'[k].n = n /\ n \in recorded /\ Cardinality(After(n)) >= (k - 1) - 1
        BY <1>1, <2>1, <4>1, <4>2
      <4>4. {l \in recorded' : l > n} = After(n) \union {m.n} /\ m.n \notin After(n)
        BY <2>1, <4>3 DEF After
      <4>5. Cardinality(After(n) \union {m.n}) = Cardinality(After(n)) + 1
        BY <1>3, <4>4, FS_AddElement
      <4>6. {l \in recorded' : l > muteLog'[k].n} = After(n) \union {m.n}
        BY <4>3, <4>4
      <4>7. PICK c : c = Cardinality(After(n))
        OBVIOUS
      <4>8. c \in Nat /\ c >= (k - 1) - 1 /\ k \in Nat
        BY <1>2, <1>3, <2>1, <4>3, <4>7
      <4>9. c + 1 >= k - 1
        BY <4>8
      <4>10. muteLog'[k].n \in recorded'
        BY <2>1, <4>3
      <4> QED
        BY <4>5, <4>6, <4>7, <4>9, <4>10
    <3> QED
      BY <3>1, <3>2
  <2>4. Missing' \subseteq Missing
    <3> SUFFICES ASSUME NEW n \in Missing' PROVE n \in Missing
      OBVIOUS
    <3>1. n \in recorded' /\ Cardinality({k \in recorded' : k > n}) < LogLength /\ \A k \in DOMAIN muteLog' : muteLog'[k].n # n
      BY <1>2, <2>1 DEF Missing, Listed, NewestRecorded
    <3>2. n # m.n /\ n \in recorded
      <4>1. 1 \in DOMAIN muteLog'
        BY <1>2, <2>1
      <4> QED
        BY <2>1, <2>2, <3>1, <4>1
    <3>3. \A k \in DOMAIN muteLog : muteLog[k].n # n
      <4>1. ASSUME NEW k \in DOMAIN muteLog PROVE muteLog[k].n # n
        <5>1. k + 1 \in DOMAIN muteLog' /\ muteLog'[k + 1] = muteLog[k]
          BY <1>2, <2>1
        <5> QED
          BY <3>1, <5>1
      <4> QED
        BY <4>1
    <3>4. Cardinality(After(n)) < LogLength
      <4>1. After(n) \subseteq {k \in recorded' : k > n}
        BY <2>1 DEF After
      <4>2. IsFiniteSet({k \in recorded' : k > n})
        <5>1. IsFiniteSet(recorded')
          BY <1>3, <2>1, FS_AddElement
        <5> QED
          BY <5>1, FS_Subset
      <4>3. Cardinality(After(n)) <= Cardinality({k \in recorded' : k > n}) /\ Cardinality({k \in recorded' : k > n}) \in Nat
        BY <4>1, <4>2, FS_Subset, FS_CardinalityType
      <4>4. LogLength \in Nat
        BY MuteRowsAssumption
      <4> QED
        BY <1>3, <3>1, <4>3, <4>4
    <3> QED
      BY <3>2, <3>3, <3>4 DEF Missing, Listed, NewestRecorded, After
  <2>5. PICK c1 : c1 = Cardinality(Missing')
    OBVIOUS
  <2>6. c1 \in Nat /\ c1 <= Cardinality(Missing)
    BY <1>3, <1>4, <2>4, <2>5, FS_Subset, FS_CardinalityType
  <2>7. PICK c2 : c2 = Cardinality(Missing)
    OBVIOUS
  <2>8. c1 <= c2 /\ c2 \in Nat /\ c2 <= clobbered
    BY <1>1, <1>3, <2>1, <2>6, <2>7
  <2>9. c1 <= clobbered'
    BY <1>2, <2>1, <2>6, <2>8
  <2> QED
    BY <2>3, <2>5, <2>9
<1>6. CASE Trims(m, r)
  <2>1. /\ muteStore = "redis" /\ recorded' = recorded /\ clobbered' = clobbered
        /\ \A k \in DOMAIN muteLog' : k \in DOMAIN muteLog /\ muteLog'[k] = muteLog[k]
        /\ \A k \in DOMAIN muteLog : k <= LogLength => k \in DOMAIN muteLog'
    BY <1>6, Trimming
  <2>2. Missing' \subseteq Missing
    <3> SUFFICES ASSUME NEW n \in Missing' PROVE n \in Missing
      OBVIOUS
    <3>1. n \in NewestRecorded /\ n \in recorded /\ Cardinality(After(n)) < LogLength /\ \A k \in DOMAIN muteLog' : muteLog'[k].n # n
      BY <1>2, <2>1 DEF Missing, Listed, NewestRecorded, After
    <3>2. ASSUME NEW k \in DOMAIN muteLog, muteLog[k].n = n PROVE FALSE
      <4>1. k \notin DOMAIN muteLog'
        BY <2>1, <3>1, <3>2
      <4>2. ~(k <= LogLength) /\ Cardinality(After(n)) >= k - 1
        BY <1>1, <2>1, <3>2, <4>1
      <4>3. LogLength \in Nat /\ k \in Nat /\ Cardinality(After(n)) \in Nat
        BY <1>2, <1>3, MuteRowsAssumption
      <4> QED
        BY <3>1, <4>2, <4>3
    <3> QED
      BY <3>1, <3>2 DEF Missing, Listed
  <2>3. \A k \in DOMAIN muteLog' : muteLog'[k].n \in recorded' /\ Cardinality({l \in recorded' : l > muteLog'[k].n}) >= k - 1
    BY <1>1, <2>1 DEF After
  <2>4. PICK c1 : c1 = Cardinality(Missing')
    OBVIOUS
  <2>5. c1 \in Nat
    BY <1>3, <2>2, <2>4, FS_Subset, FS_CardinalityType
  <2> QED
    BY <1>1, <1>2, <1>3, <1>4, <2>1, <2>2, <2>3, <2>4, <2>5
<1>7. CASE MarksIt(m, r)
  <2>1. PICK c : muteLog'[1] = c /\ c.n \in recorded /\ clobbered' = IF c.n # muteLog[1].n THEN clobbered + 1 ELSE clobbered
    BY <1>7, Marking
  <2>2. /\ muteStore = "redis" /\ recorded' = recorded /\ 1 \in DOMAIN muteLog
        /\ DOMAIN muteLog' = DOMAIN muteLog /\ \A k \in DOMAIN muteLog : k # 1 => muteLog'[k] = muteLog[k]
    BY <1>7, Marking
  <2>3. ASSUME NEW k \in DOMAIN muteLog'
        PROVE  muteLog'[k].n \in recorded' /\ Cardinality({l \in recorded' : l > muteLog'[k].n}) >= k - 1
    <3>1. CASE k = 1
      <4>1. {l \in recorded' : l > muteLog'[k].n} = After(c.n)
        BY <2>1, <2>2, <3>1 DEF After
      <4>2. Cardinality(After(c.n)) \in Nat
        BY <1>3
      <4>3. Cardinality(After(c.n)) >= k - 1
        BY <3>1, <4>2
      <4> QED
        BY <2>1, <2>2, <3>1, <4>1, <4>3
    <3>2. CASE k # 1
      <4>1. muteLog'[k] = muteLog[k] /\ k \in DOMAIN muteLog
        BY <2>2, <3>2
      <4>2. {l \in recorded' : l > muteLog'[k].n} = After(muteLog[k].n)
        BY <2>2, <4>1 DEF After
      <4> QED
        BY <1>1, <2>2, <4>1, <4>2
    <3> QED
      BY <3>1, <3>2
  <2>4. CASE c.n = muteLog[1].n
    <3>1. Missing' \subseteq Missing
      <4>1. \A k \in DOMAIN muteLog' : muteLog'[k].n = muteLog[k].n
        BY <2>1, <2>2, <2>4
      <4> QED
        BY <1>2, <2>2, <4>1 DEF Missing, Listed, NewestRecorded
    <3>2. PICK c1 : c1 = Cardinality(Missing')
      OBVIOUS
    <3>3. c1 \in Nat /\ clobbered' = clobbered /\ c1 <= Cardinality(Missing)
      BY <1>3, <1>4, <2>1, <2>4, <3>1, <3>2, FS_Subset, FS_CardinalityType
    <3>4. PICK c2 : c2 = Cardinality(Missing)
      OBVIOUS
    <3>5. c1 <= c2 /\ c2 \in Nat /\ c2 <= clobbered
      BY <1>1, <1>3, <2>2, <3>3, <3>4
    <3>6. c1 <= clobbered'
      BY <1>2, <3>3, <3>5
    <3> QED
      BY <2>3, <3>2, <3>6
  <2>5. CASE c.n # muteLog[1].n
    <3>1. PICK x : x = muteLog[1].n
      OBVIOUS
    <3>2. PICK M : M = Missing'
      OBVIOUS
    <3>3. M \subseteq Missing \union {x}
      <4>1. \A k \in DOMAIN muteLog : muteLog[k].n = x \/ muteLog'[k].n = muteLog[k].n
        BY <2>2, <3>1
      <4>2. Listed \subseteq Listed' \union {x}
        BY <2>2, <4>1 DEF Listed
      <4>3. NewestRecorded' = NewestRecorded
        BY <1>2, <2>2 DEF NewestRecorded
      <4> QED
        BY <3>2, <4>2, <4>3 DEF Missing
    <3>4. /\ IsFiniteSet(Missing \union {x}) /\ Cardinality(Missing \union {x}) \in Nat
          /\ Cardinality(Missing \union {x}) <= Cardinality(Missing) + 1
      <4>1. IsFiniteSet(Missing \union {x})
        BY <1>3, FS_AddElement
      <4>2. CASE x \in Missing
        <5>1. Cardinality(Missing \union {x}) = Cardinality(Missing)
          <6>1. Missing \union {x} = Missing
            BY <4>2
          <6> QED
            BY <6>1
        <5>2. \A y \in Nat : y <= y + 1
          OBVIOUS
        <5> QED
          BY <1>3, <4>1, <5>1, <5>2
      <4>3. CASE x \notin Missing
        <5>1. Cardinality(Missing \union {x}) = Cardinality(Missing) + 1
          BY <1>3, <4>3, FS_AddElement
        <5> QED
          BY <1>3, <4>1, <5>1
      <4> QED
        BY <4>2, <4>3
    <3>5. Cardinality(M) <= Cardinality(Missing \union {x}) /\ Cardinality(M) \in Nat
      BY <3>3, <3>4, FS_Subset, FS_CardinalityType
    <3>6. clobbered' = clobbered + 1
      BY <2>1, <2>5
    <3>7. Cardinality(M) <= clobbered'
      BY <1>1, <1>2, <1>3, <2>2, <3>4, <3>5, <3>6
    <3> QED
      BY <2>3, <3>2, <3>7
  <2> QED
    BY <2>4, <2>5
<1>8. CASE UNCHANGED <<muteLog, recorded, clobbered>>
  <2>1. Missing' = Missing
    BY <1>2, <1>8 DEF Missing, Listed, NewestRecorded
  <2> QED
    BY <1>1, <1>8, <2>1 DEF After
<1>9. CASE muteStore # "redis"
  <2>1. muteLog' = <<>>
    BY <1>9 DEF MuteShape, CallMade
  <2>2. DOMAIN muteLog' = {}
    BY <2>1
  <2> QED
    BY <1>9, <2>2
<1> QED
  BY <1>5, <1>6, <1>7, <1>8, <1>9, LogCalls

LEMMA CallMarks ==
  ASSUME MuteShape, PushedInOrder, LogRanks, Marks, LogFalls, NEW i, NEW r, CallMade(i, r), MuteShape'
  PROVE  Marks'
<1> DEFINE m == pending[i]
<1>1. /\ i \in DOMAIN pending /\ m \in Methods /\ Fits(m)
      /\ \A k \in DOMAIN pending' :
           \/ \E j \in DOMAIN pending : j # i /\ pending'[k] = pending[j]
           \/ r = <<pending'[k]>> /\ Leaves(m, pending'[k])
  BY CallAround, Zenon
<1>2. \A k \in DOMAIN muteLog : muteLog[k].n \in recorded
  BY DEF LogRanks
<1>3. muteLog \in Seq(Rows) /\ Len(muteLog) \in Nat /\ DOMAIN muteLog = 1 .. Len(muteLog) /\ (muteLog = <<>> <=> Len(muteLog) = 0)
      /\ \A k \in DOMAIN muteLog : muteLog[k] \in Rows
  BY ItemOf DEF MuteShape
<1> SUFFICES ASSUME NEW k \in DOMAIN pending', pending'[k].calls = <<"lset">>
             PROVE  \E c \in pending'[k].head :
                      /\ pending'[k].head = {c} /\ ~c.open /\ c.user = pending'[k].user
                      /\ c.n \in recorded' /\ c.n < pending'[k].n /\ muteLog' # <<>>
                      /\ clobbered' = 0 => \A l \in DOMAIN muteLog' : muteLog'[l].n = c.n => muteLog'[l].user = c.user
  BY DEF Marks
<1>4. \E c \in pending'[k].head :
        /\ pending'[k].head = {c} /\ ~c.open /\ c.user = pending'[k].user
        /\ c.n \in recorded /\ c.n < pending'[k].n /\ muteLog # <<>>
        /\ clobbered = 0 => \A l \in DOMAIN muteLog : muteLog[l].n = c.n => muteLog[l].user = c.user
  <2>1. CASE \E j \in DOMAIN pending : j # i /\ pending'[k] = pending[j]
    BY <2>1 DEF Marks
  <2>2. CASE r = <<pending'[k]>> /\ Leaves(m, pending'[k])
    <3> HIDE DEF m
    <3>1. PICK x : x = pending'[k]
      OBVIOUS
    <3>2. r = <<x>> /\ Leaves(m, x) /\ x.calls = <<"lset">> /\ x.n = m.n /\ x.user = m.user
      BY <2>2, <3>1 DEF Leaves
    <3>3. Looks(m, r)
      <4>1. r # <<>>
        BY <3>2
      <4>2. ASSUME Sets(m, r) PROVE FALSE
        <5>1. PICK c : c \in {<<"lpush", "ltrim">>, <<"lindex">>} /\ r = <<[m EXCEPT !.calls = c]>>
          BY <4>2 DEF Sets
        <5>2. x = [m EXCEPT !.calls = c]
          BY <3>2, <5>1
        <5>3. x.calls = c
          BY <1>1, <5>2 DEF Methods
        <5> QED
          BY <3>2, <5>1, <5>3
      <4>3. ASSUME Pushes(m, r) PROVE FALSE
        BY <1>1, <3>2, <4>3 DEF Pushes, Methods
      <4>4. ASSUME Scans(m, r) PROVE FALSE
        BY <1>1, <3>2, <4>4 DEF Scans, Methods
      <4>5. Sets(m, r) \/ Pushes(m, r) \/ Scans(m, r) \/ Looks(m, r)
        BY <4>1 DEF CallMade, Inserts, Updates, Trims, MarksIt, Selects, GivesUp, m
      <4> QED
        BY <4>2, <4>3, <4>4, <4>5
    <3>4. PICK c : c = [muteLog[1] EXCEPT !.open = FALSE]
      OBVIOUS
    <3>5. m.calls = <<"lindex">> /\ MarksHead(m) /\ x = [m EXCEPT !.calls = <<"lset">>, !.head = {c}]
      BY <3>2, <3>3, <3>4 DEF Looks
    <3>6. x.head = {c}
      BY <1>1, <3>5 DEF Methods
    <3>7. 1 \in DOMAIN muteLog /\ muteLog # <<>> /\ muteLog[1].user = m.user /\ muteLog[1] \in Rows
      BY <1>3, <3>5 DEF MarksHead
    <3>8. ~c.open /\ c.user = muteLog[1].user /\ c.n = muteLog[1].n
      BY <3>4, <3>7 DEF Rows
    <3>9. m.user # "all" /\ muteStore = "redis" /\ Stage(m) = 2
      BY <1>1, <3>5, MuteRowsAssumption DEF Fits, ReadCalls, Stage
    <3>10. c.n \in recorded /\ c.n < m.n
      BY <1>1, <1>2, <3>7, <3>8, <3>9 DEF PushedInOrder, m
    <3>11. ASSUME clobbered = 0, NEW l \in DOMAIN muteLog, muteLog[l].n = c.n PROVE muteLog[l].user = c.user
      <4>1. l = 1
        <5>1. 1 < l => muteLog[1].n > muteLog[l].n
          BY <3>7, <3>11 DEF LogFalls
        <5>2. muteLog[1].n \in Nat
          BY <3>7 DEF Rows
        <5>3. ~(1 < l)
          BY <3>8, <3>11, <5>1, <5>2
        <5> QED
          BY <1>3, <5>3
      <4> QED
        BY <3>8, <4>1
    <3> QED
      BY <3>1, <3>2, <3>6, <3>7, <3>8, <3>10, <3>11
  <2> QED
    BY <1>1, <2>1, <2>2
<1>5. PICK c \in pending'[k].head :
        /\ pending'[k].head = {c} /\ ~c.open /\ c.user = pending'[k].user
        /\ c.n \in recorded /\ c.n < pending'[k].n /\ muteLog # <<>>
        /\ clobbered = 0 => \A l \in DOMAIN muteLog : muteLog[l].n = c.n => muteLog[l].user = c.user
  BY <1>4
<1>6. /\ c.n \in recorded' /\ muteLog' # <<>>
      /\ clobbered' = 0 => \A l \in DOMAIN muteLog' : muteLog'[l].n = c.n => muteLog'[l].user = c.user
  <2>1. CASE Pushes(m, r)
    <3>1. /\ m.n \in Nat /\ (\A n \in recorded : n < m.n /\ n \in Nat)
          /\ DOMAIN muteLog' = 1 .. Len(muteLog) + 1
          /\ muteLog'[1] = Entry(m) /\ (\A l \in 1 .. Len(muteLog) : muteLog'[l + 1] = muteLog[l])
          /\ recorded' = recorded \union {m.n} /\ clobbered' = clobbered
      BY <2>1, Pushing
    <3>2. Entry(m).n # c.n
      BY <1>5, <3>1 DEF Entry
    <3>3. muteLog' # <<>>
      <4>1. PICK s : s = muteLog'
        OBVIOUS
      <4>2. 1 \in DOMAIN s
        BY <1>3, <3>1, <4>1
      <4>3. s # <<>>
        BY <4>2, EmptySeq
      <4> QED
        BY <4>1, <4>3
    <3>4. ASSUME clobbered = 0, NEW l \in DOMAIN muteLog', muteLog'[l].n = c.n PROVE muteLog'[l].user = c.user
      <4>1. l # 1
        BY <3>1, <3>2, <3>4
      <4>2. l - 1 \in DOMAIN muteLog /\ (l - 1) + 1 = l
        BY <1>3, <3>1, <4>1
      <4>3. muteLog'[l] = muteLog[l - 1]
        BY <1>3, <3>1, <4>2
      <4> QED
        BY <1>5, <3>4, <4>2, <4>3
    <3> QED
      BY <1>5, <3>1, <3>3, <3>4
  <2>2. CASE Trims(m, r)
    <3>1. /\ recorded' = recorded /\ clobbered' = clobbered
          /\ \A l \in DOMAIN muteLog' : l \in DOMAIN muteLog /\ muteLog'[l] = muteLog[l]
          /\ muteLog # <<>> => muteLog' # <<>>
      BY <2>2, Trimming
    <3> QED
      BY <1>5, <3>1
  <2>3. CASE MarksIt(m, r)
    <3>1. PICK d : /\ muteLog'[1] = d /\ clobbered' = (IF d.n # muteLog[1].n THEN clobbered + 1 ELSE clobbered)
                   /\ clobbered = 0 => \A l \in DOMAIN muteLog : muteLog[l].n = d.n => muteLog[l].user = d.user
      BY <2>3, Marking
    <3>2. /\ recorded' = recorded /\ muteLog' # <<>> /\ 1 \in DOMAIN muteLog
          /\ DOMAIN muteLog' = DOMAIN muteLog /\ \A l \in DOMAIN muteLog : l # 1 => muteLog'[l] = muteLog[l]
      BY <2>3, Marking
    <3>3. ASSUME clobbered' = 0, NEW l \in DOMAIN muteLog', muteLog'[l].n = c.n PROVE muteLog'[l].user = c.user
      <4>1. clobbered = 0 /\ d.n = muteLog[1].n
        BY <3>1, <3>3 DEF MuteShape
      <4>2. CASE l = 1
        <5>1. muteLog[1].n = c.n /\ muteLog[1].n = d.n
          BY <3>1, <3>3, <4>1, <4>2
        <5>2. muteLog[1].user = c.user /\ muteLog[1].user = d.user
          BY <1>5, <3>1, <3>2, <4>1, <5>1
        <5> QED
          BY <3>1, <4>2, <5>2
      <4>3. CASE l # 1
        BY <1>5, <3>2, <3>3, <4>1, <4>3
      <4> QED
        BY <4>2, <4>3
    <3> QED
      BY <1>5, <3>2, <3>3
  <2>4. CASE UNCHANGED <<muteLog, recorded, clobbered>>
    BY <1>5, <2>4
  <2>5. CASE Inserts(m, r) /\ UNCHANGED <<muteLog, clobbered>>
    BY <1>5, <2>5 DEF Inserts
  <2> QED
    BY <2>1, <2>2, <2>3, <2>4, <2>5, LogCalls
<1> QED
  BY <1>5, <1>6

\* Who is not the one whose call is made stays.
LEMMA LookStays ==
  ASSUME MuteShape, NEW i, NEW r, CallMade(i, r), NEW u, NEW w \in DOMAIN pending,
         pending[w].user = u, pending[w].n = said[u].n, Stage(pending[w]) < 3,
         w # i \/ (u # "all" /\ Stage(pending[i]) = 1 /\ r # <<>>)
  PROVE  LookToCome(u)'
<1>1. /\ \A j \in DOMAIN pending : j # i => \E k \in DOMAIN pending' : pending'[k] = pending[j]
      /\ \A x : r = <<x>> => \E k \in DOMAIN pending' : pending'[k] = x
      /\ said' = said
  BY CallAround
<1>2. r = <<>> \/ \E x \in Methods : r = <<x>> /\ Leaves(pending[i], x)
  BY CallLeaves
<1>3. \E k \in DOMAIN pending' : pending'[k].user = u /\ pending'[k].n = said[u].n /\ Stage(pending'[k]) < 3
  <2>1. CASE w # i
    BY <1>1, <2>1
  <2>2. CASE w = i /\ u # "all" /\ Stage(pending[i]) = 1 /\ r # <<>>
    <3>1. PICK x \in Methods : r = <<x>> /\ Leaves(pending[i], x)
      BY <1>2, <2>2
    <3>2. x.user = u /\ x.n = said[u].n /\ Stage(x) = 2
      BY <2>2, <3>1 DEF Leaves
    <3>3. PICK k \in DOMAIN pending' : pending'[k] = x
      BY <1>1, <3>1
    <3> QED
      BY <3>2, <3>3
  <2> QED
    BY <2>1, <2>2
<1> QED
  BY <1>1, <1>3 DEF LookToCome, Stage

LEMMA CallPushesToCome ==
  ASSUME MuteShape, PushesToCome, NEW i, NEW r, CallMade(i, r)
  PROVE  PushesToCome'
<1> DEFINE m == pending[i]
<1>1. /\ i \in DOMAIN pending /\ m \in Methods /\ Fits(m) /\ muteStore' = muteStore /\ said' = said
      /\ \A j \in DOMAIN pending : j # i => \E k \in DOMAIN pending' : pending'[k] = pending[j]
      /\ \A x : r = <<x>> => \E k \in DOMAIN pending' : pending'[k] = x
  BY CallAround
<1> SUFFICES ASSUME muteStore = "redis", muteTrouble' = 0, NEW u \in Mutees, said[u].until # 0, said[u].n \notin recorded'
             PROVE  \E k \in DOMAIN pending' : pending'[k].user = u /\ pending'[k].n = said[u].n /\ Stage(pending'[k]) < 3
  <2>1. \A k \in DOMAIN pending' : Stage(pending[k])' = Stage(pending'[k])
    BY DEF Stage
  <2> QED
    BY <1>1, <2>1 DEF PushesToCome
<1>2. muteTrouble = 0 /\ ~GivesUp(m, r) /\ recorded \subseteq recorded'
  BY DEF MuteShape, CallMade, Inserts, Updates, Sets, Pushes, Trims, Looks, MarksIt, Scans, Selects, GivesUp, LogStays, Writes
<1>3. PICK j \in DOMAIN pending : pending[j].user = u /\ pending[j].n = said[u].n /\ Stage(pending[j]) < 3
  BY <1>2 DEF PushesToCome
<1>4. CASE j # i
  BY <1>1, <1>3, <1>4
<1>5. CASE j = i
  <2>1. m.user = u /\ m.n = said[u].n /\ Stage(m) < 3 /\ u # "all"
    BY <1>3, <1>5, MuteRowsAssumption
  <2> HIDE DEF m
  <2>2. m.calls \notin ReadCalls /\ m.until # 0 /\ m.calls \notin UnmuteCalls
    <3>1. m.calls \notin ReadCalls
      BY <1>1, <2>1 DEF Fits
    <3> QED
      BY <1>1, <2>1, <3>1 DEF Fits
  <2>3. m.calls \in {<<"hset", "lpush", "ltrim">>, <<"lpush", "ltrim">>}
    BY <1>1, <2>1, <2>2 DEF Methods, MuteCalls, UnmuteCalls, ReadCalls, Stage
  <2>4. ~Pushes(m, r)
    BY <2>1 DEF Pushes
  <2>5. Sets(m, r)
    BY <1>2, <2>3, <2>4 DEF CallMade, Inserts, Updates, Trims, Looks, MarksIt, Scans, Selects, m
  <2>6. PICK x \in Methods : r = <<x>> /\ Leaves(m, x)
    <3>1. r # <<>>
      BY <2>5 DEF Sets
    <3> QED
      BY <3>1, CallLeaves DEF m
  <2>7. Stage(m) = 1
    BY <2>5 DEF Sets, Stage
  <2>8. x.user = u /\ x.n = said[u].n /\ Stage(x) < 3
    BY <2>1, <2>6, <2>7 DEF Leaves
  <2>9. PICK k \in DOMAIN pending' : pending'[k] = x
    BY <1>1, <2>6
  <2> QED
    BY <2>8, <2>9
<1> QED
  BY <1>4, <1>5

LEMMA SetsGoOn == ASSUME NEW m, NEW r, Sets(m, r) PROVE r # <<>>
BY DEF Sets

LEMMA CallLooks ==
  ASSUME MuteShape, InTurn, LooksToCome, NEW i, NEW r, CallMade(i, r)
  PROVE  LooksToCome'
<1> DEFINE m == pending[i]
<1>1. /\ i \in DOMAIN pending /\ m \in Methods /\ Fits(m) /\ muteStore' = muteStore /\ said' = said
      /\ \A k \in DOMAIN pending' :
           \/ \E j \in DOMAIN pending : j # i /\ pending'[k] = pending[j]
           \/ r = <<pending'[k]>> /\ Leaves(m, pending'[k])
      /\ \A j \in DOMAIN pending : pending[j] \in Methods /\ pending[j].n \in Nat /\ Fits(pending[j])
  BY CallAround
<1> SUFFICES ASSUME muteStore = "redis", muteTrouble' = 0, NEW k \in DOMAIN pending', NEW u, u = pending'[k].user,
                    u # "all", Stage(pending'[k]) < 3, said[u].n > pending'[k].n
             PROVE  LookToCome(u)'
  <2>1. \A k \in DOMAIN pending' : Stage(pending[k])' = Stage(pending'[k])
    BY DEF Stage
  <2>2. LooksToCome' <=>
          (muteStore' = "redis" /\ muteTrouble' = 0 =>
             \A k \in DOMAIN pending' : \A u :
               u = pending'[k].user /\ u # "all" /\ Stage(pending'[k]) < 3 /\ said'[u].n > pending'[k].n => LookToCome(u)')
    BY <2>1 DEF LooksToCome, LookToCome
  <2> QED
    BY <1>1, <2>2
<1>2. muteTrouble = 0 /\ ~GivesUp(m, r)
  BY DEF MuteShape, CallMade, Inserts, Updates, Sets, Pushes, Trims, Looks, MarksIt, Scans, Selects, GivesUp, LogStays, Writes
<1>3. CASE \E j \in DOMAIN pending : j # i /\ pending'[k] = pending[j]
  <2>1. PICK j \in DOMAIN pending : j # i /\ pending'[k] = pending[j]
    BY <1>3
  <2>2. LookToCome(u)
    BY <1>2, <2>1 DEF LooksToCome
  <2>3. PICK w \in DOMAIN pending : pending[w].user = u /\ pending[w].n = said[u].n /\ Stage(pending[w]) < 3
    BY <2>2 DEF LookToCome
  <2>4. CASE w # i
    BY <2>3, <2>4, LookStays
  <2>5. CASE w = i
    <3>1. Stage(m) = 1 \/ Stage(m) = 2
      BY <2>3, <2>5, StageOf
    <3>2. Stage(m) # 2
      <4>1. ASSUME Stage(m) = 2 PROVE FALSE
        <5>1. Stage(pending[j]) <= Stage(m)
          BY <2>1, <4>1, StageOf
        <5>2. m.n < pending[j].n
          BY <2>1, <2>3, <2>5, <5>1, FirstInTurn
        <5>3. m.n \in Nat /\ pending[j].n \in Nat /\ m.n > pending[j].n
          BY <1>1, <2>1, <2>3, <2>5
        <5> QED
          BY <5>2, <5>3
      <4> QED
        BY <4>1
    <3>3. Stage(m) = 1
      BY <3>1, <3>2
    <3>4. r # <<>>
      <4>1. m.calls \in {<<"hset", "lpush", "ltrim">>, <<"hdel", "lindex">>}
        BY <3>3 DEF Stage
      <4>2. Sets(m, r)
        BY <1>2, <4>1 DEF CallMade, Inserts, Updates, Pushes, Trims, Looks, MarksIt, Scans, Selects
      <4> QED
        BY <4>2, SetsGoOn
    <3> QED
      BY <2>3, <3>3, <3>4, LookStays
  <2> QED
    BY <2>4, <2>5
<1>4. CASE Leaves(m, pending'[k])
  <2>1. m.user = u /\ m.n = pending'[k].n /\ Stage(pending'[k]) = Stage(m) + 1
    BY <1>4 DEF Leaves
  <2>2. Stage(m) < 3 /\ said[u].n > m.n
    BY <2>1, StageOf
  <2>3. LookToCome(u)
    BY <1>1, <1>2, <2>1, <2>2 DEF LooksToCome
  <2>4. PICK w \in DOMAIN pending : pending[w].user = u /\ pending[w].n = said[u].n /\ Stage(pending[w]) < 3
    BY <2>3 DEF LookToCome
  <2>5. w # i
    BY <1>1, <2>2, <2>4
  <2> QED
    BY <2>4, <2>5, LookStays
<1> QED
  BY <1>1, <1>3, <1>4

\* The mark of the n-th mute is on its way.
MarkToCome(u, n) ==
  \E j \in DOMAIN pending :
    pending[j].user = u /\ pending[j].n = said[u].n /\ pending[j].calls = <<"lset">> /\ \E c \in pending[j].head : c.n = n

LEMMA CallHead ==
  ASSUME MuteShape, PushedInOrder, LogRanks, Marks, LooksToCome, HeadTold, NEW i, NEW r, CallMade(i, r), MuteShape'
  PROVE  HeadTold'
<1> DEFINE m == pending[i]
<1>1. /\ i \in DOMAIN pending /\ m \in Methods /\ Fits(m) /\ muteStore' = muteStore /\ said' = said
      /\ \A j \in DOMAIN pending : j # i => \E k \in DOMAIN pending' : pending'[k] = pending[j]
      /\ \A x : r = <<x>> => \E k \in DOMAIN pending' : pending'[k] = x
  BY CallAround
<1>2. muteLog \in Seq(Rows) /\ (muteLog # <<>> => 1 \in DOMAIN muteLog /\ muteLog[1] \in Rows)
  <2>1. muteLog \in Seq(Rows) /\ Len(muteLog) \in Nat /\ DOMAIN muteLog = 1 .. Len(muteLog)
        /\ (muteLog = <<>> <=> Len(muteLog) = 0) /\ \A k \in DOMAIN muteLog : muteLog[k] \in Rows
    BY ItemOf DEF MuteShape
  <2> QED
    BY <2>1
<1>3. PICK e : e = muteLog'[1]
  OBVIOUS
<1> SUFFICES ASSUME muteStore = "redis", muteTrouble' = 0, clobbered' = 0, muteLog' # <<>>
             PROVE  /\ ~e.open => said[e.user].n > e.n
                    /\ e.open /\ said[e.user].until = 0 => LookToCome(e.user)' \/ MarkToCome(e.user, e.n)'
  BY <1>1, <1>3 DEF HeadTold, LookToCome, MarkToCome
<1>4. muteTrouble = 0 /\ ~GivesUp(m, r)
  BY DEF MuteShape, CallMade, Inserts, Updates, Sets, Pushes, Trims, Looks, MarksIt, Scans, Selects, GivesUp, LogStays, Writes
<1>5. clobbered = 0
  <2>1. MarksIt(m, r) => clobbered' = clobbered \/ clobbered' = clobbered + 1
    BY DEF MarksIt
  <2>2. clobbered' = clobbered \/ clobbered' = clobbered + 1
    BY <2>1, LogCalls DEF Pushes, Trims
  <2> QED
    BY <2>2 DEF MuteShape
<1>6. ASSUME muteLog # <<>>, e = muteLog[1]
      PROVE  /\ e.user \in Mutees /\ e.user # "all" /\ (~e.open => said[e.user].n > e.n)
             /\ e.open /\ said[e.user].until = 0 => LookToCome(e.user) \/ MarkToCome(e.user, e.n)
  <2>1. e.user \in Mutees /\ e.user # "all"
    BY <1>2, <1>6, MuteRowsAssumption DEF Rows
  <2> QED
    BY <1>4, <1>5, <1>6, <2>1 DEF HeadTold, MarkToCome
<1>7. ASSUME NEW u, NEW n, NEW j \in DOMAIN pending, j # i, pending[j].user = u, pending[j].n = said[u].n,
             pending[j].calls = <<"lset">>, \E c \in pending[j].head : c.n = n
      PROVE  MarkToCome(u, n)'
  <2>1. PICK k \in DOMAIN pending' : pending'[k] = pending[j]
    BY <1>1, <1>7
  <2> QED
    BY <1>1, <1>7, <2>1 DEF MarkToCome
<1>8. ASSUME muteLog # <<>>, e = muteLog[1], e.open, said[e.user].until = 0, ~MarksIt(m, r)
      PROVE  LookToCome(e.user)' \/ MarkToCome(e.user, e.n)'
  <2>1. CASE MarkToCome(e.user, e.n)
    <3>1. PICK j \in DOMAIN pending : /\ pending[j].user = e.user /\ pending[j].n = said[e.user].n
                                      /\ pending[j].calls = <<"lset">> /\ \E c \in pending[j].head : c.n = e.n
      BY <2>1 DEF MarkToCome
    <3>2. j # i
      <4>1. ASSUME m.calls = <<"lset">> PROVE FALSE
        BY <1>4, <1>8, <4>1 DEF CallMade, Inserts, Updates, Sets, Pushes, Trims, Looks, Scans, Selects
      <4> QED
        BY <3>1, <4>1
    <3> QED
      BY <1>7, <3>1, <3>2
  <2>2. CASE LookToCome(e.user)
    <3>1. PICK w \in DOMAIN pending : pending[w].user = e.user /\ pending[w].n = said[e.user].n /\ Stage(pending[w]) < 3
      BY <2>2 DEF LookToCome
    <3>2. CASE w # i
      BY <3>1, <3>2, LookStays
    <3>3. CASE w = i
      <4>1. m.user = e.user /\ m.n = said[e.user].n /\ Stage(m) < 3 /\ e.user # "all"
        BY <1>6, <1>8, <3>1, <3>3
      <4>2. m.calls \notin ReadCalls
        BY <4>1 DEF Stage, ReadCalls
      <4>3. m.until = said[e.user].until
        BY <1>1, <4>1, <4>2 DEF Fits
      <4>4. m.calls \in UnmuteCalls
        BY <1>1, <1>8, <4>2, <4>3 DEF Fits
      <4>5. m.calls \in {<<"hdel", "lindex">>, <<"lindex">>}
        BY <4>1, <4>4 DEF UnmuteCalls, Stage
      <4>6. CASE m.calls = <<"hdel", "lindex">>
        <5>1. Sets(m, r)
          BY <1>4, <4>6 DEF CallMade, Inserts, Updates, Pushes, Trims, Looks, MarksIt, Scans, Selects
        <5>2. r # <<>> /\ Stage(m) = 1
          BY <4>6, <5>1, SetsGoOn DEF Stage
        <5> QED
          BY <3>1, <3>3, <4>1, <5>2, LookStays
      <4>7. CASE m.calls = <<"lindex">>
        <5>1. Looks(m, r)
          BY <1>4, <4>7 DEF CallMade, Inserts, Updates, Sets, Pushes, Trims, MarksIt, Scans, Selects
        <5>2. MarksHead(m)
          BY <1>8, <4>1 DEF MarksHead
        <5> HIDE DEF m
        <5>3. PICK c : c = [muteLog[1] EXCEPT !.open = FALSE]
          OBVIOUS
        <5>4. PICK x : x = [m EXCEPT !.calls = <<"lset">>, !.head = {c}] /\ r = <<x>>
          BY <5>1, <5>2, <5>3 DEF Looks
        <5>5. x.user = m.user /\ x.n = m.n /\ x.calls = <<"lset">> /\ x.head = {c}
          BY <1>1, <5>4 DEF Methods
        <5>6. c.n = e.n
          BY <1>2, <1>8, <5>3 DEF Rows
        <5>7. PICK k \in DOMAIN pending' : pending'[k] = x
          BY <1>1, <5>4
        <5> QED
          BY <1>1, <4>1, <5>5, <5>6, <5>7 DEF MarkToCome
      <4> QED
        BY <4>5, <4>6, <4>7
    <3> QED
      BY <3>2, <3>3
  <2> QED
    BY <1>6, <1>8, <2>1, <2>2
<1>9. CASE Pushes(m, r)
  <2>1. /\ m.user \in Mutees /\ m.user # "all" /\ Stage(m) = 2 /\ m.until # 0 /\ m.n \in Nat
        /\ muteLog'[1] = Entry(m)
    BY <1>9, Pushing
  <2>2. e.open /\ e.user = m.user /\ e.n = m.n
    BY <1>3, <2>1 DEF Entry
  <2>3. ASSUME said[m.user].until = 0, NEW u, u = m.user PROVE LookToCome(u)'
    <3>1. m.calls \notin ReadCalls
      BY <2>1 DEF Stage, ReadCalls
    <3>2. m.n <= said[m.user].n /\ m.n # said[m.user].n /\ said[m.user].n \in Nat
      BY <1>1, <2>1, <2>3, <3>1 DEF Fits, MuteShape
    <3>3. said[m.user].n > m.n
      BY <2>1, <3>2
    <3>4. LookToCome(m.user)
      BY <1>1, <1>4, <2>1, <3>3 DEF LooksToCome
    <3>5. PICK w \in DOMAIN pending : pending[w].user = m.user /\ pending[w].n = said[m.user].n /\ Stage(pending[w]) < 3
      BY <3>4 DEF LookToCome
    <3>6. w # i
      BY <3>2, <3>5
    <3>7. pending[w].user = u /\ pending[w].n = said[u].n
      BY <2>3, <3>5
    <3> QED
      BY <3>5, <3>6, <3>7, LookStays
  <2> QED
    BY <2>2, <2>3
<1>10. CASE Trims(m, r)
  <2>1. muteLog # <<>> /\ e = muteLog[1] /\ ~MarksIt(m, r)
    <3>1. muteLog # <<>> /\ muteLog'[1] = muteLog[1]
      BY <1>10, Trimming
    <3>2. ~MarksIt(m, r)
      BY <1>10 DEF Trims, MarksIt
    <3> QED
      BY <1>3, <3>1, <3>2
  <2> QED
    BY <1>6, <1>8, <2>1
<1>11. CASE MarksIt(m, r)
  <2>1. PICK c : muteLog'[1] = c /\ ~c.open /\ c.user = m.user /\ c.n \in recorded /\ c.n < m.n
    BY <1>11, Marking
  <2>2. m.calls \notin ReadCalls /\ m.user \in Mutees
    BY <1>1, <1>11 DEF MarksIt, ReadCalls, Fits
  <2>3. m.n <= said[m.user].n /\ m.n \in Nat /\ said[m.user].n \in Nat /\ c.n \in Nat
    <3>1. m.n <= said[m.user].n
      BY <1>1, <2>2 DEF Fits
    <3>2. m.n \in Nat
      BY <1>1 DEF Methods
    <3>3. said[m.user].n \in Nat
      BY <2>2 DEF MuteShape
    <3>4. c.n \in Nat
      <4>1. \A n \in recorded : n \in Nat
        BY DEF MuteShape
      <4> QED
        BY <2>1, <4>1
    <3> QED
      BY <3>1, <3>2, <3>3, <3>4
  <2>4. said[m.user].n > c.n
    BY <2>1, <2>3
  <2> QED
    BY <1>3, <2>1, <2>4
<1>12. CASE UNCHANGED muteLog /\ ~MarksIt(m, r)
  <2>1. muteLog # <<>> /\ e = muteLog[1]
    BY <1>3, <1>12
  <2> QED
    BY <1>6, <1>8, <1>12, <2>1
<1>13. UNCHANGED muteLog \/ Pushes(m, r) \/ Trims(m, r) \/ MarksIt(m, r)
  BY LogCalls
<1> QED
  BY <1>9, <1>10, <1>11, <1>12, <1>13

LEMMA CallLogKept ==
  ASSUME MuteShape, InTurn, LogKept, NEW i, NEW r, CallMade(i, r), MuteShape'
  PROVE  LogKept'
BY CallRowsOnce, CallPushed, CallRanks, CallMarks, CallFalls, CallPushesToCome, CallLooks, CallHead DEF LogKept

LEMMA CommandLogKept ==
  ASSUME MuteShape, LogKept, NEW u \in Mutees, NEW until, NEW calls, Commanded(u, until, calls)
  PROVE  LogKept'
<1>1. PICK x \in Methods :
        Joined(x) /\ x.n = commands + 1 /\ x.user = u /\ x.until = until /\ x.calls = calls /\ x.head = {}
  BY CommandPending
<1>2. /\ DOMAIN pending' = DOMAIN pending \union {Len(pending) + 1}
      /\ \A k \in DOMAIN pending : pending'[k] = pending[k]
      /\ pending'[Len(pending) + 1] = x
  BY <1>1 DEF Joined
<1>3. /\ said' = [said EXCEPT ![u] = [n |-> commands + 1, until |-> until]] /\ said \in [Mutees -> [n : Nat, until : Nat]]
      /\ UNCHANGED <<muteStore, muteTable, muteLog, recorded, clobbered, muteTrouble>>
      /\ commands \in Nat
  BY DEF Commanded, Command, MuteShape
<1>4. said'[u].n = commands + 1 /\ \A w \in Mutees : w # u => said'[w] = said[w]
  BY <1>3
<1>5. u # "all" /\ x.calls # <<"lset">> /\ (muteStore = "redis" => Stage(x) = 1)
  <2>1. muteStore = "redis" => x.calls \in {<<"hset", "lpush", "ltrim">>, <<"hdel", "lindex">>}
    BY <1>1 DEF Commanded
  <2>2. x.calls # <<"lset">>
    BY <1>1 DEF Commanded
  <2> QED
    BY <2>1, <2>2, MuteRowsAssumption DEF Stage
<1>6. \A n \in recorded : n <= commands /\ n < commands + 1 /\ n # commands + 1
  BY DEF MuteShape
<1>7. \A k \in DOMAIN pending' : Stage(pending[k])' = Stage(pending'[k])
  BY DEF Stage
<1>8. RowsOnce'
  <2>1. ASSUME muteStore # "redis", NEW k \in DOMAIN pending', pending'[k].user # "all" PROVE pending'[k].n \notin recorded
    BY <1>1, <1>2, <1>6, <2>1 DEF LogKept, RowsOnce
  <2> QED
    BY <1>3, <2>1 DEF LogKept, RowsOnce
<1>9. PushedInOrder'
  <2>1. ASSUME muteStore = "redis", NEW k \in DOMAIN pending', pending'[k].user # "all", Stage(pending'[k]) < 3, NEW n \in recorded
        PROVE  n < pending'[k].n
    BY <1>1, <1>2, <1>6, <2>1 DEF LogKept, PushedInOrder
  <2> QED
    BY <1>3, <1>7, <2>1 DEF PushedInOrder
<1>10. LogRanks' /\ LogFalls'
  BY <1>3 DEF LogKept, LogRanks, NewestRecorded, LogFalls
<1>11. Marks'
  <2>1. \A k \in DOMAIN pending' : pending'[k].calls = <<"lset">> => k \in DOMAIN pending /\ pending'[k] = pending[k]
    BY <1>1, <1>2, <1>5
  <2>2. UNCHANGED <<muteLog, recorded, clobbered>> /\ Marks
    BY <1>3 DEF LogKept
  <2> QED
    BY <2>1, <2>2 DEF Marks
<1>12. muteStore = "redis" => LookToCome(u)'
  BY <1>1, <1>2, <1>4, <1>5, <1>7 DEF LookToCome
<1>13. ASSUME NEW w \in Mutees, w # u, LookToCome(w) PROVE LookToCome(w)'
  <2>1. PICK j \in DOMAIN pending : pending[j].user = w /\ pending[j].n = said[w].n /\ Stage(pending[j]) < 3
    BY <1>13 DEF LookToCome
  <2>2. j \in DOMAIN pending' /\ pending'[j] = pending[j] /\ said'[w] = said[w]
    BY <1>2, <1>4, <1>13
  <2> QED
    BY <1>7, <2>1, <2>2 DEF LookToCome
<1>14. PushesToCome'
  <2>1. ASSUME muteStore = "redis", muteTrouble = 0, NEW w \in Mutees, said'[w].until # 0
        PROVE  \/ said'[w].n \in recorded
               \/ \E j \in DOMAIN pending' : pending'[j].user = w /\ pending'[j].n = said'[w].n /\ Stage(pending'[j]) < 3
    <3>1. CASE w = u
      BY <1>1, <1>2, <1>4, <1>5, <2>1, <3>1
    <3>2. CASE w # u
      <4>1. said'[w] = said[w]
        BY <1>4, <3>2
      <4> QED
        BY <1>2, <2>1, <4>1 DEF LogKept, PushesToCome
    <3> QED
      BY <3>1, <3>2
  <2> QED
    BY <1>3, <1>7, <2>1 DEF PushesToCome
<1>15. LooksToCome'
  <2>1. ASSUME muteStore = "redis", muteTrouble = 0, NEW k \in DOMAIN pending', NEW w, w = pending'[k].user, w # "all",
               Stage(pending'[k]) < 3, said'[w].n > pending'[k].n
        PROVE  LookToCome(w)'
    <3>1. CASE w = u
      BY <1>12, <2>1, <3>1
    <3>2. CASE w # u
      <4>1. k \in DOMAIN pending /\ pending'[k] = pending[k]
        BY <1>1, <1>2, <2>1, <3>2
      <4>2. w \in Mutees
        <5>1. pending[k] \in Methods
          BY <4>1, ItemOf DEF MuteShape
        <5> QED
          BY <2>1, <4>1, <5>1 DEF Methods
      <4>3. said'[w] = said[w]
        BY <1>4, <3>2, <4>2
      <4>4. LookToCome(w)
        BY <2>1, <4>1, <4>3 DEF LogKept, LooksToCome
      <4> QED
        BY <1>13, <3>2, <4>2, <4>4
    <3> QED
      BY <3>1, <3>2
  <2>2. LooksToCome' <=>
          (muteStore' = "redis" /\ muteTrouble' = 0 =>
             \A k \in DOMAIN pending' : \A w :
               w = pending'[k].user /\ w # "all" /\ Stage(pending'[k]) < 3 /\ said'[w].n > pending'[k].n => LookToCome(w)')
    BY <1>7 DEF LooksToCome, LookToCome
  <2> QED
    BY <1>3, <2>1, <2>2
<1>16. HeadTold'
  <2> SUFFICES ASSUME muteStore = "redis", muteTrouble = 0, clobbered = 0, muteLog # <<>>, NEW e, e = muteLog[1]
               PROVE  /\ ~e.open => said'[e.user].n > e.n
                      /\ e.open /\ said'[e.user].until = 0 => LookToCome(e.user)' \/ MarkToCome(e.user, e.n)'
    BY <1>3 DEF HeadTold, LookToCome, MarkToCome
  <2>1. e \in Rows /\ e.n \in recorded /\ e.user \in Mutees
    <3>1. 1 \in DOMAIN muteLog /\ muteLog[1] \in Rows
      <4>1. muteLog \in Seq(Rows) /\ Len(muteLog) \in Nat /\ DOMAIN muteLog = 1 .. Len(muteLog)
            /\ (muteLog = <<>> <=> Len(muteLog) = 0) /\ \A k \in DOMAIN muteLog : muteLog[k] \in Rows
        BY ItemOf DEF MuteShape
      <4> QED
        BY <4>1
    <3> QED
      BY <3>1 DEF LogKept, LogRanks, Rows
  <2>2. CASE e.user = u
    <3>1. e.n < commands + 1 /\ e.n \in Nat
      BY <1>6, <2>1 DEF Rows
    <3> QED
      BY <1>3, <1>4, <1>12, <2>2, <3>1
  <2>3. CASE e.user # u
    <3>1. said'[e.user] = said[e.user]
      BY <1>4, <2>1, <2>3
    <3>2. /\ ~e.open => said[e.user].n > e.n
          /\ e.open /\ said[e.user].until = 0 => LookToCome(e.user) \/ MarkToCome(e.user, e.n)
      BY DEF LogKept, HeadTold, MarkToCome
    <3>3. MarkToCome(e.user, e.n) => MarkToCome(e.user, e.n)'
      BY <1>2, <3>1 DEF MarkToCome
    <3> QED
      BY <1>13, <2>1, <2>3, <3>1, <3>2, <3>3
  <2> QED
    BY <2>2, <2>3
<1> QED
  BY <1>8, <1>9, <1>10, <1>11, <1>14, <1>15, <1>16 DEF LogKept

\* Reads do not concern the log.
LEMMA ReadingLogKept ==
  ASSUME MuteShape, LogKept, pending' \in Seq(Methods),
         \A k \in DOMAIN pending' : (k \in DOMAIN pending /\ pending'[k] = pending[k])
                                    \/ (pending'[k].user = "all" /\ pending'[k].calls # <<"lset">>),
         \A k \in DOMAIN pending : k \in DOMAIN pending' /\ pending'[k] = pending[k],
         UNCHANGED <<muteStore, muteTable, muteLog, recorded, clobbered, said, muteTrouble>>
  PROVE  LogKept'
<1>1. \A k \in DOMAIN pending' : Stage(pending[k])' = Stage(pending'[k])
  BY DEF Stage
<1>2. \A k \in DOMAIN pending' : pending'[k].user # "all" => k \in DOMAIN pending /\ pending'[k] = pending[k]
  OBVIOUS
<1>3. \A k \in DOMAIN pending' : pending'[k].calls = <<"lset">> => k \in DOMAIN pending /\ pending'[k] = pending[k]
  OBVIOUS
<1>4. RowsOnce'
  BY <1>2 DEF LogKept, RowsOnce
<1>5. PushedInOrder'
  BY <1>1, <1>2 DEF LogKept, PushedInOrder
<1>6. LogRanks' /\ LogFalls'
  BY DEF LogKept, LogRanks, NewestRecorded, LogFalls
<1>7. Marks'
  BY <1>3 DEF LogKept, Marks
<1>8. \A u : LookToCome(u) => LookToCome(u)'
  BY <1>1 DEF LookToCome
<1>9. \A u, n : MarkToCome(u, n) => MarkToCome(u, n)'
  BY DEF MarkToCome
<1>10. PushesToCome'
  BY <1>1 DEF LogKept, PushesToCome
<1>11. LooksToCome'
  <2>1. ASSUME muteStore = "redis", muteTrouble = 0, NEW k \in DOMAIN pending', NEW w, w = pending'[k].user, w # "all",
               Stage(pending'[k]) < 3, said[w].n > pending'[k].n
        PROVE  LookToCome(w)'
    BY <1>2, <1>8, <2>1 DEF LogKept, LooksToCome
  <2>2. LooksToCome' <=>
          (muteStore' = "redis" /\ muteTrouble' = 0 =>
             \A k \in DOMAIN pending' : \A w :
               w = pending'[k].user /\ w # "all" /\ Stage(pending'[k]) < 3 /\ said'[w].n > pending'[k].n => LookToCome(w)')
    BY <1>1 DEF LooksToCome, LookToCome
  <2> QED
    BY <2>1, <2>2
<1>12. HeadTold'
  <2> SUFFICES ASSUME muteStore = "redis", muteTrouble = 0, clobbered = 0, muteLog # <<>>, NEW e, e = muteLog[1]
               PROVE  /\ ~e.open => said[e.user].n > e.n
                      /\ e.open /\ said[e.user].until = 0 => LookToCome(e.user)' \/ MarkToCome(e.user, e.n)'
    BY DEF HeadTold, LookToCome, MarkToCome
  <2>1. /\ ~e.open => said[e.user].n > e.n
        /\ e.open /\ said[e.user].until = 0 => LookToCome(e.user) \/ MarkToCome(e.user, e.n)
    BY DEF LogKept, HeadTold, MarkToCome
  <2> QED
    BY <1>8, <1>9, <2>1
<1> QED
  BY <1>4, <1>5, <1>6, <1>7, <1>10, <1>11, <1>12 DEF LogKept

LEMMA HydrateAgainLogKept == ASSUME MuteShape, LogKept, HydrateAgain PROVE LogKept'
<1>1. PICK x \in Methods :
        /\ x.user = "all" /\ x.calls # <<"lset">>
        /\ pending' \in Seq(Methods) /\ DOMAIN pending' = DOMAIN pending \union {Len(pending) + 1}
        /\ \A k \in DOMAIN pending : pending'[k] = pending[k]
        /\ pending'[Len(pending) + 1] = x
  BY HydrateAgainPending
<1>2. UNCHANGED <<muteStore, muteTable, muteLog, recorded, clobbered, said, muteTrouble>>
  BY DEF HydrateAgain
<1>3. \A k \in DOMAIN pending' : (k \in DOMAIN pending /\ pending'[k] = pending[k])
                                 \/ (pending'[k].user = "all" /\ pending'[k].calls # <<"lset">>)
  BY <1>1
<1> QED
  BY <1>1, <1>2, <1>3, ReadingLogKept

LEMMA StartLogKept == ASSUME MuteShape, LogKept, Starts PROVE LogKept'
<1>1. /\ pending' \in Seq(Methods) /\ pending = <<>>
      /\ \A k \in DOMAIN pending' : pending'[k].user = "all" /\ pending'[k].calls # <<"lset">>
  BY StartPending
<1>2. DOMAIN pending = {}
  BY <1>1
<1>3. UNCHANGED <<muteStore, muteTable, muteLog, recorded, clobbered, said, muteTrouble>>
  BY DEF Starts
<1> QED
  BY <1>1, <1>2, <1>3, ReadingLogKept

LEMMA QuietLogKept == ASSUME MuteShape, LogKept, Hydrate \/ ClockTicks PROVE LogKept'
<1>1. UNCHANGED <<muteStore, pending, muteTable, muteLog, recorded, clobbered, said, muteTrouble>>
  BY DEF Hydrate, ClockTicks
<1>2. pending' \in Seq(Methods)
  BY <1>1 DEF MuteShape
<1> QED
  BY <1>1, <1>2, ReadingLogKept

LEMMA EndLogKept == ASSUME MuteShape, LogKept, ProcessEnds PROVE LogKept'
<1>1. DOMAIN pending' = {} /\ muteTrouble' = muteTrouble + 1 /\ UNCHANGED <<muteStore, muteTable, muteLog, recorded, clobbered>>
  BY DEF ProcessEnds
<1>2. muteTrouble' # 0
  BY <1>1 DEF MuteShape
<1>3. RowsOnce' /\ PushedInOrder' /\ Marks'
  BY <1>1 DEF LogKept, RowsOnce, PushedInOrder, Marks
<1>4. LogRanks' /\ LogFalls'
  BY <1>1 DEF LogKept, LogRanks, NewestRecorded, LogFalls
<1>5. PushesToCome' /\ LooksToCome' /\ HeadTold'
  BY <1>2 DEF PushesToCome, LooksToCome, HeadTold
<1> QED
  BY <1>3, <1>4, <1>5 DEF LogKept

-----------------------------------------------------------------------------
(* The rows of the mute list: the theorem *)

LEMMA MuteRowsFirst == ASSUME MuteRowsInit PROVE MuteRowsIInv
<1>1. DOMAIN pending = {} /\ DOMAIN muteLog = {} /\ DOMAIN muteTable = {}
  BY DEF MuteRowsInit
<1>2. \A u \in Mutees : said[u] = [n |-> 0, until |-> 0] /\ list[u] = 0 /\ expiries[u] = 0
  BY DEF MuteRowsInit
<1>3. MuteShape
  BY <1>1, <1>2, MuteRowsAssumption DEF MuteRowsInit, MuteShape
<1>4. InTurn
  BY <1>1 DEF InTurn
<1>5. \A u \in Mutees : Commands(u) = {}
  BY <1>1 DEF Commands, PendingOf
<1>6. AllDecided
  BY <1>1, <1>2, <1>5 DEF MuteRowsInit, AllDecided, Decided, StoreTells
<1>7. Heard
  BY <1>1, <1>2 DEF MuteRowsInit, Heard, ListTold
<1>8. NewestRecorded = {}
  BY DEF MuteRowsInit, NewestRecorded
<1>9. LogRanks
  <2>1. NewestRecorded \ {muteLog[i].n : i \in DOMAIN muteLog} = {}
    BY <1>8
  <2>2. Cardinality({}) = 0
    BY FS_EmptySet
  <2>3. Cardinality(NewestRecorded \ {muteLog[i].n : i \in DOMAIN muteLog}) = 0
    BY <2>1, <2>2
  <2>4. clobbered = 0
    BY DEF MuteRowsInit
  <2> QED
    BY <1>1, <2>3, <2>4 DEF LogRanks
<1>10. RowsOnce /\ PushedInOrder /\ Marks
  BY <1>1 DEF MuteRowsInit, RowsOnce, PushedInOrder, Marks
<1>11. LogFalls /\ PushesToCome /\ LooksToCome /\ HeadTold
  BY <1>1, <1>2 DEF MuteRowsInit, LogFalls, PushesToCome, LooksToCome, HeadTold
<1> QED
  BY <1>3, <1>4, <1>6, <1>7, <1>9, <1>10, <1>11 DEF MuteRowsIInv, LogKept

LEMMA MuteRowsSteps == ASSUME MuteRowsIInv, [MuteRowsNext]_muteRowVars PROVE MuteRowsIInv'
<1>0. MuteShape /\ InTurn /\ AllDecided /\ Heard /\ LogKept /\ Marks
  BY DEF MuteRowsIInv, LogKept
<1>1. ASSUME NEW u \in Mutees, UnmuteUser(u) \/ \E term \in Terms : MuteUser(u, term) PROVE MuteRowsIInv'
  <2>1. PICK until, calls : Commanded(u, until, calls)
    BY <1>0, <1>1, CommandIs
  <2>2. MuteShape' /\ InTurn' /\ AllDecided'
    BY <1>0, <2>1, CommandShape, CommandInTurn, CommandDecided
  <2>3. Heard' /\ LogKept'
    BY <1>0, <2>1, CommandHeard, CommandLogKept
  <2> QED
    BY <2>2, <2>3 DEF MuteRowsIInv
<1>2. CASE HydrateAgain
  <2>1. MuteShape' /\ InTurn' /\ AllDecided'
    BY <1>0, <1>2, HydrateAgainShape, HydrateAgainInTurn, HydrateAgainDecided
  <2>2. Heard' /\ LogKept'
    BY <1>0, <1>2, HydrateAgainHeard, HydrateAgainLogKept
  <2> QED
    BY <2>1, <2>2 DEF MuteRowsIInv
<1>3. CASE StoreTakes
  <2>1. PICK i, r : CallMade(i, r)
    BY <1>0, <1>3, StoreCalls
  <2>2. MuteShape' /\ InTurn' /\ AllDecided'
    BY <1>0, <2>1, CallShape, CallInTurn, CallDecided
  <2>3. Heard' /\ LogKept'
    BY <1>0, <2>1, <2>2, CallHeard, CallLogKept
  <2> QED
    BY <2>2, <2>3 DEF MuteRowsIInv
<1>4. CASE Hydrate
  <2>1. MuteShape' /\ InTurn' /\ AllDecided'
    BY <1>0, <1>4, HydrateShape, HydrateInTurn, HydrateDecided
  <2>2. Heard' /\ LogKept'
    BY <1>0, <1>4, HydrateHeard, QuietLogKept
  <2> QED
    BY <2>1, <2>2 DEF MuteRowsIInv
<1>5. CASE ClockTicks
  <2>1. MuteShape' /\ InTurn' /\ AllDecided'
    BY <1>0, <1>5, TickShape, HydrateInTurn, TickDecided
  <2>2. Heard' /\ LogKept'
    BY <1>0, <1>5, TickHeard, QuietLogKept
  <2> QED
    BY <2>1, <2>2 DEF MuteRowsIInv
<1>6. CASE ProcessEnds
  <2>1. MuteShape' /\ InTurn' /\ AllDecided'
    BY <1>0, <1>6, EndShape, EndInTurn, EndDecided
  <2>2. Heard' /\ LogKept'
    BY <1>0, <1>6, EndHeard, EndLogKept
  <2> QED
    BY <2>1, <2>2 DEF MuteRowsIInv
<1>7. CASE Starts
  <2>1. MuteShape' /\ InTurn' /\ AllDecided'
    BY <1>0, <1>7, StartShape, StartInTurn, StartDecided
  <2>2. Heard' /\ LogKept'
    BY <1>0, <1>7, StartHeard, StartLogKept
  <2> QED
    BY <2>1, <2>2 DEF MuteRowsIInv
<1>8. CASE UNCHANGED muteRowVars
  <2>1. UNCHANGED <<muteStore, clock, running, list, muteTable, expiries, muteLog, pending, answers, commands,
                    said, unsure, unheard, recorded, clobbered, hydrations, muteTrouble>>
    BY <1>8 DEF muteRowVars
  <2>2. MuteShape'
    BY <1>0, <2>1 DEF MuteShape, Fits
  <2>3. InTurn' /\ AllDecided'
    BY <1>0, <2>1 DEF InTurn, Stage, AllDecided, Decided, StoreTells, RowTells, Commands, PendingOf
  <2>4. Heard'
    BY <1>0, <2>1 DEF Heard, AnswerTells, StillMuted, ListTold
  <2>5. pending' \in Seq(Methods)
    BY <1>0, <2>1 DEF MuteShape
  <2>6. LogKept'
    BY <1>0, <2>1, <2>5, ReadingLogKept
  <2> QED
    BY <2>2, <2>3, <2>4, <2>6 DEF MuteRowsIInv
<1> QED
  BY <1>1, <1>2, <1>3, <1>4, <1>5, <1>6, <1>7, <1>8 DEF MuteRowsNext

LEMMA RecordedFew == ASSUME MuteShape PROVE Cardinality(recorded) \in Nat /\ Cardinality(recorded) <= MaxEvents
<1>1. commands \in Nat /\ commands <= MaxEvents /\ recorded \subseteq 1 .. commands /\ MaxEvents \in Nat
  BY MuteRowsAssumption DEF MuteShape
<1>2. IsFiniteSet(1 .. commands) /\ Cardinality(1 .. commands) = IF 1 > commands THEN 0 ELSE commands - 1 + 1
  BY <1>1, FS_Interval
<1>3. Cardinality(1 .. commands) = commands
  BY <1>1, <1>2
<1>4. IsFiniteSet(recorded) /\ Cardinality(recorded) <= Cardinality(1 .. commands)
  BY <1>1, <1>2, FS_Subset
<1>5. Cardinality(recorded) \in Nat
  BY <1>4, FS_CardinalityType
<1> QED
  BY <1>1, <1>3, <1>4, <1>5

\* Every row of the table is among the first MaxEvents.
LEMMA TableListed ==
  ASSUME MuteShape, RowsOnce, muteStore # "redis"
  PROVE  MuteHistory(MaxEvents) = ToSet(muteTable)
<1> DEFINE T == ToSet(muteTable)
<1>1. \A k \in DOMAIN muteTable : muteTable[k] \in Rows /\ k \in Nat
  <2>1. Len(muteTable) \in Nat /\ DOMAIN muteTable = 1 .. Len(muteTable) /\ \A k \in DOMAIN muteTable : muteTable[k] \in Rows
    BY ItemOf DEF MuteShape
  <2> QED
    BY <2>1
<1>2. \A row \in T : row \in Rows /\ row.n \in recorded /\ row.n \in Nat
  <2>1. \A row \in T : \E k \in DOMAIN muteTable : row = muteTable[k]
    BY DEF ToSet
  <2>2. \A k \in DOMAIN muteTable : muteTable[k].n \in recorded
    BY DEF RowsOnce
  <2>3. \A row \in Rows : row.n \in Nat
    BY DEF Rows
  <2> QED
    BY <1>1, <2>1, <2>2, <2>3
<1>3. IsFiniteSet(T) /\ Cardinality(T) <= Cardinality(recorded) /\ Cardinality(T) \in Nat
  <2> DEFINE f == [row \in T |-> row.n]
  <2>1. f \in Injection(T, recorded)
    <3>1. f \in [T -> recorded]
      BY <1>2
    <3>2. ASSUME NEW a \in T, NEW b \in T, f[a] = f[b] PROVE a = b
      <4>1. PICK k \in DOMAIN muteTable, l \in DOMAIN muteTable : a = muteTable[k] /\ b = muteTable[l]
        BY DEF ToSet
      <4>2. muteTable[k].n = muteTable[l].n
        BY <3>2, <4>1
      <4>3. k = l
        BY <4>2 DEF RowsOnce
      <4> QED
        BY <4>1, <4>3
    <3> QED
      BY <3>1, <3>2 DEF Injection, IsInjective
  <2> HIDE DEF f, T
  <2>2. IsFiniteSet(recorded)
    BY RecordedFinite
  <2>3. IsFiniteSet(T) /\ Cardinality(T) <= Cardinality(recorded)
    BY <2>1, <2>2, FS_Injection
  <2> QED
    BY <2>3, FS_CardinalityType
<1>4. ASSUME NEW row \in T PROVE Cardinality({other \in T : Later(other, row)}) < MaxEvents
  <2>1. ~Later(row, row)
    <3>1. PICK x : x = IF muteStore = "mongo" THEN row.n ELSE CHOOSE k \in DOMAIN muteTable : muteTable[k] = row
      OBVIOUS
    <3>2. x \in Nat
      <4>1. \E k \in DOMAIN muteTable : muteTable[k] = row
        BY DEF ToSet
      <4>2. (CHOOSE k \in DOMAIN muteTable : muteTable[k] = row) \in DOMAIN muteTable
        BY <4>1
      <4> QED
        BY <1>1, <1>2, <3>1, <4>2
    <3>3. Later(row, row) <=> x > x
      BY <3>1 DEF Later
    <3> QED
      BY <3>2, <3>3
  <2>2. {other \in T : Later(other, row)} \subseteq T \ {row}
    BY <2>1
  <2>3. PICK U : U = {other \in T : Later(other, row)}
    OBVIOUS
  <2> HIDE DEF T
  <2>4. IsFiniteSet(T \ {row}) /\ Cardinality(T \ {row}) = Cardinality(T) - 1
    BY <1>3, FS_RemoveElement
  <2>5. Cardinality(U) <= Cardinality(T \ {row}) /\ Cardinality(U) \in Nat
    BY <2>2, <2>3, <2>4, FS_Subset, FS_CardinalityType
  <2>6. Cardinality(recorded) \in Nat /\ Cardinality(recorded) <= MaxEvents /\ MaxEvents \in Nat
    BY RecordedFew, MuteRowsAssumption
  <2>7. PICK a, b, c : a = Cardinality(U) /\ b = Cardinality(T) /\ c = Cardinality(recorded)
    OBVIOUS
  <2>8. a \in Nat /\ b \in Nat /\ c \in Nat /\ a <= b - 1 /\ b <= c /\ c <= MaxEvents /\ MaxEvents \in Nat
    BY <1>3, <2>4, <2>5, <2>6, <2>7
  <2>9. a < MaxEvents
    BY <2>8
  <2> QED
    BY <2>3, <2>7, <2>9
<1>5. RowsBefore(MaxEvents) = T
  BY <1>4 DEF RowsBefore
<1> QED
  BY <1>5 DEF MuteHistory, PostgresMuteHistory, MongoMuteHistory, MuteShape

\* And every entry of the log.
LEMMA EntriesListed ==
  ASSUME MuteShape, LogRanks, muteStore = "redis"
  PROVE  MuteHistory(MaxEvents) = ToSet(muteLog)
<1>1. muteLog \in Seq(Rows) /\ Len(muteLog) \in Nat /\ DOMAIN muteLog = 1 .. Len(muteLog)
  BY ItemOf DEF MuteShape
<1>2. MaxEvents \in Nat
  BY MuteRowsAssumption
<1>3. ASSUME NEW k \in DOMAIN muteLog PROVE k <= MaxEvents
  <2>1. PICK n : n = muteLog[k].n
    OBVIOUS
  <2>2. n \in recorded /\ Cardinality(After(n)) >= k - 1
    BY <2>1 DEF LogRanks, After
  <2>3. n \in Nat /\ n \notin After(n) /\ After(n) \subseteq recorded \ {n}
    <3>1. \A x \in recorded : x \in Nat
      BY DEF MuteShape
    <3> QED
      BY <2>2, <3>1 DEF After
  <2>4. IsFiniteSet(recorded \ {n}) /\ Cardinality(recorded \ {n}) = Cardinality(recorded) - 1
    BY <2>2, RecordedFinite, FS_RemoveElement
  <2>5. Cardinality(After(n)) <= Cardinality(recorded \ {n})
    BY <2>3, <2>4, FS_Subset
  <2>6. Cardinality(recorded) \in Nat /\ Cardinality(recorded) <= MaxEvents /\ Cardinality(After(n)) \in Nat
    BY RecordedFew, RecordedFinite
  <2>7. PICK a, c : a = Cardinality(After(n)) /\ c = Cardinality(recorded)
    OBVIOUS
  <2>8. a \in Nat /\ c \in Nat /\ a >= k - 1 /\ a <= c - 1 /\ c <= MaxEvents /\ k \in Nat
    BY <1>1, <2>2, <2>4, <2>5, <2>6, <2>7
  <2> QED
    BY <1>2, <2>8
<1>4. PICK s : s = FirstOf(muteLog, MaxEvents)
  OBVIOUS
<1>5. /\ \A k \in DOMAIN s : k \in DOMAIN muteLog /\ s[k] = muteLog[k]
      /\ \A k \in DOMAIN muteLog : k \in DOMAIN s
  BY <1>1, <1>2, <1>3, <1>4, FirstOnes
<1>6. ToSet(s) = ToSet(muteLog)
  BY <1>5 DEF ToSet
<1> QED
  BY <1>4, <1>6 DEF MuteHistory, RedisMuteHistory

LEMMA LogIsTold == ASSUME MuteShape, LogKept PROVE LogTold
<1>0. RowsOnce /\ LogRanks /\ LogFalls /\ PushesToCome /\ HeadTold
  BY DEF LogKept
<1>1. Cardinality(NewestRecorded \ {row.n : row \in MuteHistory(MaxEvents)}) <= clobbered
  <2>1. CASE muteStore = "redis"
    <3>1. {row.n : row \in MuteHistory(MaxEvents)} = Listed
      BY <1>0, <2>1, EntriesListed DEF Listed, ToSet
    <3>2. Cardinality(Missing) <= clobbered
      BY <1>0, <2>1, RanksAre
    <3> QED
      BY <3>1, <3>2 DEF Missing
  <2>2. CASE muteStore # "redis"
    <3>1. MuteHistory(MaxEvents) = ToSet(muteTable)
      BY <1>0, <2>2, TableListed
    <3>2. \A n \in recorded : \E row \in ToSet(muteTable) : row.n = n
      BY <1>0, <2>2 DEF RowsOnce, ToSet
    <3>3. NewestRecorded \ {row.n : row \in MuteHistory(MaxEvents)} = {}
      BY <3>1, <3>2 DEF NewestRecorded
    <3>4. Cardinality({}) = 0 /\ clobbered \in Nat
      BY FS_EmptySet DEF MuteShape
    <3>5. Cardinality(NewestRecorded \ {row.n : row \in MuteHistory(MaxEvents)}) = 0
      BY <3>3, <3>4
    <3> QED
      BY <3>4, <3>5
  <2> QED
    BY <2>1, <2>2
<1>2. clobbered = 0 => \A i, j \in DOMAIN muteLog : i < j => muteLog[i].n # muteLog[j].n
  <2>1. \A i \in DOMAIN muteLog : muteLog[i].n \in Nat
    <3>1. \A i \in DOMAIN muteLog : muteLog[i] \in Rows
      BY ItemOf DEF MuteShape
    <3> QED
      BY <3>1 DEF Rows
  <2> QED
    BY <1>0, <2>1 DEF LogFalls
<1>3. ASSUME muteStore = "redis", pending = <<>>, muteTrouble = 0, clobbered = 0, muteLog # <<>>
      PROVE  muteLog[1].open = (said[muteLog[1].user].until # 0)
  <2>1. PICK e : e = muteLog[1]
    OBVIOUS
  <2>2. e \in Rows
    <3>1. Len(muteLog) \in Nat /\ DOMAIN muteLog = 1 .. Len(muteLog) /\ (muteLog = <<>> <=> Len(muteLog) = 0)
          /\ \A k \in DOMAIN muteLog : muteLog[k] \in Rows
      BY ItemOf DEF MuteShape
    <3> QED
      BY <1>3, <2>1, <3>1
  <2>3. e.open \in BOOLEAN /\ e.n \in Nat /\ e.user \in Mutees /\ said[e.user].n \in Nat
    BY <2>2 DEF Rows, MuteShape
  <2>4. DOMAIN pending = {}
    BY <1>3
  <2>5. ~LookToCome(e.user) /\ ~MarkToCome(e.user, e.n)
    BY <2>4 DEF LookToCome, MarkToCome
  <2>6. e.open => said[e.user].until # 0
    BY <1>0, <1>3, <2>1, <2>5 DEF HeadTold, MarkToCome
  <2>7. ASSUME ~e.open, said[e.user].until # 0 PROVE FALSE
    <3>1. said[e.user].n > e.n
      BY <1>0, <1>3, <2>1, <2>7 DEF HeadTold
    <3>2. said[e.user].n \in recorded
      BY <1>0, <1>3, <2>3, <2>4, <2>7 DEF PushesToCome
    <3>3. said[e.user].n <= e.n
      BY <1>0, <1>3, <2>1, <3>2 DEF LogFalls
    <3> QED
      BY <2>3, <3>1, <3>3
  <2> QED
    BY <2>1, <2>3, <2>6, <2>7
<1> QED
  BY <1>1, <1>2, <1>3 DEF LogTold

LEMMA MuteRowsTold == ASSUME MuteRowsIInv PROVE MuteRowsInv
<1>0. MuteShape /\ AllDecided /\ ListTold /\ LogKept /\ RowsOnce /\ LogRanks
  BY DEF MuteRowsIInv, Heard, LogKept
<1>1. ASSUME NEW row \in ToSet(muteTable) \union ToSet(muteLog) PROVE row.user \in Mutees /\ row.n \in 1 .. commands
  <2>1. (\A k \in DOMAIN muteTable : muteTable[k] \in Rows) /\ (\A k \in DOMAIN muteLog : muteLog[k] \in Rows)
    BY <1>0, ItemOf DEF MuteShape
  <2>2. row \in Rows
    BY <2>1 DEF ToSet
  <2>3. row.n \in recorded
    <3>1. CASE muteStore = "redis"
      <4>1. DOMAIN muteTable = {}
        BY <1>0, <3>1 DEF MuteShape
      <4> QED
        BY <1>0, <4>1 DEF LogRanks, ToSet
    <3>2. CASE muteStore # "redis"
      <4>1. DOMAIN muteLog = {}
        BY <1>0, <3>2 DEF MuteShape
      <4> QED
        BY <1>0, <3>2, <4>1 DEF RowsOnce, ToSet
    <3> QED
      BY <3>1, <3>2
  <2>4. row.user \in Mutees
    BY <2>2 DEF Rows
  <2> QED
    BY <1>0, <2>3, <2>4 DEF MuteShape
<1>2. MuteRowsTypeOK
  BY <1>0, <1>1 DEF MuteRowsTypeOK, MuteShape
<1>3. TableTold
  <2>1. ASSUME NEW u \in Mutees \ unsure, Commands(u) = {} PROVE StoreTells(u)
    BY <1>0, <2>1 DEF AllDecided, Decided
  <2> QED
    BY <1>0, <2>1, StoreSays DEF TableTold
<1>4. LogTold
  BY <1>0, LogIsTold
<1> QED
  BY <1>0, <1>2, <1>3, <1>4 DEF MuteRowsInv

\* services/muteService.js on postgres, mongo and redis: whatever order commands,
\* hydrations, calls, failures and crashes come in, the store and the list say what the
\* last command on a user said, except of users whom a failure, an overtaken call or a
\* hydration beside the command names, and the history of the chat has every mute that
\* was recorded, as many as redis keeps, except as many as marks wrote over.
THEOREM MuteRowsKept == MuteRowsSpec => []MuteRowsInv
<1>1. MuteRowsInit => MuteRowsIInv
  BY MuteRowsFirst
<1>2. MuteRowsIInv /\ [MuteRowsNext]_muteRowVars => MuteRowsIInv'
  BY MuteRowsSteps
<1>3. MuteRowsIInv => MuteRowsInv
  BY MuteRowsTold
<1> QED
  BY <1>1, <1>2, <1>3, PTL DEF MuteRowsSpec

=============================================================================

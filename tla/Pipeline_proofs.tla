-------------------------- MODULE Pipeline_proofs ---------------------------
(***************************************************************************)
(* Proofs about what the worker makes of the events of WhatsApp: Pipeline, *)
(* for all messages, chats and concurrencies, and Groups, for all members, *)
(* settings, notices and stores.                                           *)
(***************************************************************************)
EXTENDS Pipeline, Groups, FiniteSetTheorems, SequenceTheorems, TLAPS

\* A fact about taking the head of a sequence.
LEMMA TailOf ==
  ASSUME NEW S, NEW q \in Seq(S), q # <<>>
  PROVE  /\ Head(q) \in S /\ Head(q) = q[1] /\ 1 \in DOMAIN q
         /\ Tail(q) \in Seq(S)
         /\ \A i \in DOMAIN Tail(q) :
              Tail(q)[i] = q[i + 1] /\ i + 1 \in DOMAIN q /\ i \in Nat /\ i + 1 # 1
         /\ \A i \in DOMAIN q : i # 1 => i - 1 \in DOMAIN Tail(q) /\ i \in Int
  OBVIOUS

\* A fact about appending to a sequence.
LEMMA AppendOf ==
  ASSUME NEW S, NEW q \in Seq(S), NEW x \in S
  PROVE  /\ Append(q, x) \in Seq(S)
         /\ DOMAIN Append(q, x) = DOMAIN q \union {Len(q) + 1}
         /\ Len(q) + 1 \notin DOMAIN q
         /\ Append(q, x)[Len(q) + 1] = x
         /\ \A i \in DOMAIN q : Append(q, x)[i] = q[i]
  OBVIOUS


-----------------------------------------------------------------------------
(* The queues *)

Active == {"queued"} \union Busy

\* A message that has work left is in the queue object that its chat holds.
Linked ==
  \A m \in Messages :
    pc[m] \in Active => holds[ChatOf[m]] # 0 /\ home[m] = holds[ChatOf[m]]

\* What waits in a chat are its queued messages, each of them once.
Lined ==
  /\ \A c \in Chats : \A i \in DOMAIN waiting[c] : pc[waiting[c][i]] = "queued"
  /\ \A c \in Chats : \A i, j \in DOMAIN waiting[c] :
       waiting[c][i] = waiting[c][j] => i = j
  /\ \A m \in Messages :
       pc[m] = "queued" => \E i \in DOMAIN waiting[ChatOf[m]] : waiting[ChatOf[m]][i] = m

QueueInv == TypeOK /\ Linked /\ Lined

LEMMA QueueInit == Init => QueueInv
  BY PipelineAssumption DEF Init, QueueInv, TypeOK, Linked, Lined, Places, Active, Busy

\* Every step but the arrival, the start and the end of a task leaves the
\* queues alone, and so does their invariant.
Same == UNCHANGED <<holds, made, waiting, home, arrived>>

LEMMA KeepsQueues ==
  ASSUME QueueInv, Same, NEW m \in Messages, NEW p \in Busy, pc[m] \in Busy,
         pc' = [pc EXCEPT ![m] = p], muted' \subseteq Chats, ran' \subseteq Messages
  PROVE  QueueInv'
<1> USE DEF QueueInv, Same
<1>1. TypeOK' BY DEF TypeOK, Places, Busy
<1>2. \A n \in Messages : n # m => pc'[n] = pc[n]
  BY DEF TypeOK
<1>3. pc'[m] = p /\ pc'[m] # "queued" /\ pc[m] # "queued"
  BY DEF TypeOK, Busy
<1>4. Linked' BY <1>2, <1>3 DEF Linked, Active
<1>5. Lined'
  <2>1. \A c \in Chats : \A i \in DOMAIN waiting[c] : waiting[c][i] \in Messages /\ waiting[c][i] # m
    BY <1>3 DEF TypeOK, Lined
  <2> QED BY <1>2, <1>3, <2>1 DEF Lined
<1> QED BY <1>1, <1>4, <1>5

LEMMA ArriveKeeps == ASSUME QueueInv, NEW m \in Messages, Arrive(m) PROVE QueueInv'
<1> USE DEF QueueInv
<1> DEFINE c == ChatOf[m]
<1>1. c \in Chats /\ pc[m] = "away" BY PipelineAssumption DEF Arrive
<1>2. /\ pc' = [pc EXCEPT ![m] = "queued"]
      /\ waiting' = [waiting EXCEPT ![c] = Append(@, m)]
      /\ home' = [home EXCEPT ![m] = holds'[c]]
      /\ arrived' = [arrived EXCEPT ![c] = Append(@, m)]
      /\ UNCHANGED <<muted, ran>>
  BY DEF Arrive, QueueOf
<1>3. /\ made' \in [Chats -> Nat] /\ holds' \in [Chats -> Nat]
      /\ \A d \in Chats : holds'[d] <= made'[d]
      /\ \A d \in Chats : holds[d] # 0 \/ d # c => holds'[d] = holds[d]
      /\ holds'[c] # 0
  <2>1. CASE holds[c] = 0
    <3>1. made' = [made EXCEPT ![c] = @ + 1] /\ holds' = [holds EXCEPT ![c] = made'[c]]
      BY <2>1 DEF Arrive, QueueOf
    <3>2. made'[c] = made[c] + 1 /\ made[c] \in Nat BY <1>1, <3>1 DEF TypeOK
    <3>3. holds' = [holds EXCEPT ![c] = made[c] + 1] BY <3>1, <3>2
    <3> QED BY <1>1, <2>1, <3>1, <3>2, <3>3 DEF TypeOK
  <2>2. CASE holds[c] # 0
    BY <1>1, <2>2 DEF Arrive, QueueOf, TypeOK
  <2> QED BY <2>1, <2>2
<1>4. waiting[c] \in Seq(Messages) /\ arrived[c] \in Seq(Messages) BY <1>1 DEF TypeOK
<1>5. /\ waiting'[c] = Append(waiting[c], m)
      /\ \A d \in Chats : d # c => waiting'[d] = waiting[d]
  BY <1>1, <1>2 DEF TypeOK
<1>6. /\ DOMAIN waiting'[c] = DOMAIN waiting[c] \union {Len(waiting[c]) + 1}
       /\ Len(waiting[c]) + 1 \notin DOMAIN waiting[c]
       /\ waiting'[c][Len(waiting[c]) + 1] = m
       /\ \A i \in DOMAIN waiting[c] : waiting'[c][i] = waiting[c][i]
  BY <1>4, <1>5, AppendOf
<1>7. pc'[m] = "queued" /\ \A n \in Messages : n # m => pc'[n] = pc[n] /\ home'[n] = home[n]
  BY <1>2 DEF TypeOK
<1>8. home'[m] = holds'[c] BY <1>2 DEF TypeOK
<1>9. TypeOK'
  <2>1. pc' \in [Messages -> Places] BY <1>2 DEF TypeOK, Places
  <2>2. waiting' \in [Chats -> Seq(Messages)]
    BY <1>1, <1>2, <1>4, AppendOf DEF TypeOK
  <2>3. arrived' \in [Chats -> Seq(Messages)]
    BY <1>1, <1>2, <1>4, AppendOf DEF TypeOK
  <2>4. \A d \in Chats : \A i \in DOMAIN waiting'[d] : ChatOf[waiting'[d][i]] = d
    <3> SUFFICES ASSUME NEW d \in Chats, NEW i \in DOMAIN waiting'[d]
                 PROVE ChatOf[waiting'[d][i]] = d
      OBVIOUS
    <3>1. CASE d # c BY <1>5, <3>1 DEF TypeOK
    <3>2. CASE d = c BY <1>1, <1>6, <3>2 DEF TypeOK
    <3> QED BY <3>1, <3>2
  <2>5. home' \in [Messages -> Nat] BY <1>1, <1>2, <1>3 DEF TypeOK
  <2> QED BY <1>2, <1>3, <2>1, <2>2, <2>3, <2>4, <2>5 DEF TypeOK
<1>10. Linked'
  BY <1>1, <1>3, <1>7, <1>8, PipelineAssumption DEF Linked, Active
<1>11. Lined'
  <2>1. \A d \in Chats : \A i \in DOMAIN waiting[d] : waiting[d][i] \in Messages \ {m}
    BY <1>1 DEF TypeOK, Lined
  <2>2. \A d \in Chats : \A i \in DOMAIN waiting'[d] : pc'[waiting'[d][i]] = "queued"
    <3> SUFFICES ASSUME NEW d \in Chats, NEW i \in DOMAIN waiting'[d]
                 PROVE pc'[waiting'[d][i]] = "queued"
      OBVIOUS
    <3>1. CASE d # c BY <1>5, <1>7, <2>1, <3>1 DEF Lined
    <3>2. CASE d = c BY <1>1, <1>7, <1>6, <2>1, <3>2 DEF Lined
    <3> QED BY <3>1, <3>2
  <2>3. \A d \in Chats : \A i, j \in DOMAIN waiting'[d] : waiting'[d][i] = waiting'[d][j] => i = j
    <3> SUFFICES ASSUME NEW d \in Chats, NEW i \in DOMAIN waiting'[d], NEW j \in DOMAIN waiting'[d],
                        waiting'[d][i] = waiting'[d][j]
                 PROVE i = j
      OBVIOUS
    <3>1. CASE d # c BY <1>5, <3>1 DEF Lined
    <3>2. CASE d = c BY <1>1, <1>6, <2>1, <3>2 DEF Lined
    <3> QED BY <3>1, <3>2
  <2>4. \A n \in Messages : pc'[n] = "queued" =>
          \E i \in DOMAIN waiting'[ChatOf[n]] : waiting'[ChatOf[n]][i] = n
    <3> SUFFICES ASSUME NEW n \in Messages, pc'[n] = "queued"
                 PROVE \E i \in DOMAIN waiting'[ChatOf[n]] : waiting'[ChatOf[n]][i] = n
      OBVIOUS
    <3>1. CASE n = m BY <1>4, <1>5, <3>1, AppendOf
    <3>2. CASE n # m
      <4>1. PICK i \in DOMAIN waiting[ChatOf[n]] : waiting[ChatOf[n]][i] = n
        BY <1>7, <3>2 DEF Lined
      <4>2. ChatOf[n] \in Chats BY PipelineAssumption
      <4> QED BY <1>4, <1>5, <4>1, <4>2, AppendOf
    <3> QED BY <3>1, <3>2
  <2> QED BY <2>2, <2>3, <2>4 DEF Lined
<1> QED BY <1>9, <1>10, <1>11


\* What Take(c) does, with its message named.
LEMMA TakeOf ==
  ASSUME QueueInv, NEW c \in Chats, Take(c)
  PROVE  LET m == Head(waiting[c]) IN
         /\ waiting[c] \in Seq(Messages) /\ waiting[c] # <<>>
         /\ m \in Messages /\ m = waiting[c][1] /\ pc[m] = "queued" /\ ChatOf[m] = c
         /\ Cardinality(Pending(c, home[m])) < Concurrency
         /\ pc' = [pc EXCEPT ![m] = "checking"]
         /\ waiting' = [waiting EXCEPT ![c] = Tail(@)]
         /\ UNCHANGED <<holds, made, home, muted, arrived, ran>>
<1> USE DEF QueueInv
<1> DEFINE m == Head(waiting[c])
<1>1. waiting[c] \in Seq(Messages) /\ waiting[c] # <<>>
  BY DEF Take, TypeOK
<1>2. m \in Messages /\ m = waiting[c][1] /\ 1 \in DOMAIN waiting[c]
  BY <1>1, TailOf
<1>3. pc[m] = "queued" /\ ChatOf[m] = c
  BY <1>2 DEF TypeOK, Lined
<1> QED BY <1>1, <1>2, <1>3 DEF Take

LEMMA TakeKeeps == ASSUME QueueInv, NEW c \in Chats, Take(c) PROVE QueueInv'
<1> USE DEF QueueInv
<1> DEFINE m == Head(waiting[c])
<1>1. /\ waiting[c] \in Seq(Messages) /\ waiting[c] # <<>>
      /\ m \in Messages /\ m = waiting[c][1] /\ pc[m] = "queued" /\ ChatOf[m] = c
      /\ pc' = [pc EXCEPT ![m] = "checking"]
      /\ waiting' = [waiting EXCEPT ![c] = Tail(@)]
      /\ UNCHANGED <<holds, made, home, muted, arrived, ran>>
  BY TakeOf
<1>2. /\ waiting'[c] = Tail(waiting[c])
      /\ \A d \in Chats : d # c => waiting'[d] = waiting[d]
  BY <1>1 DEF TypeOK
<1>3. /\ waiting'[c] \in Seq(Messages)
      /\ \A i \in DOMAIN waiting'[c] :
           waiting'[c][i] = waiting[c][i + 1] /\ i + 1 \in DOMAIN waiting[c] /\ i \in Nat /\ i + 1 # 1
      /\ \A i \in DOMAIN waiting[c] : i # 1 => i - 1 \in DOMAIN waiting'[c] /\ i \in Int
  <2> DEFINE q == waiting[c]
  <2>1. q \in Seq(Messages) /\ q # <<>> BY <1>1
  <2> HIDE DEF q
  <2>2. /\ Tail(q) \in Seq(Messages)
        /\ \A i \in DOMAIN Tail(q) :
             Tail(q)[i] = q[i + 1] /\ i + 1 \in DOMAIN q /\ i \in Nat /\ i + 1 # 1
        /\ \A i \in DOMAIN q : i # 1 => i - 1 \in DOMAIN Tail(q) /\ i \in Int
    BY <2>1, TailOf
  <2> QED BY <1>2, <2>2 DEF q
<1>4. pc'[m] = "checking" /\ \A n \in Messages : n # m => pc'[n] = pc[n]
  BY <1>1 DEF TypeOK
<1>5. 1 \in DOMAIN waiting[c] BY <1>1, TailOf
<1>6. TypeOK'
  <2>1. pc' \in [Messages -> Places] BY <1>1 DEF TypeOK, Places
  <2>2. waiting' \in [Chats -> Seq(Messages)] BY <1>1, <1>2, <1>3 DEF TypeOK
  <2>3. \A d \in Chats : \A i \in DOMAIN waiting'[d] : ChatOf[waiting'[d][i]] = d
    <3> SUFFICES ASSUME NEW d \in Chats, NEW i \in DOMAIN waiting'[d]
                 PROVE ChatOf[waiting'[d][i]] = d
      OBVIOUS
    <3>1. CASE d # c BY <1>2, <3>1 DEF TypeOK
    <3>2. CASE d = c
      <4>1. waiting'[c][i] = waiting[c][i + 1] /\ i + 1 \in DOMAIN waiting[c] BY <1>3, <3>2
      <4> QED BY <3>2, <4>1 DEF TypeOK
    <3> QED BY <3>1, <3>2
  <2> QED BY <1>1, <2>1, <2>2, <2>3 DEF TypeOK
<1>7. Linked'
  BY <1>1, <1>4 DEF Linked, Active, Busy
<1>8. Lined'
  <2>1. \A d \in Chats : \A i \in DOMAIN waiting'[d] : pc'[waiting'[d][i]] = "queued"
    <3> SUFFICES ASSUME NEW d \in Chats, NEW i \in DOMAIN waiting'[d]
                 PROVE pc'[waiting'[d][i]] = "queued"
      OBVIOUS
    <3>1. CASE d # c
      <4>1. waiting[d][i] \in Messages /\ ChatOf[waiting[d][i]] = d
        BY <1>2, <3>1 DEF TypeOK
      <4>2. waiting[d][i] # m BY <1>1, <3>1, <4>1
      <4> QED BY <1>2, <1>4, <3>1, <4>1, <4>2 DEF Lined
    <3>2. CASE d = c
      <4>1. waiting'[c][i] = waiting[c][i + 1] /\ i + 1 \in DOMAIN waiting[c] /\ i + 1 # 1
        BY <1>3, <3>2
      <4>2. waiting[c][i + 1] \in Messages /\ pc[waiting[c][i + 1]] = "queued"
        BY <4>1 DEF TypeOK, Lined
      <4>3. waiting[c][i + 1] # m
        BY <1>1, <1>5, <4>1 DEF Lined
      <4> QED BY <1>4, <3>2, <4>1, <4>2, <4>3
    <3> QED BY <3>1, <3>2
  <2>2. \A d \in Chats : \A i, j \in DOMAIN waiting'[d] : waiting'[d][i] = waiting'[d][j] => i = j
    <3> SUFFICES ASSUME NEW d \in Chats, NEW i \in DOMAIN waiting'[d], NEW j \in DOMAIN waiting'[d],
                        waiting'[d][i] = waiting'[d][j]
                 PROVE i = j
      OBVIOUS
    <3>1. CASE d # c BY <1>2, <3>1 DEF Lined
    <3>2. CASE d = c
      <4>1. /\ waiting[c][i + 1] = waiting[c][j + 1]
            /\ i + 1 \in DOMAIN waiting[c] /\ j + 1 \in DOMAIN waiting[c]
            /\ i \in Nat /\ j \in Nat
        BY <1>3, <3>2
      <4>2. i + 1 = j + 1 BY <4>1 DEF Lined
      <4> QED BY <4>1, <4>2
    <3> QED BY <3>1, <3>2
  <2>3. \A n \in Messages : pc'[n] = "queued" =>
          \E i \in DOMAIN waiting'[ChatOf[n]] : waiting'[ChatOf[n]][i] = n
    <3> SUFFICES ASSUME NEW n \in Messages, pc'[n] = "queued"
                 PROVE \E i \in DOMAIN waiting'[ChatOf[n]] : waiting'[ChatOf[n]][i] = n
      OBVIOUS
    <3>1. n # m /\ pc[n] = "queued" BY <1>4
    <3>2. PICK i \in DOMAIN waiting[ChatOf[n]] : waiting[ChatOf[n]][i] = n
      BY <3>1 DEF Lined
    <3>3. CASE ChatOf[n] # c
      <4>1. ChatOf[n] \in Chats BY PipelineAssumption
      <4> QED BY <1>2, <3>2, <3>3, <4>1
    <3>4. CASE ChatOf[n] = c
      <4>1. i # 1 BY <1>1, <3>1, <3>2, <3>4
      <4>2. i - 1 \in DOMAIN waiting'[c] /\ i \in Int BY <1>3, <3>2, <3>4, <4>1
      <4>3. waiting'[c][i - 1] = waiting[c][(i - 1) + 1] BY <1>3, <4>2
      <4>4. (i - 1) + 1 = i BY <4>2
      <4> QED BY <3>2, <3>4, <4>2, <4>3, <4>4
    <3> QED BY <3>3, <3>4
  <2> QED BY <2>1, <2>2, <2>3 DEF Lined
<1> QED BY <1>6, <1>7, <1>8

\* A task ends: if its queue is dropped, no message of the chat has work left.
LEMMA EndKeeps == ASSUME QueueInv, NEW m \in Messages, End(m) PROVE QueueInv'
<1> USE DEF QueueInv
<1> DEFINE c == ChatOf[m]
<1>1. /\ c \in Chats /\ pc[m] \in Busy
      /\ pc' = [pc EXCEPT ![m] = "done"]
      /\ UNCHANGED <<made, waiting, home, muted, arrived, ran>>
  BY PipelineAssumption DEF End, Finish, Busy
<1>2. pc'[m] = "done" /\ \A n \in Messages : n # m => pc'[n] = pc[n]
  BY <1>1 DEF TypeOK
<1>3. \/ UNCHANGED holds
      \/ /\ Pending(c, home[m]) = {m} /\ waiting[c] = <<>>
         /\ holds' = [holds EXCEPT ![c] = 0]
  BY DEF End, Finish
<1>4. TypeOK'
  <2>1. pc' \in [Messages -> Places] BY <1>1 DEF TypeOK, Places
  <2>2. holds' \in [Chats -> Nat] /\ \A d \in Chats : holds'[d] <= made[d]
    <3>1. CASE UNCHANGED holds BY <3>1 DEF TypeOK
    <3>2. CASE holds' = [holds EXCEPT ![c] = 0]
      <4>1. \A d \in Chats : holds'[d] = 0 \/ holds'[d] = holds[d] BY <3>2 DEF TypeOK
      <4>2. \A d \in Chats : made[d] \in Nat /\ 0 <= made[d] BY DEF TypeOK
      <4> QED BY <3>2, <4>1, <4>2 DEF TypeOK
    <3> QED BY <1>3, <3>1, <3>2
  <2> QED BY <1>1, <2>1, <2>2 DEF TypeOK
<1>5. Linked'
  <2> SUFFICES ASSUME NEW n \in Messages, pc'[n] \in Active
               PROVE holds'[ChatOf[n]] # 0 /\ home'[n] = holds'[ChatOf[n]]
    BY DEF Linked
  <2>1. n # m /\ pc[n] \in Active BY <1>2 DEF Active, Busy
  <2>2. holds[ChatOf[n]] # 0 /\ home[n] = holds[ChatOf[n]] BY <2>1 DEF Linked
  <2>3. CASE UNCHANGED holds BY <1>1, <2>2, <2>3
  <2>4. CASE /\ Pending(c, home[m]) = {m} /\ waiting[c] = <<>>
             /\ holds' = [holds EXCEPT ![c] = 0]
    <3>1. ChatOf[n] # c
      <4> SUFFICES ASSUME ChatOf[n] = c PROVE FALSE
        OBVIOUS
      <4>1. home[n] = home[m] BY <1>1, <2>2 DEF Linked, Active
      <4>2. pc[n] \notin Busy BY <2>1, <2>4, <4>1 DEF Pending
      <4>3. pc[n] = "queued" BY <2>1, <4>2 DEF Active
      <4>4. PICK i \in DOMAIN waiting[c] : TRUE BY <4>3 DEF Lined
      <4> QED BY <2>4, <4>4
    <3>2. ChatOf[n] \in Chats BY PipelineAssumption
    <3> QED BY <1>1, <2>2, <2>4, <3>1, <3>2 DEF TypeOK
  <2> QED BY <1>3, <2>3, <2>4
<1>6. Lined'
  <2>1. pc[m] # "queued" BY <1>1 DEF Busy
  <2>2. \A d \in Chats : \A i \in DOMAIN waiting[d] : waiting[d][i] \in Messages /\ waiting[d][i] # m
    BY <2>1 DEF TypeOK, Lined
  <2> QED BY <1>1, <1>2, <2>2 DEF Lined
<1> QED BY <1>4, <1>5, <1>6

LEMMA QueueStep == ASSUME QueueInv, [Next]_vars PROVE QueueInv'
<1>1. ASSUME NEW m \in Messages, Arrive(m) PROVE QueueInv' BY <1>1, ArriveKeeps
<1>2. ASSUME NEW c \in Chats, Take(c) PROVE QueueInv' BY <1>2, TakeKeeps
<1>3. ASSUME NEW m \in Messages, End(m) PROVE QueueInv' BY <1>3, EndKeeps
<1>4. ASSUME NEW m \in Messages, Refuse(m) \/ Returns(m) PROVE QueueInv'
  <2>1. pc[m] \in Busy /\ pc' = [pc EXCEPT ![m] = "replying"] /\ "replying" \in Busy
    BY <1>4 DEF Refuse, Returns, Busy
  <2>2. Same /\ muted' \subseteq Chats /\ ran' \subseteq Messages
    BY <1>4 DEF Refuse, Returns, Same, QueueInv, TypeOK
  <2> QED BY <2>1, <2>2, KeepsQueues
<1>5. ASSUME NEW m \in Messages, Run(m) PROVE QueueInv'
  <2>1. pc[m] \in Busy /\ pc' = [pc EXCEPT ![m] = "running"] /\ "running" \in Busy
    BY <1>5 DEF Run, Busy
  <2>2. Same BY <1>5 DEF Run, Same
  <2>3. ran' \subseteq Messages BY <1>5 DEF Run, QueueInv, TypeOK
  <2>4. ChatOf[m] \in Chats /\ muted \subseteq Chats
    BY PipelineAssumption DEF QueueInv, TypeOK
  <2>5. muted' \subseteq Chats BY <1>5, <2>4 DEF Run
  <2> QED BY <2>1, <2>2, <2>3, <2>5, KeepsQueues
<1>6. CASE UNCHANGED vars
  BY <1>6 DEF vars, QueueInv, TypeOK, Linked, Lined
<1> QED BY <1>1, <1>2, <1>3, <1>4, <1>5, <1>6 DEF Next, Handle

\* Every variable keeps its type, for all messages and chats.
THEOREM TypeCorrect == Spec => []TypeOK
<1>1. QueueInv /\ [Next]_vars => QueueInv' BY QueueStep
<1>2. QueueInv => TypeOK BY DEF QueueInv
<1> QED BY QueueInit, <1>1, <1>2, PTL DEF Spec


-----------------------------------------------------------------------------
(* What each step does to the tasks that run *)

LEMMA ArriveServes ==
  ASSUME QueueInv, NEW m \in Messages, Arrive(m)
  PROVE  \A d \in Chats : Handling(d)' = Handling(d)
<1>1. pc[m] = "away" /\ pc' = [pc EXCEPT ![m] = "queued"] BY DEF Arrive
<1>2. \A n \in Messages : pc'[n] \in Busy <=> pc[n] \in Busy
  BY <1>1 DEF QueueInv, TypeOK, Busy
<1> QED BY <1>2 DEF Handling

LEMMA MoveServes ==
  ASSUME QueueInv, NEW m \in Messages, Refuse(m) \/ Run(m) \/ Returns(m)
  PROVE  \A d \in Chats : Handling(d)' = Handling(d)
<1>1. pc[m] \in Busy /\ \E p \in Busy : pc' = [pc EXCEPT ![m] = p]
  BY DEF Refuse, Run, Returns, Busy
<1>2. \A n \in Messages : pc'[n] \in Busy <=> pc[n] \in Busy
  BY <1>1 DEF QueueInv, TypeOK
<1> QED BY <1>2 DEF Handling

\* The tasks of a chat all belong to the queue of its waiting messages, so the
\* limit of one queue object is the limit of the chat.
LEMMA TakeServes ==
  ASSUME QueueInv, NEW c \in Chats, Take(c)
  PROVE  /\ Cardinality(Handling(c)) < Concurrency
         /\ Handling(c)' = Handling(c) \union {Head(waiting[c])}
         /\ Head(waiting[c]) \notin Handling(c)
         /\ \A d \in Chats : d # c => Handling(d)' = Handling(d)
<1> DEFINE m == Head(waiting[c])
<1>1. /\ m \in Messages /\ pc[m] = "queued" /\ ChatOf[m] = c
      /\ Cardinality(Pending(c, home[m])) < Concurrency
      /\ pc' = [pc EXCEPT ![m] = "checking"]
  BY TakeOf
<1>2. home[m] = holds[c] BY <1>1 DEF QueueInv, Linked, Active
<1>3. \A n \in Messages : ChatOf[n] = c /\ pc[n] \in Busy => home[n] = holds[c]
  BY DEF QueueInv, Linked, Active
<1>4. Pending(c, home[m]) = Handling(c)
  BY <1>2, <1>3 DEF Pending, Handling
<1>5. \A n \in Messages : pc'[n] \in Busy <=> pc[n] \in Busy \/ n = m
  BY <1>1 DEF QueueInv, TypeOK, Busy
<1>6. Handling(c)' = Handling(c) \union {m} BY <1>1, <1>5 DEF Handling
<1>7. \A d \in Chats : d # c => Handling(d)' = Handling(d) BY <1>1, <1>5 DEF Handling
<1>8. m \notin Handling(c) BY <1>1 DEF Handling, Busy
<1> QED BY <1>1, <1>4, <1>6, <1>7, <1>8

LEMMA EndServes ==
  ASSUME QueueInv, NEW m \in Messages, End(m)
  PROVE  /\ ChatOf[m] \in Chats /\ m \in Handling(ChatOf[m])
         /\ Handling(ChatOf[m])' = Handling(ChatOf[m]) \ {m}
         /\ \A d \in Chats : d # ChatOf[m] => Handling(d)' = Handling(d)
<1>1. pc[m] \in Busy /\ pc' = [pc EXCEPT ![m] = "done"]
  BY DEF End, Finish, Busy
<1>2. \A n \in Messages : pc'[n] \in Busy <=> pc[n] \in Busy /\ n # m
  BY <1>1 DEF QueueInv, TypeOK, Busy
<1>3. Handling(ChatOf[m])' = Handling(ChatOf[m]) \ {m} BY <1>2 DEF Handling
<1>4. \A d \in Chats : d # ChatOf[m] => Handling(d)' = Handling(d) BY <1>2 DEF Handling
<1> QED BY <1>1, <1>3, <1>4, PipelineAssumption DEF Handling

-----------------------------------------------------------------------------
(* A chat is never served beyond its concurrency *)

LEMMA HandlingFinite == ASSUME NEW c PROVE IsFiniteSet(Handling(c))
  BY PipelineAssumption, FS_Subset DEF Handling

LEMMA OneStep == ASSUME QueueInv, OneAtATime, [Next]_vars PROVE OneAtATime'
<1>1. ASSUME NEW c \in Chats, Take(c) PROVE OneAtATime'
  <2>1. /\ Cardinality(Handling(c)) < Concurrency
        /\ Handling(c)' = Handling(c) \union {Head(waiting[c])}
        /\ Head(waiting[c]) \notin Handling(c)
        /\ \A d \in Chats : d # c => Handling(d)' = Handling(d)
    BY <1>1, TakeServes
  <2>2. IsFiniteSet(Handling(c)) /\ Cardinality(Handling(c)) \in Nat
    BY HandlingFinite, FS_CardinalityType
  <2>3. Cardinality(Handling(c)') = Cardinality(Handling(c)) + 1
    BY <2>1, <2>2, FS_AddElement
  <2>4. Concurrency \in Nat BY PipelineAssumption
  <2>5. Cardinality(Handling(c)') <= Concurrency BY <2>1, <2>2, <2>3, <2>4
  <2> QED BY <2>1, <2>5 DEF OneAtATime
<1>2. ASSUME NEW m \in Messages, End(m) PROVE OneAtATime'
  <2> DEFINE c == ChatOf[m]
  <2>1. /\ c \in Chats
        /\ Handling(c)' = Handling(c) \ {m}
        /\ \A d \in Chats : d # c => Handling(d)' = Handling(d)
    BY <1>2, EndServes
  <2>2. IsFiniteSet(Handling(c)) BY HandlingFinite
  <2>3. IsFiniteSet(Handling(c)') /\ Cardinality(Handling(c)') <= Cardinality(Handling(c))
    BY <2>1, <2>2, FS_Subset
  <2>4. Cardinality(Handling(c)) \in Nat /\ Cardinality(Handling(c)') \in Nat /\ Concurrency \in Nat
    BY <2>2, <2>3, FS_CardinalityType, PipelineAssumption
  <2>5. Cardinality(Handling(c)) <= Concurrency BY <2>1 DEF OneAtATime
  <2>6. Cardinality(Handling(c)') <= Concurrency BY <2>3, <2>4, <2>5
  <2> QED BY <2>1, <2>6 DEF OneAtATime
<1>3. ASSUME \A d \in Chats : Handling(d)' = Handling(d) PROVE OneAtATime'
  BY <1>3 DEF OneAtATime
<1>4. ASSUME NEW m \in Messages, Arrive(m) PROVE OneAtATime' BY <1>3, <1>4, ArriveServes
<1>5. ASSUME NEW m \in Messages, Refuse(m) \/ Run(m) \/ Returns(m) PROVE OneAtATime'
  BY <1>3, <1>5, MoveServes
<1>6. CASE UNCHANGED vars
  <2>1. \A d \in Chats : Handling(d)' = Handling(d) BY <1>6 DEF vars, Handling
  <2> QED BY <1>3, <2>1
<1> QED BY <1>1, <1>2, <1>4, <1>5, <1>6 DEF Next, Handle

\* However queue objects are dropped and made anew, a chat never has more tasks
\* at work than config.processing.concurrencyPerChat (worker.js, queueFor).
THEOREM ConcurrencyHeld == Spec => []OneAtATime
<1>1. Init => OneAtATime
  <2> SUFFICES ASSUME Init, NEW c \in Chats PROVE Cardinality(Handling(c)) <= Concurrency
    BY DEF OneAtATime
  <2>1. Handling(c) = {} BY DEF Init, Handling, Busy
  <2>2. Cardinality(Handling(c)) = 0 BY <2>1, FS_EmptySet
  <2> QED BY <2>2, PipelineAssumption
<1>2. QueueInv /\ OneAtATime /\ [Next]_vars => QueueInv' /\ OneAtATime'
  BY QueueStep, OneStep
<1> QED BY <1>1, <1>2, QueueInit, PTL DEF Spec

-----------------------------------------------------------------------------
(* The queues implement ChatFifo *)

LEMMA FifoStep ==
  ASSUME QueueInv, [Next]_vars
  PROVE  [Fifo!Next]_<<{m \in Messages : pc[m] # "away"}, waiting, [c \in Chats |-> Handling(c)]>>
<1> DEFINE come == {m \in Messages : pc[m] # "away"}
           serving == [c \in Chats |-> Handling(c)]
<1> USE DEF QueueInv
<1>1. ASSUME NEW m \in Messages, Arrive(m) PROVE Fifo!Come(m)
  <2>1. pc[m] = "away" /\ pc' = [pc EXCEPT ![m] = "queued"]
        /\ waiting' = [waiting EXCEPT ![ChatOf[m]] = Append(@, m)]
    BY <1>1 DEF Arrive, QueueOf
  <2>2. m \notin come /\ come' = come \union {m} BY <2>1 DEF TypeOK
  <2>3. serving' = serving BY <1>1, ArriveServes
  <2> QED BY <2>1, <2>2, <2>3 DEF Fifo!Come
<1>2. ASSUME NEW c \in Chats, Take(c) PROVE Fifo!Serve(c)
  <2> DEFINE m == Head(waiting[c])
  <2>1. /\ waiting[c] # <<>> /\ m \in Messages /\ pc[m] = "queued"
        /\ pc' = [pc EXCEPT ![m] = "checking"]
        /\ waiting' = [waiting EXCEPT ![c] = Tail(@)]
    BY <1>2, TakeOf
  <2>2. come' = come BY <2>1 DEF TypeOK
  <2>3. /\ Cardinality(serving[c]) < Concurrency
        /\ serving' = [serving EXCEPT ![c] = @ \union {m}]
    BY <1>2, TakeServes
  <2>4. serving' = [serving EXCEPT ![c] = @ \union {Head(waiting[c])}] BY <2>3
  <2>5. waiting[c] # <<>> /\ waiting' = [waiting EXCEPT ![c] = Tail(@)] BY <2>1
  <2>6. Cardinality(serving[c]) < Concurrency BY <2>3
  <2>7. Fifo!Cardinality(serving[c]) = Cardinality(serving[c])
    BY DEF Fifo!Cardinality, Cardinality, Fifo!IsFiniteSet, IsFiniteSet
  <2> HIDE DEF QueueInv, m
  <2> QED BY ONLY <2>2, <2>4, <2>5, <2>6, <2>7 DEF Fifo!Serve
<1>3. ASSUME NEW m \in Messages, End(m) PROVE Fifo!Leave(ChatOf[m])
  <2>1. pc[m] \in Busy /\ pc' = [pc EXCEPT ![m] = "done"] /\ waiting' = waiting
    BY <1>3 DEF End, Finish, Busy
  <2>2. come' = come BY <2>1 DEF TypeOK, Busy
  <2>3. m \in serving[ChatOf[m]] /\ serving' = [serving EXCEPT ![ChatOf[m]] = @ \ {m}]
    BY <1>3, EndServes
  <2> QED BY <2>1, <2>2, <2>3 DEF Fifo!Leave
<1>4. ASSUME NEW m \in Messages, Refuse(m) \/ Run(m) \/ Returns(m)
      PROVE  UNCHANGED <<come, waiting, serving>>
  <2>1. pc[m] \in Busy /\ (\E p \in Busy : pc' = [pc EXCEPT ![m] = p]) /\ waiting' = waiting
    BY <1>4 DEF Refuse, Run, Returns, Busy
  <2>2. come' = come BY <2>1 DEF TypeOK, Busy
  <2>3. serving' = serving BY <1>4, MoveServes
  <2> QED BY <2>1, <2>2, <2>3
<1>5. CASE UNCHANGED vars
  BY <1>5 DEF vars, Handling
<1>6. \A m \in Messages : ChatOf[m] \in Chats BY PipelineAssumption
<1> QED BY <1>1, <1>2, <1>3, <1>4, <1>5, <1>6 DEF Next, Handle, Fifo!Next

\* For every concurrency, the per-chat queues of worker.js serve every chat in
\* the order of arrival, independently of each other: they implement ChatFifo.
THEOREM QueuesAreFifo == Spec => ServesInOrder
<1>1. Init => Fifo!Init
  BY DEF Init, Fifo!Init, Handling, Busy
<1>2. QueueInv /\ [Next]_vars => QueueInv' BY QueueStep
<1>3. QueueInv /\ [Next]_vars
        => [Fifo!Next]_<<{m \in Messages : pc[m] # "away"}, waiting, [c \in Chats |-> Handling(c)]>>
  BY FifoStep
<1> QED BY <1>1, <1>2, <1>3, QueueInit, PTL DEF Spec, ServesInOrder, Fifo!Spec

-----------------------------------------------------------------------------
(* Queues without work *)

LEMMA FreedStep == ASSUME QueueInv, QueuesAreFreed, [Next]_vars PROVE QueuesAreFreed'
<1>1. ASSUME NEW m \in Messages, Arrive(m) PROVE QueuesAreFreed'
  <2> DEFINE c == ChatOf[m]
  <2>1. c \in Chats BY PipelineAssumption
  <2>2. /\ waiting' = [waiting EXCEPT ![c] = Append(@, m)]
        /\ holds' = holds \/ \E g : holds' = [holds EXCEPT ![c] = g]
    BY <1>1 DEF Arrive, QueueOf
  <2>3. waiting[c] \in Seq(Messages) BY <2>1 DEF QueueInv, TypeOK
  <2>4. waiting'[c] # <<>>
    <3> DEFINE longer == Append(waiting[c], m)
    <3>1. longer[Len(waiting[c]) + 1] = m /\ Len(waiting[c]) + 1 \in DOMAIN longer
      BY <2>3, AppendOf
    <3>2. longer # <<>> BY <3>1
    <3> QED BY <2>1, <2>2, <3>2 DEF QueueInv, TypeOK
  <2>5. \A d \in Chats : d # c => waiting'[d] = waiting[d] /\ holds'[d] = holds[d]
    BY <2>1, <2>2 DEF QueueInv, TypeOK
  <2>6. \A d \in Chats : Handling(d)' = Handling(d) BY <1>1, ArriveServes
  <2> QED BY <2>4, <2>5, <2>6 DEF QueuesAreFreed
<1>2. ASSUME NEW c \in Chats, Take(c) PROVE QueuesAreFreed'
  <2>1. /\ Handling(c)' # {} /\ holds' = holds
        /\ \A d \in Chats : d # c => Handling(d)' = Handling(d)
    BY <1>2, TakeServes, TakeOf
  <2>2. \A d \in Chats : d # c => waiting'[d] = waiting[d]
    BY <1>2, TakeOf DEF QueueInv, TypeOK
  <2> QED BY <2>1, <2>2 DEF QueuesAreFreed
<1>3. ASSUME NEW m \in Messages, End(m) PROVE QueuesAreFreed'
  <2> DEFINE c == ChatOf[m]
  <2>1. /\ c \in Chats /\ m \in Handling(c) /\ Handling(c)' = Handling(c) \ {m}
        /\ \A d \in Chats : d # c => Handling(d)' = Handling(d)
    BY <1>3, EndServes
  <2>2. /\ waiting' = waiting
        /\ holds' = IF Pending(c, home[m]) = {m} /\ waiting[c] = <<>>
                      THEN [holds EXCEPT ![c] = 0] ELSE holds
    BY <1>3 DEF End, Finish
  <2>3. m \in Pending(c, home[m]) /\ Pending(c, home[m]) \subseteq Handling(c)
    BY <2>1 DEF Pending, Handling
  <2>4. CASE Pending(c, home[m]) = {m} /\ waiting[c] = <<>>
    BY <2>1, <2>2, <2>4 DEF QueuesAreFreed, QueueInv, TypeOK
  <2>5. CASE waiting[c] # <<>>
    BY <2>1, <2>2, <2>5 DEF QueuesAreFreed
  <2>6. CASE Pending(c, home[m]) # {m}
    <3>1. Handling(c)' # {} BY <2>1, <2>3, <2>6
    <3> QED BY <2>1, <2>2, <2>6, <3>1 DEF QueuesAreFreed
  <2> QED BY <2>4, <2>5, <2>6
<1>4. ASSUME NEW m \in Messages, Refuse(m) \/ Run(m) \/ Returns(m) PROVE QueuesAreFreed'
  <2>1. UNCHANGED <<holds, waiting>> BY <1>4 DEF Refuse, Run, Returns
  <2>2. \A d \in Chats : Handling(d)' = Handling(d) BY <1>4, MoveServes
  <2> QED BY <2>1, <2>2 DEF QueuesAreFreed
<1>5. CASE UNCHANGED vars
  BY <1>5 DEF vars, QueuesAreFreed, Handling
<1> QED BY <1>1, <1>2, <1>3, <1>4, <1>5 DEF Next, Handle

\* A queue that chatQueues holds has work: chats that fall silent leave none.
THEOREM SilentChatsAreFreed == Spec => []QueuesAreFreed
<1>1. Init => QueuesAreFreed BY DEF Init, QueuesAreFreed
<1>2. QueueInv /\ [Next]_vars => QueueInv' BY QueueStep
<1>3. QueueInv /\ QueuesAreFreed /\ [Next]_vars => QueuesAreFreed' BY FreedStep
<1> QED BY QueueInit, <1>1, <1>2, <1>3, PTL DEF Spec

-----------------------------------------------------------------------------
(* The mute list and the order of arrival *)

Started == Busy \union {"done"}

\* The history has every message that arrived, once, in its own chat.
Arrivals ==
  /\ \A c \in Chats : \A i \in DOMAIN arrived[c] :
       ChatOf[arrived[c][i]] = c /\ pc[arrived[c][i]] # "away"
  /\ \A c \in Chats : \A i, j \in DOMAIN arrived[c] : arrived[c][i] = arrived[c][j] => i = j
  /\ \A m \in Messages :
       pc[m] # "away" => \E i \in DOMAIN arrived[ChatOf[m]] : arrived[ChatOf[m]][i] = m

\* Messages wait in the order of their arrival.
InOrder ==
  \A c \in Chats : \A k, l \in DOMAIN waiting[c] : \A i, j \in DOMAIN arrived[c] :
    k < l /\ waiting[c][k] = arrived[c][i] /\ waiting[c][l] = arrived[c][j] => i < j

\* One at a time: a message is started when all that arrived before are done.
Ended ==
  \A c \in Chats : \A i, j \in DOMAIN arrived[c] :
    i < j /\ pc[arrived[c][j]] \in Started => pc[arrived[c][i]] = "done"

RanStarted == \A m \in ran : pc[m] \in {"running", "replying", "done"}

\* A mute that ran is in force until an unmute that arrived later ran.
Remembered ==
  \A c \in Chats : \A i \in DOMAIN arrived[c] :
    KindOf[arrived[c][i]] = "mute" /\ arrived[c][i] \in ran =>
      \/ c \in muted
      \/ \E k \in DOMAIN arrived[c] :
           i < k /\ KindOf[arrived[c][k]] = "unmute" /\ arrived[c][k] \in ran

OrderInv == QueueInv /\ Arrivals /\ InOrder /\ Ended /\ RanStarted
BindInv == OrderInv /\ Remembered /\ MuteBindsLaterMessages

LEMMA BindInit == Init => BindInv
<1> SUFFICES ASSUME Init PROVE BindInv
  OBVIOUS
<1>1. Arrivals /\ InOrder /\ Ended /\ RanStarted /\ Remembered /\ MuteBindsLaterMessages
  BY PipelineAssumption DEF Init, Arrivals, InOrder, Ended, RanStarted, Remembered, MuteBindsLaterMessages
<1> QED BY <1>1, QueueInit DEF BindInv, OrderInv

LEMMA ArrivedType ==
  ASSUME TypeOK
  PROVE  /\ \A c \in Chats : /\ arrived[c] \in Seq(Messages) /\ waiting[c] \in Seq(Messages)
                             /\ \A i \in DOMAIN arrived[c] : i \in Nat /\ arrived[c][i] \in Messages
                             /\ \A i \in DOMAIN waiting[c] : i \in Nat /\ waiting[c][i] \in Messages
         /\ \A m \in Messages : ChatOf[m] \in Chats
<1>1. \A c \in Chats : arrived[c] \in Seq(Messages) /\ waiting[c] \in Seq(Messages)
  BY DEF TypeOK
<1>2. \A q \in Seq(Messages) : \A i \in DOMAIN q : i \in Nat /\ q[i] \in Messages
  OBVIOUS
<1> QED BY <1>1, <1>2, PipelineAssumption

\* An arrival appends its message to the history and to what waits.
LEMMA ArriveOf ==
  ASSUME QueueInv, NEW m \in Messages, Arrive(m)
  PROVE  LET c == ChatOf[m] IN
         /\ c \in Chats /\ pc[m] = "away" /\ pc'[m] = "queued"
         /\ \A n \in Messages : n # m => pc'[n] = pc[n]
         /\ UNCHANGED <<muted, ran>>
         /\ \A d \in Chats : d # c => arrived'[d] = arrived[d] /\ waiting'[d] = waiting[d]
         /\ DOMAIN arrived'[c] = DOMAIN arrived[c] \union {Len(arrived[c]) + 1}
         /\ arrived'[c][Len(arrived[c]) + 1] = m
         /\ \A i \in DOMAIN arrived[c] :
              arrived'[c][i] = arrived[c][i] /\ i \in Nat /\ i < Len(arrived[c]) + 1
         /\ Len(arrived[c]) \in Nat
         /\ DOMAIN waiting'[c] = DOMAIN waiting[c] \union {Len(waiting[c]) + 1}
         /\ waiting'[c][Len(waiting[c]) + 1] = m
         /\ \A i \in DOMAIN waiting[c] :
              waiting'[c][i] = waiting[c][i] /\ i \in Nat /\ i < Len(waiting[c]) + 1
         /\ Len(waiting[c]) \in Nat
<1> DEFINE c == ChatOf[m]
<1>1. c \in Chats /\ pc[m] = "away" BY PipelineAssumption DEF Arrive
<1>2. /\ pc' = [pc EXCEPT ![m] = "queued"]
      /\ waiting' = [waiting EXCEPT ![c] = Append(@, m)]
      /\ arrived' = [arrived EXCEPT ![c] = Append(@, m)]
      /\ UNCHANGED <<muted, ran>>
  BY DEF Arrive, QueueOf
<1>3. waiting[c] \in Seq(Messages) /\ arrived[c] \in Seq(Messages)
  BY <1>1 DEF QueueInv, TypeOK
<1>4. /\ waiting'[c] = Append(waiting[c], m) /\ arrived'[c] = Append(arrived[c], m)
      /\ \A d \in Chats : d # c => arrived'[d] = arrived[d] /\ waiting'[d] = waiting[d]
      /\ pc'[m] = "queued" /\ \A n \in Messages : n # m => pc'[n] = pc[n]
  BY <1>1, <1>2 DEF QueueInv, TypeOK
<1>5. \A q \in Seq(Messages) : /\ Len(q) \in Nat
                               /\ \A i \in DOMAIN q : i \in Nat /\ i < Len(q) + 1
  OBVIOUS
<1> QED BY <1>1, <1>2, <1>3, <1>4, <1>5, AppendOf

LEMMA ArriveOrder ==
  ASSUME OrderInv, NEW m \in Messages, Arrive(m)
  PROVE  Arrivals' /\ InOrder' /\ Ended' /\ RanStarted'
<1> USE DEF OrderInv
<1> DEFINE c == ChatOf[m]
           last == Len(arrived[c]) + 1
           end == Len(waiting[c]) + 1
<1>1. /\ c \in Chats /\ pc[m] = "away" /\ pc'[m] = "queued"
      /\ \A n \in Messages : n # m => pc'[n] = pc[n]
      /\ UNCHANGED <<muted, ran>>
      /\ \A d \in Chats : d # c => arrived'[d] = arrived[d] /\ waiting'[d] = waiting[d]
  BY ArriveOf
<1>2. /\ DOMAIN arrived'[c] = DOMAIN arrived[c] \union {last}
      /\ arrived'[c][last] = m
      /\ \A i \in DOMAIN arrived[c] : arrived'[c][i] = arrived[c][i] /\ i \in Nat /\ i < last
      /\ last \in Nat
  BY ArriveOf
<1>3. /\ DOMAIN waiting'[c] = DOMAIN waiting[c] \union {end}
      /\ waiting'[c][end] = m
      /\ \A i \in DOMAIN waiting[c] : waiting'[c][i] = waiting[c][i] /\ i \in Nat /\ i < end
      /\ end \in Nat
  BY ArriveOf
<1>4. /\ \A d \in Chats : \A i \in DOMAIN arrived[d] : arrived[d][i] \in Messages \ {m}
      /\ \A d \in Chats : \A i \in DOMAIN waiting[d] : waiting[d][i] \in Messages \ {m}
  BY <1>1, ArrivedType DEF Arrivals, QueueInv, Lined
<1> HIDE DEF last, end
<1>5. Arrivals'
  <2>1. \A d \in Chats : \A i \in DOMAIN arrived'[d] :
          ChatOf[arrived'[d][i]] = d /\ pc'[arrived'[d][i]] # "away"
    BY <1>1, <1>2, <1>4 DEF Arrivals
  <2>2. \A d \in Chats : \A i, j \in DOMAIN arrived'[d] : arrived'[d][i] = arrived'[d][j] => i = j
    BY <1>1, <1>2, <1>4 DEF Arrivals
  <2>3. ASSUME NEW n \in Messages, pc'[n] # "away"
        PROVE  \E i \in DOMAIN arrived'[ChatOf[n]] : arrived'[ChatOf[n]][i] = n
    <3>1. CASE n = m BY <1>2, <3>1
    <3>2. CASE n # m
      <4>1. PICK i \in DOMAIN arrived[ChatOf[n]] : arrived[ChatOf[n]][i] = n
        BY <1>1, <2>3, <3>2 DEF Arrivals
      <4>2. ChatOf[n] \in Chats BY PipelineAssumption
      <4> QED BY <1>1, <1>2, <4>1, <4>2
    <3> QED BY <3>1, <3>2
  <2> QED BY <2>1, <2>2, <2>3 DEF Arrivals
<1>6. InOrder'
  <2> SUFFICES ASSUME NEW d \in Chats, NEW k \in DOMAIN waiting'[d], NEW l \in DOMAIN waiting'[d],
                      NEW i \in DOMAIN arrived'[d], NEW j \in DOMAIN arrived'[d],
                      k < l, waiting'[d][k] = arrived'[d][i], waiting'[d][l] = arrived'[d][j]
               PROVE  i < j
    BY DEF InOrder
  <2>1. CASE d # c BY <1>1, <2>1 DEF InOrder
  <2>2. CASE d = c /\ l = end
    <3>1. k \in DOMAIN waiting[c] BY <1>3, <2>2
    <3>2. waiting'[c][k] # m BY <1>1, <1>3, <1>4, <3>1
    <3>3. i # last BY <1>2, <2>2, <3>2
    <3>4. j = last BY <1>1, <1>2, <1>3, <1>4, <2>2
    <3> QED BY <1>2, <2>2, <3>3, <3>4
  <2>3. CASE d = c /\ l # end
    <3>1. k \in DOMAIN waiting[c] /\ l \in DOMAIN waiting[c] BY <1>3, <2>3
    <3>2. i \in DOMAIN arrived[c] /\ j \in DOMAIN arrived[c]
      BY <1>1, <1>2, <1>3, <1>4, <2>3, <3>1
    <3> QED BY <1>1, <1>2, <1>3, <2>3, <3>1, <3>2 DEF InOrder
  <2> QED BY <2>1, <2>2, <2>3
<1>7. Ended'
  <2> SUFFICES ASSUME NEW d \in Chats, NEW i \in DOMAIN arrived'[d], NEW j \in DOMAIN arrived'[d],
                      i < j, pc'[arrived'[d][j]] \in Started
               PROVE  pc'[arrived'[d][i]] = "done"
    BY DEF Ended
  <2>1. CASE d # c BY <1>1, <1>4, <2>1 DEF Ended
  <2>2. CASE d = c
    <3>1. j # last BY <1>1, <1>2, <2>2 DEF Started, Busy
    <3>2. j \in DOMAIN arrived[c] /\ i \in DOMAIN arrived[c] BY <1>2, <2>2, <3>1
    <3> QED BY <1>1, <1>2, <1>4, <2>2, <3>2 DEF Ended
  <2> QED BY <2>1, <2>2
<1>8. RanStarted'
  BY <1>1 DEF RanStarted, QueueInv, TypeOK
<1> QED BY <1>5, <1>6, <1>7, <1>8

LEMMA TakeOrder ==
  ASSUME OrderInv, Concurrency = 1, NEW c \in Chats, Take(c)
  PROVE  Arrivals' /\ InOrder' /\ Ended' /\ RanStarted'
<1> USE DEF OrderInv
<1> DEFINE m == Head(waiting[c])
<1>1. /\ waiting[c] \in Seq(Messages) /\ waiting[c] # <<>>
      /\ m \in Messages /\ m = waiting[c][1] /\ pc[m] = "queued" /\ ChatOf[m] = c
      /\ pc' = [pc EXCEPT ![m] = "checking"]
      /\ waiting' = [waiting EXCEPT ![c] = Tail(@)]
      /\ UNCHANGED <<muted, arrived, ran>>
  BY TakeOf
<1>2. /\ 1 \in DOMAIN waiting[c]
      /\ \A i \in DOMAIN Tail(waiting[c]) :
           Tail(waiting[c])[i] = waiting[c][i + 1] /\ i + 1 \in DOMAIN waiting[c] /\ i \in Nat
  BY <1>1, TailOf
<1>3. /\ waiting'[c] = Tail(waiting[c])
      /\ \A d \in Chats : d # c => waiting'[d] = waiting[d]
      /\ pc'[m] = "checking" /\ \A n \in Messages : n # m => pc'[n] = pc[n]
  BY <1>1 DEF QueueInv, TypeOK
<1> HIDE DEF m
<1>4. Arrivals' BY <1>1, <1>3, ArrivedType DEF Arrivals, QueueInv
<1>5. InOrder'
  <2>1. ASSUME NEW d \in Chats, NEW k \in DOMAIN waiting'[d], NEW l \in DOMAIN waiting'[d],
               NEW i \in DOMAIN arrived[d], NEW j \in DOMAIN arrived[d],
               k < l, waiting'[d][k] = arrived[d][i], waiting'[d][l] = arrived[d][j]
        PROVE  i < j
    <3>1. CASE d # c BY <1>3, <2>1, <3>1 DEF InOrder
    <3>2. CASE d = c
      <4>1. /\ waiting[c][k + 1] = arrived[c][i] /\ waiting[c][l + 1] = arrived[c][j]
            /\ k + 1 \in DOMAIN waiting[c] /\ l + 1 \in DOMAIN waiting[c]
            /\ k \in Nat /\ l \in Nat
        BY <1>2, <1>3, <2>1, <3>2
      <4>2. k + 1 < l + 1 BY <2>1, <4>1
      <4> QED BY <3>2, <4>1, <4>2 DEF InOrder
    <3> QED BY <3>1, <3>2
  <2>2. arrived' = arrived BY <1>1
  <2> QED BY <2>1, <2>2, Zenon DEF InOrder
<1>6. \A n \in Messages : ChatOf[n] = c => pc[n] \notin Busy
  <2>1. Cardinality(Handling(c)) < 1 /\ IsFiniteSet(Handling(c))
    BY TakeServes, HandlingFinite
  <2>2. Handling(c) = {}
    BY <2>1, FS_CardinalityType, FS_EmptySet
  <2> QED BY <2>2 DEF Handling
<1>7. Ended'
  <2> SUFFICES ASSUME NEW d \in Chats, NEW i \in DOMAIN arrived[d], NEW j \in DOMAIN arrived[d],
                      i < j, pc'[arrived[d][j]] \in Started
               PROVE  pc'[arrived[d][i]] = "done"
    BY <1>1 DEF Ended
  <2>1. arrived[d][i] \in Messages /\ arrived[d][j] \in Messages /\ i \in Nat /\ j \in Nat
    BY ArrivedType DEF QueueInv
  <2>2. CASE arrived[d][j] # m
    <3>1. pc[arrived[d][i]] = "done" BY <1>3, <2>1, <2>2 DEF Ended
    <3> QED BY <1>1, <1>3, <2>1, <3>1
  <2>3. CASE arrived[d][j] = m
    <3> DEFINE n == arrived[d][i]
    <3>1. d = c /\ ChatOf[n] = c /\ pc[n] # "away" /\ n # m
      BY <1>1, <2>1, <2>3 DEF Arrivals
    <3>2. pc[n] # "queued"
      <4> SUFFICES ASSUME pc[n] = "queued" PROVE FALSE
        OBVIOUS
      <4>1. PICK l \in DOMAIN waiting[c] : waiting[c][l] = n
        BY <2>1, <3>1 DEF QueueInv, Lined
      <4>2. 1 < l
        <5>1. l # 1 BY <1>1, <3>1, <4>1
        <5>2. l \in Nat /\ l >= 1 BY <1>1, <4>1
        <5> QED BY <5>1, <5>2
      <4>3. j < i BY <1>1, <1>2, <2>3, <3>1, <4>1, <4>2 DEF InOrder
      <4> QED BY <2>1, <4>3
    <3>3. pc[n] \in Places BY <2>1 DEF QueueInv, TypeOK
    <3>4. pc[n] = "done" BY <1>6, <2>1, <3>1, <3>2, <3>3 DEF Places, Busy
    <3> QED BY <1>3, <2>1, <3>1, <3>4
  <2> QED BY <2>2, <2>3
<1>8. RanStarted'
  BY <1>1, <1>3 DEF RanStarted, QueueInv, TypeOK
<1> QED BY <1>4, <1>5, <1>7, <1>8

\* A step of a message that is being handled, or is over with it.
LEMMA HandleOrder ==
  ASSUME OrderInv, NEW m \in Messages, Handle(m)
  PROVE  Arrivals' /\ InOrder' /\ Ended' /\ RanStarted'
<1> USE DEF OrderInv
<1>1. /\ UNCHANGED <<waiting, arrived>> /\ pc[m] \in Busy
      /\ \E p \in Started : pc' = [pc EXCEPT ![m] = p]
      /\ ran' \subseteq ran \union {m}
      /\ m \in ran' => pc'[m] \in {"running", "replying", "done"}
  <2> USE DEF Busy, Started, QueueInv, TypeOK
  <2>1. CASE Refuse(m) BY <2>1 DEF Refuse, RanStarted
  <2>2. CASE Run(m) BY <2>2 DEF Run
  <2>3. CASE Returns(m) BY <2>3 DEF Returns
  <2>4. CASE End(m) BY <2>4 DEF End, Finish
  <2> QED BY <2>1, <2>2, <2>3, <2>4 DEF Handle
<1>2. /\ pc'[m] \in Started /\ \A n \in Messages : n # m => pc'[n] = pc[n]
      /\ pc[m] \in Started /\ pc[m] # "done" /\ pc'[m] # "away"
  BY <1>1 DEF QueueInv, TypeOK, Started, Busy
<1>3. Arrivals'
  <2>1. \A n \in Messages : pc'[n] # "away" <=> pc[n] # "away"
    BY <1>1, <1>2 DEF Busy
  <2>2. \A d \in Chats : \A i \in DOMAIN arrived[d] : arrived[d][i] \in Messages
    BY ArrivedType DEF QueueInv
  <2> QED BY <1>1, <2>1, <2>2 DEF Arrivals
<1>4. InOrder' BY <1>1 DEF InOrder
<1>5. Ended'
  <2> SUFFICES ASSUME NEW d \in Chats, NEW i \in DOMAIN arrived[d], NEW j \in DOMAIN arrived[d],
                      i < j, pc'[arrived[d][j]] \in Started
               PROVE  pc'[arrived[d][i]] = "done"
    BY <1>1 DEF Ended
  <2>1. arrived[d][i] \in Messages /\ arrived[d][j] \in Messages
    BY ArrivedType DEF QueueInv
  <2>2. pc[arrived[d][j]] \in Started BY <1>2, <2>1
  <2>3. pc[arrived[d][i]] = "done" BY <2>2 DEF Ended
  <2> QED BY <1>2, <2>1, <2>3
<1>6. RanStarted' BY <1>1, <1>2 DEF RanStarted, QueueInv, TypeOK
<1> QED BY <1>3, <1>4, <1>5, <1>6

LEMMA OrderStep ==
  ASSUME OrderInv, Concurrency = 1, [Next]_vars
  PROVE  OrderInv'
<1>1. CASE UNCHANGED vars
  BY <1>1 DEF vars, OrderInv, QueueInv, TypeOK, Linked, Lined, Arrivals, InOrder, Ended, RanStarted
<1>2. QueueInv' BY QueueStep DEF OrderInv
<1> QED BY <1>1, <1>2, ArriveOrder, TakeOrder, HandleOrder DEF Next, OrderInv

\* What the history of a step's messages says of the mute list.
LEMMA BindQuiet ==
  ASSUME OrderInv, Remembered, MuteBindsLaterMessages, UNCHANGED <<muted, ran, arrived>>
  PROVE  Remembered' /\ MuteBindsLaterMessages'
BY DEF Remembered, MuteBindsLaterMessages

\* An arrival is in no pair of commands that ran.
LEMMA ArriveBinds ==
  ASSUME OrderInv, Remembered, MuteBindsLaterMessages, Concurrency = 1,
         NEW m \in Messages, Arrive(m)
  PROVE  Remembered' /\ MuteBindsLaterMessages'
<1> DEFINE c == ChatOf[m]
           last == Len(arrived[c]) + 1
<1>1. /\ c \in Chats /\ pc[m] = "away" /\ UNCHANGED <<muted, ran>>
      /\ \A d \in Chats : d # c => arrived'[d] = arrived[d]
      /\ DOMAIN arrived'[c] = DOMAIN arrived[c] \union {last}
      /\ arrived'[c][last] = m
      /\ \A i \in DOMAIN arrived[c] : arrived'[c][i] = arrived[c][i] /\ i \in Nat /\ i < last
      /\ last \in Nat
  BY ArriveOf DEF OrderInv
<1>2. m \notin ran BY <1>1 DEF OrderInv, RanStarted
<1> HIDE DEF last
<1>3. Remembered'
  <2> SUFFICES ASSUME NEW d \in Chats, NEW i \in DOMAIN arrived'[d],
                      KindOf[arrived'[d][i]] = "mute", arrived'[d][i] \in ran, d \notin muted
               PROVE  \E k \in DOMAIN arrived'[d] :
                        i < k /\ KindOf[arrived'[d][k]] = "unmute" /\ arrived'[d][k] \in ran
    BY <1>1 DEF Remembered
  <2>1. i \in DOMAIN arrived[d] /\ arrived'[d][i] = arrived[d][i] BY <1>1, <1>2
  <2>2. PICK k \in DOMAIN arrived[d] :
               i < k /\ KindOf[arrived[d][k]] = "unmute" /\ arrived[d][k] \in ran
    BY <2>1 DEF Remembered
  <2> QED BY <1>1, <2>2
<1>4. MuteBindsLaterMessages'
  <2> SUFFICES ASSUME NEW d \in Chats, NEW i \in DOMAIN arrived'[d], NEW j \in DOMAIN arrived'[d],
                      i < j, KindOf[arrived'[d][i]] = "mute", SenderOf[arrived'[d][j]] = Victim,
                      arrived'[d][i] \in ran, arrived'[d][j] \in ran
               PROVE  \E k \in i .. j : KindOf[arrived'[d][k]] = "unmute" /\ arrived'[d][k] \in ran
    BY <1>1 DEF MuteBindsLaterMessages
  <2>1. /\ i \in DOMAIN arrived[d] /\ arrived'[d][i] = arrived[d][i]
        /\ j \in DOMAIN arrived[d] /\ arrived'[d][j] = arrived[d][j]
    BY <1>1, <1>2
  <2>2. PICK k \in i .. j : KindOf[arrived[d][k]] = "unmute" /\ arrived[d][k] \in ran
    BY <2>1 DEF MuteBindsLaterMessages
  <2>3. k \in DOMAIN arrived[d]
    <3>1. arrived[d] \in Seq(Messages) BY DEF OrderInv, QueueInv, TypeOK
    <3> QED BY <2>1, <2>2, <3>1
  <2> QED BY <1>1, <2>2, <2>3
<1> QED BY <1>3, <1>4

\* When a message runs, all the commands before it are over, and none after it
\* has started: what they did to the mute list is what the check finds.
LEMMA RunBinds ==
  ASSUME OrderInv, Remembered, MuteBindsLaterMessages, Concurrency = 1,
         NEW m \in Messages, Run(m)
  PROVE  Remembered' /\ MuteBindsLaterMessages'
<1> DEFINE c == ChatOf[m]
<1>1. /\ pc[m] = "checking" /\ ran' = ran \union {m} /\ arrived' = arrived
      /\ SenderOf[m] = Victim => c \notin muted
      /\ muted' = CASE KindOf[m] = "mute" -> muted \union {c}
                    [] KindOf[m] = "unmute" -> muted \ {c}
                    [] OTHER -> muted
      /\ m \notin ran
  BY DEF Run, IsMuted, OrderInv, RanStarted
<1>2. PICK p \in DOMAIN arrived[c] : arrived[c][p] = m
  BY <1>1 DEF OrderInv, Arrivals
<1>3. \A d \in Chats : \A i \in DOMAIN arrived[d] :
         /\ i \in Nat /\ arrived[d][i] \in Messages
         /\ arrived[d][i] = m => d = c /\ i = p
  BY <1>2, ArrivedType DEF OrderInv, QueueInv, Arrivals
<1>4. \A i \in DOMAIN arrived[c] : arrived[c][i] \in ran => i < p
  <2> SUFFICES ASSUME NEW i \in DOMAIN arrived[c], arrived[c][i] \in ran, i >= p PROVE FALSE
    BY <1>2, <1>3, ArrivedType DEF OrderInv, QueueInv
  <2>1. c \in Chats BY PipelineAssumption
  <2>2. i # p /\ i \in Nat /\ p \in Nat BY <1>1, <1>2, <1>3, <2>1
  <2>3. pc[arrived[c][i]] \in Started BY DEF OrderInv, RanStarted, Started, Busy
  <2>4. p < i BY <2>2
  <2>5. pc[m] = "done" BY <1>2, <2>1, <2>3, <2>4 DEF OrderInv, Ended
  <2> QED BY <1>1, <2>5
<1>5. c \in Chats BY PipelineAssumption
<1> HIDE DEF c
<1>6. Remembered'
  <2> SUFFICES ASSUME NEW d \in Chats, NEW i \in DOMAIN arrived[d],
                      KindOf[arrived[d][i]] = "mute", arrived[d][i] \in ran', d \notin muted'
               PROVE  \E k \in DOMAIN arrived[d] :
                        i < k /\ KindOf[arrived[d][k]] = "unmute" /\ arrived[d][k] \in ran'
    BY <1>1 DEF Remembered
  <2>1. CASE arrived[d][i] = m
    BY <1>1, <1>3, <2>1
  <2>2. CASE arrived[d][i] # m /\ d \notin muted
    BY <1>1, <2>2 DEF Remembered
  <2>3. CASE arrived[d][i] # m /\ d \in muted
    <3>1. d = c /\ KindOf[m] = "unmute" BY <1>1, <2>3
    <3>2. i < p BY <1>1, <1>4, <2>3, <3>1
    <3> QED BY <1>1, <1>2, <3>1, <3>2
  <2> QED BY <2>1, <2>2, <2>3
<1>7. MuteBindsLaterMessages'
  <2> SUFFICES ASSUME NEW d \in Chats, NEW i \in DOMAIN arrived[d], NEW j \in DOMAIN arrived[d],
                      i < j, KindOf[arrived[d][i]] = "mute", SenderOf[arrived[d][j]] = Victim,
                      arrived[d][i] \in ran', arrived[d][j] \in ran'
               PROVE  \E k \in i .. j : KindOf[arrived[d][k]] = "unmute" /\ arrived[d][k] \in ran'
    BY <1>1 DEF MuteBindsLaterMessages
  <2>0. i \in Nat /\ j \in Nat BY <1>3
  <2>1. CASE arrived[d][j] # m /\ arrived[d][i] # m
    BY <1>1, <2>1 DEF MuteBindsLaterMessages
  <2>2. CASE arrived[d][i] = m
    <3>1. d = c /\ i = p BY <1>3, <2>2
    <3>2. arrived[d][j] # m BY <1>3, <2>0, <3>1
    <3>3. j < p BY <1>1, <1>4, <3>1, <3>2
    <3> QED BY <2>0, <3>1, <3>3
  <2>3. CASE arrived[d][j] = m /\ arrived[d][i] # m
    <3>1. d = c /\ j = p BY <1>3, <2>3
    <3>2. d \notin muted /\ arrived[d][i] \in ran BY <1>1, <2>3, <3>1
    <3>3. PICK k \in DOMAIN arrived[d] :
                 i < k /\ KindOf[arrived[d][k]] = "unmute" /\ arrived[d][k] \in ran
      BY <3>2 DEF Remembered
    <3>4. k < p /\ k \in Nat BY <1>3, <1>4, <3>1, <3>3
    <3>5. k \in i .. j BY <2>0, <3>1, <3>3, <3>4
    <3> QED BY <1>1, <3>3, <3>5
  <2> QED BY <2>1, <2>2, <2>3
<1> QED BY <1>6, <1>7

LEMMA BindStep == ASSUME BindInv, Concurrency = 1, [Next]_vars PROVE BindInv'
<1>0. OrderInv /\ Remembered /\ MuteBindsLaterMessages BY DEF BindInv
<1>1. OrderInv' BY <1>0, OrderStep
<1>2. ASSUME UNCHANGED <<muted, ran, arrived>> PROVE Remembered' /\ MuteBindsLaterMessages'
  BY <1>0, <1>2, BindQuiet
<1>3. ASSUME NEW m \in Messages, Handle(m) PROVE Remembered' /\ MuteBindsLaterMessages'
  BY <1>0, <1>2, <1>3, RunBinds DEF Handle, Refuse, Returns, End
<1>4. ASSUME NEW c \in Chats, Take(c) PROVE Remembered' /\ MuteBindsLaterMessages'
  BY <1>2, <1>4 DEF Take
<1>5. ASSUME NEW m \in Messages, Arrive(m) PROVE Remembered' /\ MuteBindsLaterMessages'
  BY <1>0, <1>5, ArriveBinds
<1>6. ASSUME UNCHANGED vars PROVE Remembered' /\ MuteBindsLaterMessages'
  BY <1>2, <1>6 DEF vars
<1>7. Remembered' /\ MuteBindsLaterMessages'
  BY <1>3, <1>4, <1>5, <1>6 DEF Next
<1> QED BY <1>1, <1>7 DEF BindInv

\* With one handler at a time .mute binds everything that arrives after it,
\* even what was queued when it ran, for any messages, chats and users.
THEOREM MutesBind == Spec => []MuteBindsLaterMessages
<1>1. CASE Concurrency = 1
  <2>1. BindInv /\ [Next]_vars => BindInv' BY <1>1, BindStep
  <2>2. BindInv => MuteBindsLaterMessages BY DEF BindInv
  <2> QED BY BindInit, <2>1, <2>2, PTL DEF Spec
<1>2. CASE Concurrency # 1
  <2>1. MuteBindsLaterMessages BY <1>2 DEF MuteBindsLaterMessages
  <2> QED BY <2>1, PTL
<1> QED BY <1>1, <1>2

-----------------------------------------------------------------------------
(* Taking an item out of a sequence *)

LEMMA ItemOf ==
  ASSUME NEW S, NEW s \in Seq(S)
  PROVE  /\ Len(s) \in Nat /\ DOMAIN s = 1 .. Len(s) /\ \A x \in DOMAIN s : s[x] \in S
         /\ s = <<>> <=> Len(s) = 0
BY LenProperties, ElementOfSeq, EmptySeq

LEMMA LengthAfter ==
  ASSUME NEW n \in Nat, NEW i \in 1 .. n, NEW x, x = IF i + 1 <= n THEN n - (i + 1) + 1 ELSE 0
  PROVE  x = n - i
<1>1. CASE i + 1 <= n
  <2>1. x = n - (i + 1) + 1
    BY <1>1
  <2>2. n - (i + 1) + 1 = n - i
    OBVIOUS
  <2> QED
    BY <2>1, <2>2
<1>2. CASE ~(i + 1 <= n)
  BY <1>2
<1> QED
  BY <1>1, <1>2

LEMMA TakenOut ==
  ASSUME NEW S, NEW s \in Seq(S), NEW i \in 1 .. Len(s)
  PROVE  /\ RemoveAt(s, i) \in Seq(S) /\ Len(RemoveAt(s, i)) = Len(s) - 1
         /\ \A x \in 1 .. Len(s) - 1 : RemoveAt(s, i)[x] = IF x < i THEN s[x] ELSE s[x + 1]
<1> DEFINE a == SubSeq(s, 1, i - 1)
           b == SubSeq(s, i + 1, Len(s))
<1>1. Len(s) \in Nat /\ DOMAIN s = 1 .. Len(s)
  BY ItemOf
<1>2. a \in Seq(S) /\ Len(a) = i - 1 /\ \A x \in 1 .. i - 1 : a[x] = s[x]
  BY <1>1
<1>3. b \in Seq(S) /\ Len(b) = Len(s) - i /\ \A x \in 1 .. Len(s) - i : b[x] = s[x + i]
  <2>1. \A k \in i + 1 .. Len(s) : s[k] \in S
    BY <1>1, ItemOf
  <2>2. i + 1 \in Int /\ Len(s) \in Int /\ i \in Int
    BY <1>1
  <2>3. /\ b \in Seq(S)
        /\ Len(b) = IF i + 1 <= Len(s) THEN Len(s) - (i + 1) + 1 ELSE 0
        /\ \A x \in 1 .. Len(s) - (i + 1) + 1 : b[x] = s[(i + 1) + x - 1]
    BY <2>1, <2>2, SubSeqProperties
  <2> HIDE DEF b
  <2>4. Len(b) = Len(s) - i
    BY <1>1, <2>3, LengthAfter, Zenon
  <2>5. ASSUME NEW x \in 1 .. Len(s) - i PROVE b[x] = s[x + i]
    <3>1. x \in 1 .. Len(s) - (i + 1) + 1
      BY <1>1
    <3>2. (i + 1) + x - 1 = x + i
      BY <1>1
    <3> QED
      BY <2>3, <3>1, <3>2
  <2> QED
    BY <2>3, <2>4, <2>5
<1>4. RemoveAt(s, i) = a \o b
  BY DEF RemoveAt
<1> HIDE DEF a, b
<1>5. /\ a \o b \in Seq(S) /\ Len(a \o b) = Len(a) + Len(b)
      /\ \A x \in 1 .. Len(a) + Len(b) : (a \o b)[x] = IF x <= Len(a) THEN a[x] ELSE b[x - Len(a)]
  BY <1>2, <1>3, ConcatProperties
<1>6. ASSUME NEW x \in 1 .. Len(s) - 1
      PROVE  RemoveAt(s, i)[x] = IF x < i THEN s[x] ELSE s[x + 1]
  <2>1. CASE x < i
    <3>1. x \in 1 .. i - 1
      BY <1>1, <2>1
    <3> QED
      BY <1>1, <1>2, <1>3, <1>4, <1>5, <2>1, <3>1
  <2>2. CASE ~(x < i)
    <3>1. x - (i - 1) \in 1 .. Len(s) - i /\ (x - (i - 1)) + i = x + 1
      BY <1>1, <2>2
    <3>2. b[x - (i - 1)] = s[x + 1]
      BY <1>3, <3>1
    <3> QED
      BY <1>1, <1>2, <1>3, <1>4, <1>5, <2>2, <3>2
  <2> QED
    BY <2>1, <2>2
<1> QED
  BY <1>1, <1>2, <1>3, <1>4, <1>5, <1>6

\* Where an item was before the i-th was taken out.
From(i, k) == IF k < i THEN k ELSE k + 1

-----------------------------------------------------------------------------
(* The metadata and the logs of a group: the invariant.  GroupsInv speaks of *)
(* moments when nothing runs; while handlers run, what is certain and not yet *)
(* true is made true by something that is still to come: a notice, a refresh, *)
(* a row on its way.                                                          *)

\* The values of the state.
Settings == 0 .. MaxSetting
Metas == [setting : Settings, members : SUBSET Members]
PersonRows == [who : Members, action : {"add", "kick", "request"}, ts : Nat]
Notices ==
  [kind : {"setting"}, what : Settings] \union [kind : {"add", "remove", "created"}, what : Members]
    \union [kind : {"upsert"}, what : Metas]

\* A task, and what it knows where it stops.
GroupTasks ==
  [job : {"update", "members", "request", "row", "warm", "warmed"},
   at : {"read", "answer", "fetch", "save", "failed", "merged", "log", "record", "loop", "history", "adopt",
         "settings", "baseline"},
   note : Settings \union PersonRows \union {""},
   old : Metas \union {NoMeta}, meta : Metas \union {NoMeta}, alone : BOOLEAN]
TaskOK(t) ==
  /\ t.job = "update" => t.note \in Settings /\ t.at \in {"read", "answer", "fetch", "save", "failed", "merged", "log"}
  /\ t.job = "members" => t.note \in PersonRows /\ t.at \in {"record", "fetch", "save"}
  /\ t.job = "request" => t.note \in PersonRows /\ t.at = "record"
  /\ t.job \in {"row", "warmed"} => t.at = "save"
  /\ t.job = "warm" => t.at \in {"loop", "history", "adopt", "settings", "baseline"}
  /\ t.job # "update" => t.old = NoMeta
  /\ t.at \in {"save", "failed", "merged", "log"} \/ t.job = "warm" => t.meta \in Metas
  /\ t.at = "read" => t.old = NoMeta
  /\ t.at \in {"failed", "merged", "log"} => t.old \in Metas
  /\ t.at = "log" => t.old.setting # t.meta.setting

\* What runs, and what runs besides.
Tasks == {tasks[i] : i \in 1 .. Len(tasks)}
Others(i) == {tasks[j] : j \in (1 .. Len(tasks)) \ {i}}

GroupShape ==
  /\ group \in Metas /\ cached \in Metas \union {NoMeta} /\ metaRow \in Metas \union {NoMeta}
  /\ notes \in Seq(Notices) /\ second \in Nat
  /\ tasks \in Seq(GroupTasks) /\ \A t \in Tasks : TaskOK(t)
  /\ settings \in Seq((-1 .. MaxSetting) \X Settings)
  /\ \A i \in 1 .. Len(settings) : settings[i][1] # settings[i][2]
  /\ people \subseteq PersonRows
  /\ certain \in [meta : BOOLEAN, row : BOOLEAN, log : BOOLEAN, people : SUBSET Members]

\* Two tasks that do not meet, now or later.
Unmet(t, u) ==
  /\ t.job = "warm" => u.job = "warmed"
  /\ u.job = "warm" => t.job = "warmed"
  /\ t.job \in {"update", "row"} => u.job = "request"
  /\ u.job \in {"update", "row"} => t.job = "request"
  /\ t.job = "members" => u.job \in {"members", "request"}
  /\ ~(t.at = "record" /\ u.at = "record" /\ t.note.who = u.note.who)
TasksAlone ==
  \A i \in 1 .. Len(tasks) : tasks[i].alone /\ tasks[i].job # "warmed" =>
    \A u \in Others(i) : Unmet(tasks[i], u) /\ tasks[i].at # "loop"

\* What the notices that were not heard yet will tell.
SettingNoted == \E k \in 1 .. Len(notes) : notes[k].kind = "setting"
PersonNoted(p, from) ==
  \E k \in 1 .. Len(notes) : k > from /\ notes[k].kind \in {"add", "remove"} /\ notes[k].what = p
Noted(from) == \E k \in 1 .. Len(notes) : k > from /\ notes[k].kind \in {"setting", "add", "remove"}
Refreshes(t) == t.at \in {"read", "answer", "fetch"} \/ (t.job = "members" /\ t.at = "record")
RefreshToCome ==
  (\E k \in 1 .. Len(notes) : notes[k].kind # "created") \/ \E t \in Tasks : Refreshes(t)

\* A notice tells the truth about the group, or a later one does.
Agrees(action, p) ==
  /\ action = "add" => p \in group.members
  /\ action \in {"remove", "kick"} => p \notin group.members
NotesTell ==
  \A k \in 1 .. Len(notes) :
    /\ notes[k].kind = "upsert" => notes[k].what = group \/ Noted(k)
    /\ notes[k].kind \in {"add", "remove", "created"} =>
         Agrees(notes[k].kind, notes[k].what) \/ PersonNoted(notes[k].what, k)
\* So does a row of the participants log that nothing gets in the way of,
RecordsTell ==
  \A t \in Tasks : t.at = "record" /\ t.alone =>
    Agrees(t.note.action, t.note.who) \/ PersonNoted(t.note.who, 0)

\* the metadata that the warm-up holds,
WarmTells ==
  \A t \in Tasks : t.job = "warm" /\ t.alone =>
    LET meta == t.meta IN
    /\ meta.setting = group.setting \/ SettingNoted
    /\ \A p \in Members : (p \in meta.members <=> p \in group.members) \/ PersonNoted(p, 0)
    /\ t.at # "loop" =>
         /\ cached \in {NoMeta, meta}
         /\ \A u \in Tasks : u.at = "save" => u.meta = meta
         /\ certain.row => metaRow = meta \/ \E u \in Tasks : u.at = "save"

\* and those that groups.update has refreshed.
UpdateTells ==
  \A t \in Tasks : t.job = "update" /\ t.alone /\ certain.meta =>
    /\ t.at # "merged"
    /\ t.at \in {"save", "log"} =>
         /\ cached \in {NoMeta, t.meta}
         /\ t.meta.setting = group.setting \/ SettingNoted
         /\ t.at = "log" /\ certain.row => metaRow = t.meta

\* The cache and the row hold what WhatsApp has, or what will set them right is to come.
MetaKnown == certain.meta => cached \in {NoMeta, group} \/ RefreshToCome

RowKnown ==
  certain.row =>
    /\ \A t \in Tasks : t.at # "merged"
    /\ \/ RefreshToCome
       \/ /\ \A t \in Tasks : t.at = "save" => t.meta = group
          /\ metaRow = group \/ \E t \in Tasks : t.at = "save"

\* A handler that will log a change, or give the log up.
Breaker(t) ==
  t.job = "update" /\ t.old # NoMeta /\
    (t.at = "merged" \/ (t.at \in {"save", "log"} /\ t.old.setting # t.meta.setting))
\* The end of the settings log agrees with whatever the next diff() will start from.
LastSetting == settings[Len(settings)][2]
LogFits ==
  /\ cached # NoMeta => cached.setting = LastSetting
  /\ \/ group.setting = LastSetting \/ SettingNoted
     \/ \E t \in Tasks : t.job = "update" /\ t.at \in {"read", "answer", "fetch"}
  /\ \A t \in Tasks :
       t.old # NoMeta /\ (t.at = "fetch" \/ (t.at = "answer" /\ t.alone /\ certain.row)) =>
         t.old.setting = LastSetting
  /\ certain.row =>
       /\ \A t \in Tasks : t.at = "save" => t.meta.setting = LastSetting
       /\ metaRow \in Metas => metaRow.setting = LastSetting \/ \E t \in Tasks : t.at = "save"
LogKnown ==
  certain.log => settings # <<>> /\ (LogFits \/ \E t \in Tasks : Breaker(t))

\* The last row of a participant tells, or one that will is to come.
PersonTold(p) ==
  (\E r \in Latest(p) : Stays(r)) = (p \in group.members \/ \E r \in Latest(p) : r.action = "request")
PeopleKnown ==
  \A p \in certain.people :
    \/ PersonTold(p) \/ PersonNoted(p, 0)
    \/ \E t \in Tasks : t.at = "record" /\ t.note.who = p

GroupsIInv ==
  /\ GroupShape /\ TasksAlone /\ NotesTell /\ RecordsTell /\ WarmTells /\ UpdateTells
  /\ MetaKnown /\ RowKnown /\ LogKnown /\ PeopleKnown

-----------------------------------------------------------------------------
(* The metadata of a group: what the steps of tasks leave *)

LEMMA NoMetaIs == NoMeta \notin Metas /\ NoMeta.setting = -1 /\ \A m \in Metas : m.setting \in Settings /\ m.setting # -1
<1>1. NoMeta.setting = -1 /\ -1 \notin Settings
  BY DEF NoMeta, Settings
<1> QED
  BY <1>1 DEF Metas

LEMMA TaskIs ==
  ASSUME GroupShape, NEW t \in Tasks
  PROVE  /\ t \in GroupTasks /\ TaskOK(t) /\ \E i \in 1 .. Len(tasks) : t = tasks[i]
<1>1. PICK i \in 1 .. Len(tasks) : t = tasks[i]
  BY DEF Tasks
<1>2. tasks[i] \in GroupTasks
  BY ElementOfSeq DEF GroupShape
<1> QED
  BY <1>1, <1>2 DEF GroupShape

LEMMA TaskAt ==
  ASSUME GroupShape, NEW i \in 1 .. Len(tasks)
  PROVE  /\ tasks[i] \in Tasks /\ tasks[i] \in GroupTasks /\ TaskOK(tasks[i])
         /\ Tasks = Others(i) \union {tasks[i]}
<1>1. tasks[i] \in Tasks
  BY DEF Tasks
<1>2. Tasks = Others(i) \union {tasks[i]}
  BY DEF Tasks, Others
<1> QED
  BY <1>1, <1>2, TaskIs

\* Who the tasks beside the i-th are, as to it.
LEMMA AloneAround ==
  ASSUME GroupShape, TasksAlone, NEW i \in 1 .. Len(tasks), NEW u \in Others(i)
  PROVE  /\ tasks[i].alone /\ tasks[i].job # "warmed" => Unmet(tasks[i], u) /\ tasks[i].at # "loop"
         /\ u.alone /\ u.job # "warmed" => Unmet(u, tasks[i]) /\ u.at # "loop"
<1>1. PICK j \in (1 .. Len(tasks)) \ {i} : u = tasks[j]
  BY DEF Others
<1>2. tasks[i] \in Others(j)
  BY <1>1 DEF Others
<1> QED
  BY <1>1, <1>2 DEF TasksAlone

\* What a task becomes stands in the same relation to the others.
GoesOnAs(t, u) ==
  /\ u.job = t.job /\ u.note = t.note /\ (u.alone => t.alone)
  /\ u.at \notin {"record", "loop"}

LEMMA UnmetStays ==
  ASSUME NEW t, NEW u, NEW w, GoesOnAs(t, u)
  PROVE  (Unmet(t, w) => Unmet(u, w)) /\ (Unmet(w, t) => Unmet(w, u))
BY DEF GoesOnAs, Unmet

\* The i-th task becomes t.
LEMMA BecomeTakes ==
  ASSUME GroupShape, TasksAlone, NEW i \in 1 .. Len(tasks), NEW t \in GroupTasks, Become(i, t), GoesOnAs(tasks[i], t)
  PROVE  tasks' \in Seq(GroupTasks) /\ Tasks' = Others(i) \union {t} /\ TasksAlone'
<1>1. /\ tasks' \in Seq(GroupTasks) /\ Len(tasks') = Len(tasks)
      /\ \A j \in 1 .. Len(tasks) : tasks'[j] = IF j = i THEN t ELSE tasks[j]
  BY ExceptSeq DEF GroupShape, Become
<1>2. Tasks' = Others(i) \union {t}
  BY <1>1 DEF Tasks, Others
<1>3. ASSUME NEW j \in 1 .. Len(tasks), NEW u \in Others(j)', tasks'[j].alone, tasks'[j].job # "warmed"
      PROVE  Unmet(tasks'[j], u) /\ tasks'[j].at # "loop"
  <2>1. PICK k \in (1 .. Len(tasks)) \ {j} : u = tasks'[k]
    BY <1>1 DEF Others
  <2>2. tasks[k] \in Others(j) /\ tasks[j] \in Others(k)
    BY <2>1 DEF Others
  <2>3. CASE j = i
    <3>1. tasks[i].alone /\ tasks[i].job # "warmed" /\ u = tasks[k] /\ tasks'[j] = t
      BY <1>1, <1>3, <2>1, <2>3 DEF GoesOnAs
    <3>2. Unmet(tasks[i], u)
      BY <2>2, <2>3, <3>1 DEF TasksAlone
    <3> QED
      BY <3>1, <3>2, UnmetStays DEF GoesOnAs
  <2>4. CASE j # i /\ k = i
    <3>1. tasks'[j] = tasks[j] /\ u = t
      BY <1>1, <2>1, <2>4
    <3>2. Unmet(tasks[j], tasks[i]) /\ tasks[j].at # "loop"
      BY <1>3, <2>2, <2>4, <3>1 DEF TasksAlone
    <3> QED
      BY <3>1, <3>2, UnmetStays
  <2>5. CASE j # i /\ k # i
    <3>1. tasks'[j] = tasks[j] /\ u = tasks[k]
      BY <1>1, <2>1, <2>5
    <3> QED
      BY <1>3, <2>2, <3>1 DEF TasksAlone
  <2> QED
    BY <2>3, <2>4, <2>5
<1> QED
  BY <1>1, <1>2, <1>3 DEF TasksAlone

\* The i-th task ends.
LEMMA EndTakes ==
  ASSUME GroupShape, TasksAlone, NEW i \in 1 .. Len(tasks), Ends(i)
  PROVE  /\ tasks' \in Seq(GroupTasks) /\ Tasks' = Others(i) /\ TasksAlone'
         /\ Len(tasks') = Len(tasks) - 1 /\ \A j \in 1 .. Len(tasks') : tasks'[j] = tasks[From(i, j)]
<1>1. Len(tasks) \in Nat
  BY LenProperties DEF GroupShape
<1>2. /\ tasks' \in Seq(GroupTasks) /\ Len(tasks') = Len(tasks) - 1
      /\ \A j \in 1 .. Len(tasks) - 1 : tasks'[j] = IF j < i THEN tasks[j] ELSE tasks[j + 1]
  BY TakenOut DEF GroupShape, Ends
<1>3. \A j \in 1 .. Len(tasks') : From(i, j) \in (1 .. Len(tasks)) \ {i} /\ tasks'[j] = tasks[From(i, j)]
  BY <1>1, <1>2 DEF From
<1>4. \A j, k \in 1 .. Len(tasks') : j # k => From(i, j) # From(i, k)
  BY <1>1, <1>2 DEF From
<1>5. ASSUME NEW j \in (1 .. Len(tasks)) \ {i} PROVE \E k \in 1 .. Len(tasks') : tasks'[k] = tasks[j]
  <2> DEFINE k == IF j < i THEN j ELSE j - 1
  <2>1. k \in 1 .. Len(tasks') /\ From(i, k) = j
    BY <1>1, <1>2 DEF From
  <2> QED
    BY <1>3, <2>1
<1>6. Tasks' = Others(i)
  <2>1. Tasks' \subseteq Others(i)
    BY <1>3 DEF Tasks, Others
  <2>2. Others(i) \subseteq Tasks'
    BY <1>5 DEF Tasks, Others
  <2> QED
    BY <2>1, <2>2
<1>7. ASSUME NEW j \in 1 .. Len(tasks'), NEW u \in Others(j)', tasks'[j].alone, tasks'[j].job # "warmed"
      PROVE  Unmet(tasks'[j], u) /\ tasks'[j].at # "loop"
  <2>1. PICK k \in (1 .. Len(tasks')) \ {j} : u = tasks'[k]
    BY DEF Others
  <2>2. tasks[From(i, k)] \in Others(From(i, j))
    BY <1>3, <1>4, <2>1 DEF Others
  <2>3. tasks'[j] = tasks[From(i, j)] /\ u = tasks[From(i, k)] /\ From(i, j) \in 1 .. Len(tasks)
    BY <1>3, <2>1
  <2> QED
    BY <1>7, <2>2, <2>3 DEF TasksAlone
<1> QED
  BY <1>2, <1>3, <1>6, <1>7 DEF TasksAlone

\* A task that runs beside one that starts.
Beside(u, t) == [u EXCEPT !.alone = @ /\ ~Meets(u, t)]
AsStarted(t) == [t EXCEPT !.alone = \A u \in Tasks : ~Meets(u, t)]

LEMMA MeetsNot ==
  ASSUME NEW t \in GroupTasks, NEW u \in GroupTasks, ~Meets(u, t), TaskOK(t), TaskOK(u)
  PROVE  Unmet(t, u) /\ Unmet(u, t) /\ t.job # "warm"
BY DEF Meets, Unmet, GroupTasks, TaskOK

LEMMA StartTakes ==
  ASSUME GroupShape, TasksAlone, NEW t \in GroupTasks, TaskOK(t), t.job # "warmed", Start(t)
  PROVE  /\ tasks' \in Seq(GroupTasks) /\ TasksAlone'
         /\ Tasks' = {Beside(u, t) : u \in Tasks} \union {AsStarted(t)}
<1> DEFINE n == Len(tasks)
           new == [t EXCEPT !.alone = \A j \in 1 .. Len(tasks) : ~Meets(tasks[j], t)]
           old == [j \in 1 .. Len(tasks) |-> [tasks[j] EXCEPT !.alone = @ /\ ~Meets(tasks[j], t)]]
<1>1. n \in Nat /\ \A j \in 1 .. n : tasks[j] \in GroupTasks /\ TaskOK(tasks[j]) /\ tasks[j] \in Tasks
  BY LenProperties, TaskAt DEF GroupShape
<1>2. new = AsStarted(t)
  BY DEF AsStarted, Tasks
<1>3. new \in GroupTasks /\ new.job = t.job /\ new.at = t.at /\ new.note = t.note
  BY DEF GroupTasks
<1>4. \A j \in 1 .. n : old[j] = Beside(tasks[j], t) /\ old[j] \in GroupTasks
  BY <1>1 DEF Beside, GroupTasks
<1>5. old \in Seq(GroupTasks) /\ Len(old) = n
  BY <1>1, <1>4
<1>6. tasks' = Append(old, new)
  BY DEF Start
<1> HIDE DEF old, new
<1>7. /\ tasks' \in Seq(GroupTasks) /\ Len(tasks') = n + 1
      /\ \A j \in 1 .. n : tasks'[j] = Beside(tasks[j], t)
      /\ tasks'[n + 1] = AsStarted(t)
  BY <1>2, <1>3, <1>4, <1>5, <1>6, AppendProperties
<1>8. Tasks' = {Beside(u, t) : u \in Tasks} \union {AsStarted(t)}
  <2>1. ASSUME NEW j \in 1 .. Len(tasks')
        PROVE  tasks'[j] \in {Beside(u, t) : u \in Tasks} \union {AsStarted(t)}
    <3>1. CASE j = n + 1
      BY <1>7, <3>1
    <3>2. CASE j # n + 1
      BY <1>1, <1>7, <3>2
    <3> QED
      BY <3>1, <3>2
  <2>2. ASSUME NEW u \in Tasks PROVE Beside(u, t) \in Tasks'
    <3>1. PICK j \in 1 .. n : u = tasks[j]
      BY DEF Tasks
    <3>2. j \in 1 .. Len(tasks') /\ tasks'[j] = Beside(u, t)
      BY <1>1, <1>7, <3>1
    <3> QED
      BY <3>2 DEF Tasks
  <2>3. AsStarted(t) \in Tasks'
    <3>1. n + 1 \in 1 .. Len(tasks')
      BY <1>1, <1>7
    <3> QED
      BY <1>7, <3>1 DEF Tasks
  <2> QED
    BY <2>1, <2>2, <2>3 DEF Tasks
<1>9. ASSUME NEW j \in 1 .. Len(tasks'), NEW u \in Others(j)', tasks'[j].alone, tasks'[j].job # "warmed"
      PROVE  Unmet(tasks'[j], u) /\ tasks'[j].at # "loop"
  <2>1. PICK k \in (1 .. Len(tasks')) \ {j} : u = tasks'[k]
    BY DEF Others
  <2>2. ASSUME NEW x \in 1 .. n
        PROVE  /\ tasks'[x].job = tasks[x].job /\ tasks'[x].at = tasks[x].at /\ tasks'[x].note = tasks[x].note
               /\ tasks'[x].alone => tasks[x].alone /\ ~Meets(tasks[x], t)
    <3>1. tasks'[x] = [tasks[x] EXCEPT !.alone = @ /\ ~Meets(tasks[x], t)] /\ tasks[x] \in GroupTasks
      BY <1>1, <1>7, <2>2 DEF Beside
    <3> QED
      BY <3>1 DEF GroupTasks
  <2>3. /\ tasks'[n + 1].job = t.job /\ tasks'[n + 1].at = t.at /\ tasks'[n + 1].note = t.note
        /\ tasks'[n + 1].alone => \A x \in 1 .. n : ~Meets(tasks[x], t)
    <3>1. AsStarted(t).alone => \A x \in 1 .. n : ~Meets(tasks[x], t)
      BY <1>1 DEF AsStarted, GroupTasks
    <3> QED
      BY <1>2, <1>3, <1>7, <3>1
  <2>4. CASE j = n + 1
    <3>1. k \in 1 .. n
      BY <1>1, <1>7, <2>1, <2>4
    <3>2. ~Meets(tasks[k], t)
      BY <1>9, <2>3, <2>4, <3>1
    <3>3. Unmet(t, tasks[k]) /\ t.job # "warm"
      BY <1>1, <3>1, <3>2, MeetsNot
    <3>4. Unmet(tasks'[j], u)
      BY <2>1, <2>2, <2>3, <2>4, <3>1, <3>3 DEF Unmet
    <3>5. t.at # "loop"
      BY <3>3 DEF TaskOK, GroupTasks
    <3> QED
      BY <2>3, <2>4, <3>4, <3>5
  <2>5. CASE j # n + 1
    <3>1. j \in 1 .. n /\ tasks[j].alone /\ ~Meets(tasks[j], t) /\ tasks[j].job # "warmed"
      BY <1>1, <1>7, <1>9, <2>2, <2>5
    <3>2. CASE k = n + 1
      <4>1. Unmet(tasks[j], t) /\ tasks[j].job # "warm"
        <5>1. Unmet(tasks[j], t)
          BY <1>1, <3>1, MeetsNot
        <5>2. tasks[j].job # "warm"
          BY <3>1 DEF Meets
        <5> QED
          BY <5>1, <5>2
      <4>2. Unmet(tasks'[j], u)
        BY <2>1, <2>2, <2>3, <3>1, <3>2, <4>1 DEF Unmet
      <4>3. tasks[j].at # "loop"
        BY <1>1, <3>1, <4>1 DEF TaskOK, GroupTasks
      <4> QED
        BY <2>2, <3>1, <4>2, <4>3
    <3>3. CASE k # n + 1
      <4>1. k \in 1 .. n /\ tasks[k] \in Others(j)
        BY <1>1, <1>7, <2>1, <3>1, <3>3 DEF Others
      <4>2. Unmet(tasks[j], tasks[k]) /\ tasks[j].at # "loop"
        BY <3>1, <4>1 DEF TasksAlone
      <4>3. Unmet(tasks'[j], u)
        BY <2>1, <2>2, <3>1, <4>1, <4>2 DEF Unmet
      <4> QED
        BY <2>2, <3>1, <4>2, <4>3
    <3> QED
      BY <3>2, <3>3
  <2> QED
    BY <2>4, <2>5
<1> QED
  BY <1>7, <1>8, <1>9 DEF TasksAlone

-----------------------------------------------------------------------------
(* WhatsApp changes the group *)

LEMMA NoteAdded ==
  ASSUME GroupShape, NEW kind, NEW what, [kind |-> kind, what |-> what] \in Notices, Note(kind, what)
  PROVE  /\ notes' \in Seq(Notices) /\ Len(notes) \in Nat /\ Len(notes') = Len(notes) + 1
         /\ \A k \in 1 .. Len(notes) : notes'[k] = notes[k]
         /\ notes'[Len(notes) + 1].kind = kind /\ notes'[Len(notes) + 1].what = what
<1>1. Len(notes) \in Nat
  BY LenProperties DEF GroupShape
<1>2. notes' = Append(notes, [kind |-> kind, what |-> what])
  BY DEF Note
<1> QED
  BY <1>1, <1>2, AppendProperties DEF GroupShape

LEMMA NotedStays ==
  ASSUME GroupShape, NEW kind, NEW what, [kind |-> kind, what |-> what] \in Notices, Note(kind, what)
  PROVE  /\ SettingNoted => SettingNoted'
         /\ kind = "setting" => SettingNoted'
         /\ kind # "created" \/ (\E k \in 1 .. Len(notes) : notes[k].kind # "created") =>
              \E k \in 1 .. Len(notes') : notes'[k].kind # "created"
<1>1. /\ Len(notes) \in Nat /\ Len(notes') = Len(notes) + 1
      /\ \A k \in 1 .. Len(notes) : notes'[k] = notes[k]
      /\ notes'[Len(notes) + 1].kind = kind /\ notes'[Len(notes) + 1].what = what
  BY NoteAdded
<1> QED
  BY <1>1 DEF SettingNoted

LEMMA PersonStays ==
  ASSUME GroupShape, NEW kind, NEW what, [kind |-> kind, what |-> what] \in Notices, Note(kind, what),
         NEW n \in 0 .. Len(notes), NEW p
  PROVE  /\ PersonNoted(p, n) => PersonNoted(p, n)'
         /\ kind \in {"add", "remove"} /\ what = p => PersonNoted(p, n)'
         /\ Noted(n) => Noted(n)'
         /\ kind \in {"setting", "add", "remove"} => Noted(n)'
<1>1. /\ Len(notes) \in Nat /\ Len(notes') = Len(notes) + 1
      /\ \A k \in 1 .. Len(notes) : notes'[k] = notes[k]
      /\ notes'[Len(notes) + 1].kind = kind /\ notes'[Len(notes) + 1].what = what
  BY NoteAdded
<1> QED
  BY <1>1 DEF PersonNoted, Noted

LEMMA SameMeta == ASSUME NEW a \in Metas, NEW b \in Metas, a.setting = b.setting,
                         \A p \in Members : p \in a.members <=> p \in b.members
                  PROVE  a = b
BY DEF Metas

LEMMA ChangeKeeps ==
  ASSUME GroupsIInv, NEW now \in Metas, NEW kind, NEW what, [kind |-> kind, what |-> what] \in Notices,
         Change(now, kind, what),
         now.setting # group.setting => kind = "setting",
         \A p \in Members : (p \in now.members) # (p \in group.members) => kind \in {"add", "remove"} /\ what = p,
         kind = "add" => what \in now.members, kind = "remove" => what \notin now.members,
         kind = "upsert" => what = now
  PROVE  GroupsIInv'
<1>1. /\ GroupShape /\ TasksAlone /\ NotesTell /\ RecordsTell /\ WarmTells /\ UpdateTells
      /\ MetaKnown /\ RowKnown /\ LogKnown /\ PeopleKnown
  BY DEF GroupsIInv
<1>2. /\ Note(kind, what) /\ group' = now
      /\ UNCHANGED <<cached, metaRow, settings, people, second, tasks, certain>>
  BY DEF Change
<1>3. Tasks' = Tasks /\ \A i : Others(i)' = Others(i)
  BY <1>2 DEF Tasks, Others
<1>4. /\ notes' \in Seq(Notices) /\ Len(notes) \in Nat /\ Len(notes') = Len(notes) + 1
      /\ \A k \in 1 .. Len(notes) : notes'[k] = notes[k]
      /\ notes'[Len(notes) + 1].kind = kind /\ notes'[Len(notes) + 1].what = what
  BY <1>1, <1>2, NoteAdded
<1>5. /\ SettingNoted => SettingNoted'
      /\ kind = "setting" => SettingNoted'
      /\ kind # "created" \/ (\E k \in 1 .. Len(notes) : notes[k].kind # "created") =>
           \E k \in 1 .. Len(notes') : notes'[k].kind # "created"
  BY <1>1, <1>2, NotedStays
<1>6. ASSUME NEW n \in 0 .. Len(notes)
      PROVE  /\ Noted(n) => Noted(n)'
             /\ kind \in {"setting", "add", "remove"} => Noted(n)'
             /\ \A p : /\ PersonNoted(p, n) => PersonNoted(p, n)'
                       /\ kind \in {"add", "remove"} /\ what = p => PersonNoted(p, n)'
  BY <1>1, <1>2, PersonStays
<1>7. group \in Metas
  BY <1>1 DEF GroupShape
<1>8. now = group \/ kind \in {"setting", "add", "remove"}
  BY <1>7, SameMeta
<1>9. GroupShape'
  BY <1>1, <1>2, <1>3, <1>4 DEF GroupShape
<1>10. TasksAlone'
  BY <1>1, <1>2, <1>3 DEF TasksAlone
<1>11. \A p \in Members : \/ p \in group'.members <=> p \in group.members
                          \/ \A n \in 0 .. Len(notes) : PersonNoted(p, n)'
  BY <1>2, <1>6
<1>12. ASSUME NEW p \in Members, NEW action, NEW n \in 0 .. Len(notes), Agrees(action, p) \/ PersonNoted(p, n)
       PROVE  Agrees(action, p)' \/ PersonNoted(p, n)'
  <2>1. CASE PersonNoted(p, n)'
    BY <2>1
  <2>2. CASE ~PersonNoted(p, n)'
    <3>1. (p \in group'.members <=> p \in group.members) /\ Agrees(action, p)
      BY <1>6, <1>11, <1>12, <2>2
    <3> QED
      BY <3>1 DEF Agrees
  <2> QED
    BY <2>1, <2>2
<1>13. NotesTell'
  <2> SUFFICES ASSUME NEW k \in 1 .. Len(notes'), NEW n, n = notes'[k]
               PROVE  /\ n.kind = "upsert" => n.what = group' \/ Noted(k)'
                      /\ n.kind \in {"add", "remove", "created"} => Agrees(n.kind, n.what)' \/ PersonNoted(n.what, k)'
    BY DEF NotesTell, Agrees, PersonNoted
  <2>1. CASE k \in 1 .. Len(notes)
    <3>1. n = notes[k] /\ k \in 0 .. Len(notes) /\ n \in Notices
      BY <1>1, <1>4, <2>1, ElementOfSeq DEF GroupShape
    <3>2. n.kind = "upsert" => n.what = group' \/ Noted(k)'
      <4>1. n.kind = "upsert" => n.what = group \/ Noted(k)
        BY <1>1, <2>1, <3>1 DEF NotesTell
      <4> QED
        BY <1>2, <1>6, <1>8, <3>1, <4>1
    <3>3. ASSUME n.kind \in {"add", "remove", "created"}
          PROVE  Agrees(n.kind, n.what)' \/ PersonNoted(n.what, k)'
      <4>1. n.what \in Members
        BY <3>1, <3>3 DEF Notices
      <4>2. Agrees(n.kind, n.what) \/ PersonNoted(n.what, k)
        BY <1>1, <2>1, <3>1, <3>3 DEF NotesTell
      <4> QED
        BY <1>12, <3>1, <4>1, <4>2
    <3> QED
      BY <3>2, <3>3
  <2>2. CASE k = Len(notes) + 1
    <3>1. n.kind = kind /\ n.what = what
      BY <1>4, <2>2
    <3> QED
      BY <1>2, <3>1 DEF Agrees
  <2> QED
    BY <1>4, <2>1, <2>2
<1>14. RecordsTell'
  <2> SUFFICES ASSUME NEW t \in Tasks, t.at = "record", t.alone
               PROVE  (Agrees(t.note.action, t.note.who) \/ PersonNoted(t.note.who, 0))'
    BY <1>3 DEF RecordsTell, Agrees, PersonNoted
  <2>1. PICK p, action : p = t.note.who /\ action = t.note.action
    OBVIOUS
  <2>2. p \in Members
    <3>1. t.note \in PersonRows
      BY <1>1, TaskIs DEF TaskOK, GroupTasks
    <3> QED
      BY <2>1, <3>1 DEF PersonRows
  <2>3. Agrees(action, p) \/ PersonNoted(p, 0)
    BY <1>1, <2>1 DEF RecordsTell
  <2>4. Agrees(action, p)' \/ PersonNoted(p, 0)'
    BY <1>4, <1>12, <2>2, <2>3
  <2> QED
    BY <2>1, <2>4 DEF Agrees, PersonNoted
<1>15. WarmTells'
  <2> SUFFICES ASSUME NEW t \in Tasks, t.job = "warm", t.alone
               PROVE  /\ t.meta.setting = group'.setting \/ SettingNoted'
                      /\ \A p \in Members : (p \in t.meta.members <=> p \in group'.members) \/ PersonNoted(p, 0)'
                      /\ t.at # "loop" =>
                           /\ cached' \in {NoMeta, t.meta}
                           /\ \A u \in Tasks : u.at = "save" => u.meta = t.meta
                           /\ certain'.row => metaRow' = t.meta \/ \E u \in Tasks : u.at = "save"
    BY <1>3 DEF WarmTells, PersonNoted
  <2>1. /\ t.meta.setting = group.setting \/ SettingNoted
        /\ \A p \in Members : (p \in t.meta.members <=> p \in group.members) \/ PersonNoted(p, 0)
        /\ t.at # "loop" =>
             /\ cached \in {NoMeta, t.meta}
             /\ \A u \in Tasks : u.at = "save" => u.meta = t.meta
             /\ certain.row => metaRow = t.meta \/ \E u \in Tasks : u.at = "save"
    BY <1>1 DEF WarmTells
  <2>2. t.meta.setting = group'.setting \/ SettingNoted'
    BY <1>2, <1>5, <2>1
  <2>3. ASSUME NEW p \in Members PROVE (p \in t.meta.members <=> p \in group'.members) \/ PersonNoted(p, 0)'
    BY <1>4, <1>6, <1>11, <2>1
  <2> QED
    BY <1>2, <2>1, <2>2, <2>3
<1>16. UpdateTells'
  BY <1>1, <1>2, <1>3, <1>5 DEF UpdateTells
<1>17. MetaKnown'
  BY <1>1, <1>2, <1>3, <1>5, <1>8 DEF MetaKnown, RefreshToCome
<1>18. RowKnown'
  BY <1>1, <1>2, <1>3, <1>5, <1>8 DEF RowKnown, RefreshToCome
<1>19. LogKnown'
  BY <1>1, <1>2, <1>3, <1>5 DEF LogKnown, LogFits, LastSetting
<1>20. PeopleKnown'
  <2> SUFFICES ASSUME NEW p \in certain.people
               PROVE  \/ PersonTold(p)' \/ PersonNoted(p, 0)'
                      \/ \E t \in Tasks : t.at = "record" /\ t.note.who = p
    BY <1>2, <1>3 DEF PeopleKnown
  <2>1. \/ PersonTold(p) \/ PersonNoted(p, 0)
        \/ \E t \in Tasks : t.at = "record" /\ t.note.who = p
    BY <1>1 DEF PeopleKnown
  <2>2. p \in Members /\ 0 \in 0 .. Len(notes)
    BY <1>1, <1>4 DEF GroupShape
  <2>3. CASE PersonNoted(p, 0)'
    BY <2>3
  <2>4. CASE ~PersonNoted(p, 0)'
    <3>1. p \in group'.members <=> p \in group.members
      BY <1>11, <2>2, <2>4
    <3>2. PersonTold(p) => PersonTold(p)'
      BY <1>2, <3>1 DEF PersonTold, Latest
    <3> QED
      BY <1>6, <2>1, <2>2, <2>4, <3>2
  <2> QED
    BY <2>3, <2>4
<1> QED
  BY <1>9, <1>10, <1>13, <1>14, <1>15, <1>16, <1>17, <1>18, <1>19, <1>20 DEF GroupsIInv

LEMMA ChangesKeep ==
  ASSUME GroupsIInv,
         \/ \E v \in 0 .. MaxSetting : SettingChanges(v)
         \/ \E p \in Members : Joins(p) \/ Leaves(p) \/ AsksToJoin(p)
         \/ Upserted
  PROVE  GroupsIInv'
<1>1. group \in Metas
  BY DEF GroupsIInv, GroupShape
<1>2. ASSUME NEW v \in 0 .. MaxSetting, SettingChanges(v) PROVE GroupsIInv'
  <2> DEFINE now == [group EXCEPT !.setting = v]
  <2>1. now \in Metas /\ now.members = group.members
    BY <1>1 DEF Metas, Settings
  <2>2. [kind |-> "setting", what |-> v] \in Notices
    BY DEF Notices, Settings
  <2>3. Change(now, "setting", v)
    BY <1>2 DEF SettingChanges
  <2> HIDE DEF now
  <2> QED
    BY <2>1, <2>2, <2>3, ChangeKeeps
<1>3. ASSUME NEW p \in Members, Joins(p) PROVE GroupsIInv'
  <2> DEFINE now == [group EXCEPT !.members = @ \union {p}]
  <2>1. now \in Metas /\ now.setting = group.setting /\ now.members = group.members \union {p}
    BY <1>1 DEF Metas
  <2>2. [kind |-> "add", what |-> p] \in Notices
    BY DEF Notices
  <2>3. Change(now, "add", p)
    BY <1>3 DEF Joins
  <2> HIDE DEF now
  <2> QED
    BY <2>1, <2>2, <2>3, ChangeKeeps
<1>4. ASSUME NEW p \in Members, Leaves(p) PROVE GroupsIInv'
  <2> DEFINE now == [group EXCEPT !.members = @ \ {p}]
  <2>1. now \in Metas /\ now.setting = group.setting /\ now.members = group.members \ {p}
    BY <1>1 DEF Metas
  <2>2. [kind |-> "remove", what |-> p] \in Notices
    BY DEF Notices
  <2>3. Change(now, "remove", p)
    BY <1>4 DEF Leaves
  <2> HIDE DEF now
  <2> QED
    BY <2>1, <2>2, <2>3, ChangeKeeps
<1>5. ASSUME NEW p \in Members, AsksToJoin(p) PROVE GroupsIInv'
  <2>1. [kind |-> "created", what |-> p] \in Notices
    BY DEF Notices
  <2>2. Change(group, "created", p)
    BY <1>5 DEF AsksToJoin
  <2> QED
    BY <1>1, <2>1, <2>2, ChangeKeeps
<1>6. ASSUME Upserted PROVE GroupsIInv'
  <2>1. [kind |-> "upsert", what |-> group] \in Notices
    BY <1>1 DEF Notices
  <2>2. Change(group, "upsert", group)
    BY <1>6 DEF Upserted
  <2> QED
    BY <1>1, <2>1, <2>2, ChangeKeeps
<1> QED
  BY <1>2, <1>3, <1>4, <1>5, <1>6

-----------------------------------------------------------------------------
(* A handler starts *)

LEMMA BesideIs ==
  ASSUME NEW u \in GroupTasks, NEW t, TaskOK(u)
  PROVE  LET b == Beside(u, t) IN
         /\ b \in GroupTasks /\ TaskOK(b)
         /\ b.job = u.job /\ b.at = u.at /\ b.note = u.note /\ b.old = u.old /\ b.meta = u.meta
         /\ b.alone => u.alone /\ ~Meets(u, t)
<1> DEFINE b == Beside(u, t)
<1>1. /\ b \in GroupTasks
      /\ b.job = u.job /\ b.at = u.at /\ b.note = u.note /\ b.old = u.old /\ b.meta = u.meta
      /\ b.alone => u.alone /\ ~Meets(u, t)
  BY DEF Beside, GroupTasks
<1> HIDE DEF b
<1>2. TaskOK(b)
  BY <1>1 DEF TaskOK
<1> QED
  BY <1>1, <1>2 DEF b

LEMMA StartedIs ==
  ASSUME NEW t \in GroupTasks, TaskOK(t)
  PROVE  LET b == AsStarted(t) IN
         /\ b \in GroupTasks /\ TaskOK(b)
         /\ b.job = t.job /\ b.at = t.at /\ b.note = t.note /\ b.old = t.old /\ b.meta = t.meta
         /\ b.alone => \A u \in Tasks : ~Meets(u, t)
<1> DEFINE b == AsStarted(t)
<1>1. /\ b \in GroupTasks
      /\ b.job = t.job /\ b.at = t.at /\ b.note = t.note /\ b.old = t.old /\ b.meta = t.meta
      /\ b.alone => \A u \in Tasks : ~Meets(u, t)
  BY DEF AsStarted, GroupTasks
<1> HIDE DEF b
<1>2. TaskOK(b)
  BY <1>1 DEF TaskOK
<1> QED
  BY <1>1, <1>2 DEF b

\* A task of a state that t has started in is one of before or t.
StartedOrBeside(b, t) ==
  \/ /\ b.job = t.job /\ b.at = t.at /\ b.note = t.note /\ b.old = t.old /\ b.meta = t.meta
     /\ b.alone => \A u \in Tasks : ~Meets(u, t)
  \/ \E u \in Tasks :
       /\ b.job = u.job /\ b.at = u.at /\ b.note = u.note /\ b.old = u.old /\ b.meta = u.meta
       /\ b.alone => u.alone /\ ~Meets(u, t)
SameTask(b, u) == b.job = u.job /\ b.at = u.at /\ b.note = u.note /\ b.old = u.old /\ b.meta = u.meta

LEMMA StartOf ==
  ASSUME GroupShape, TasksAlone, NEW t \in GroupTasks, TaskOK(t), t.job # "warmed", Start(t)
  PROVE  /\ tasks' \in Seq(GroupTasks) /\ TasksAlone'
         /\ \A b \in Tasks' : b \in GroupTasks /\ TaskOK(b) /\ StartedOrBeside(b, t)
         /\ \A u \in Tasks : \E b \in Tasks' : SameTask(b, u)
         /\ \E b \in Tasks' : SameTask(b, t)
<1>1. /\ tasks' \in Seq(GroupTasks) /\ TasksAlone'
      /\ Tasks' = {Beside(u, t) : u \in Tasks} \union {AsStarted(t)}
  BY StartTakes
<1>2. ASSUME NEW b \in Tasks' PROVE b \in GroupTasks /\ TaskOK(b) /\ StartedOrBeside(b, t)
  <2>1. CASE b = AsStarted(t)
    BY <2>1, StartedIs DEF StartedOrBeside
  <2>2. ASSUME NEW u \in Tasks, b = Beside(u, t) PROVE b \in GroupTasks /\ TaskOK(b) /\ StartedOrBeside(b, t)
    <3>1. u \in GroupTasks /\ TaskOK(u)
      BY TaskIs
    <3> QED
      BY <2>2, <3>1, BesideIs DEF StartedOrBeside
  <2> QED
    BY <1>1, <2>1, <2>2
<1>3. ASSUME NEW u \in Tasks PROVE \E b \in Tasks' : SameTask(b, u)
  <2>1. u \in GroupTasks /\ TaskOK(u)
    BY TaskIs
  <2>2. SameTask(Beside(u, t), u)
    BY <2>1, BesideIs DEF SameTask
  <2> QED
    BY <1>1, <2>2
<1>4. \E b \in Tasks' : SameTask(b, t)
  <2>1. SameTask(AsStarted(t), t)
    BY StartedIs DEF SameTask
  <2> QED
    BY <1>1, <2>1
<1> QED
  BY <1>1, <1>2, <1>3, <1>4

LEMMA NoteHeard ==
  ASSUME GroupShape, notes # <<>>, notes' = Tail(notes)
  PROVE  /\ notes' \in Seq(Notices) /\ Len(notes) \in Nat \ {0} /\ Len(notes') = Len(notes) - 1
         /\ \A k \in 1 .. Len(notes') : notes'[k] = notes[k + 1]
         /\ Head(notes) = notes[1] /\ notes[1] \in Notices
         /\ SettingNoted /\ notes[1].kind # "setting" => SettingNoted'
         /\ (\E k \in 1 .. Len(notes) : notes[k].kind # "created") /\ notes[1].kind = "created" =>
              \E k \in 1 .. Len(notes') : notes'[k].kind # "created"
<1>1. /\ notes' \in Seq(Notices) /\ Len(notes') = Len(notes) - 1
      /\ \A k \in 1 .. Len(notes') : notes'[k] = notes[k + 1]
  BY HeadTailProperties DEF GroupShape
<1>2. Len(notes) \in Nat \ {0}
  BY EmptySeq DEF GroupShape
<1>3. Head(notes) = notes[1] /\ notes[1] \in Notices
  BY <1>2, ElementOfSeq DEF GroupShape
<1>4. ASSUME NEW k \in 1 .. Len(notes), k # 1 PROVE k - 1 \in 1 .. Len(notes') /\ notes'[k - 1] = notes[k]
  <2>1. k - 1 \in 1 .. Len(notes') /\ (k - 1) + 1 = k
    BY <1>1, <1>2, <1>4
  <2> QED
    BY <1>1, <2>1
<1> QED
  BY <1>1, <1>2, <1>3, <1>4 DEF SettingNoted

LEMMA PersonHeard ==
  ASSUME GroupShape, notes # <<>>, notes' = Tail(notes), NEW n \in 0 .. Len(notes'), NEW p
  PROVE  /\ PersonNoted(p, n + 1) => PersonNoted(p, n)'
         /\ Noted(n + 1) => Noted(n)'
         /\ PersonNoted(p, 0) => PersonNoted(p, 0)' \/ (notes[1].kind \in {"add", "remove"} /\ notes[1].what = p)
<1>1. /\ Len(notes) \in Nat \ {0} /\ Len(notes') = Len(notes) - 1
      /\ \A k \in 1 .. Len(notes') : notes'[k] = notes[k + 1]
  BY NoteHeard
<1>2. ASSUME NEW k \in 1 .. Len(notes), k # 1 PROVE k - 1 \in 1 .. Len(notes') /\ notes'[k - 1] = notes[k]
  <2>1. k - 1 \in 1 .. Len(notes') /\ (k - 1) + 1 = k
    BY <1>1, <1>2
  <2> QED
    BY <1>1, <2>1
<1>3. ASSUME PersonNoted(p, n + 1) PROVE PersonNoted(p, n)'
  <2>1. PICK k \in 1 .. Len(notes) : k > n + 1 /\ notes[k].kind \in {"add", "remove"} /\ notes[k].what = p
    BY <1>3 DEF PersonNoted
  <2>2. k - 1 \in 1 .. Len(notes') /\ notes'[k - 1] = notes[k] /\ k - 1 > n
    BY <1>1, <1>2, <2>1
  <2> QED
    BY <2>1, <2>2 DEF PersonNoted
<1>4. ASSUME Noted(n + 1) PROVE Noted(n)'
  <2>1. PICK k \in 1 .. Len(notes) : k > n + 1 /\ notes[k].kind \in {"setting", "add", "remove"}
    BY <1>4 DEF Noted
  <2>2. k - 1 \in 1 .. Len(notes') /\ notes'[k - 1] = notes[k] /\ k - 1 > n
    BY <1>1, <1>2, <2>1
  <2> QED
    BY <2>1, <2>2 DEF Noted
<1>5. ASSUME PersonNoted(p, 0), ~(notes[1].kind \in {"add", "remove"} /\ notes[1].what = p) PROVE PersonNoted(p, 0)'
  <2>1. PICK k \in 1 .. Len(notes) : k > 0 /\ notes[k].kind \in {"add", "remove"} /\ notes[k].what = p
    BY <1>5 DEF PersonNoted
  <2>2. k # 1
    BY <1>5, <2>1
  <2>3. k - 1 \in 1 .. Len(notes') /\ notes'[k - 1] = notes[k] /\ k - 1 > 0
    BY <1>1, <1>2, <2>2
  <2> QED
    BY <2>1, <2>3 DEF PersonNoted
<1> QED
  BY <1>3, <1>4, <1>5

\* What every notice leaves: h is the notice, t the handler it starts.
LEMMA HearCommon ==
  ASSUME GroupsIInv, notes # <<>>, notes' = Tail(notes), NEW t \in GroupTasks, TaskOK(t), Start(t),
         t.job \notin {"warm", "warmed"}, t.at # "merged" /\ (t.job = "update" => t.at \notin {"save", "log"}),
         UNCHANGED <<group, people>>, certain'.people = certain.people,
         NEW h, h = notes[1],
         h.kind \in {"add", "remove", "created"} =>
           t.at = "record" /\ t.note.who = h.what /\ t.note.action = Classified[h.kind],
         h.kind = "created" => t.job = "request" /\ UNCHANGED <<cached, certain, metaRow>>,
         t.job = "request" => h.kind = "created",
         t.at = "record" => h.kind \in {"add", "remove", "created"}
  PROVE  TasksAlone' /\ NotesTell' /\ RecordsTell' /\ WarmTells' /\ UpdateTells' /\ PeopleKnown'
<1>1. /\ GroupShape /\ TasksAlone /\ NotesTell /\ RecordsTell /\ WarmTells /\ UpdateTells
      /\ MetaKnown /\ RowKnown /\ LogKnown /\ PeopleKnown
  BY DEF GroupsIInv
<1>2. /\ tasks' \in Seq(GroupTasks) /\ TasksAlone'
      /\ \A b \in Tasks' : b \in GroupTasks /\ TaskOK(b) /\ StartedOrBeside(b, t)
      /\ \A u \in Tasks : \E b \in Tasks' : SameTask(b, u)
      /\ \E b \in Tasks' : SameTask(b, t)
  BY <1>1, StartOf
<1>3. /\ notes' \in Seq(Notices) /\ Len(notes) \in Nat \ {0} /\ Len(notes') = Len(notes) - 1
      /\ \A k \in 1 .. Len(notes') : notes'[k] = notes[k + 1]
      /\ h \in Notices
      /\ SettingNoted /\ h.kind # "setting" => SettingNoted'
  BY <1>1, NoteHeard
<1>4. ASSUME NEW n \in 0 .. Len(notes')
      PROVE  /\ Noted(n + 1) => Noted(n)'
             /\ \A p : /\ PersonNoted(p, n + 1) => PersonNoted(p, n)'
                       /\ PersonNoted(p, 0) => PersonNoted(p, 0)' \/ (h.kind \in {"add", "remove"} /\ h.what = p)
  BY <1>1, PersonHeard
<1>5. NotesTell'
  <2> SUFFICES ASSUME NEW k \in 1 .. Len(notes'), NEW n, n = notes'[k]
               PROVE  /\ n.kind = "upsert" => n.what = group' \/ Noted(k)'
                      /\ n.kind \in {"add", "remove", "created"} => Agrees(n.kind, n.what)' \/ PersonNoted(n.what, k)'
    BY DEF NotesTell, Agrees, PersonNoted
  <2>1. k + 1 \in 1 .. Len(notes) /\ k \in 0 .. Len(notes') /\ n = notes[k + 1]
    BY <1>3
  <2>2. /\ n.kind = "upsert" => n.what = group \/ Noted(k + 1)
        /\ n.kind \in {"add", "remove", "created"} => Agrees(n.kind, n.what) \/ PersonNoted(n.what, k + 1)
    BY <1>1, <2>1 DEF NotesTell
  <2>3. Agrees(n.kind, n.what) => Agrees(n.kind, n.what)'
    BY DEF Agrees
  <2> QED
    BY <1>4, <2>1, <2>2, <2>3
<1>6. RecordsTell'
  <2> SUFFICES ASSUME NEW b \in Tasks', b.at = "record", b.alone
               PROVE  Agrees(b.note.action, b.note.who)' \/ PersonNoted(b.note.who, 0)'
    BY DEF RecordsTell
  <2>0. 0 \in 0 .. Len(notes') /\ 1 \in 1 .. Len(notes) /\ 0 + 1 = 1
    BY <1>3
  <2>1. CASE b.at = t.at /\ b.note = t.note
    <3>1. h.kind \in {"add", "remove", "created"} /\ t.note.who = h.what /\ t.note.action = Classified[h.kind]
      BY <2>1
    <3>2. Agrees(h.kind, h.what) \/ PersonNoted(h.what, 1)
      BY <1>1, <2>0, <3>1 DEF NotesTell
    <3>3. Agrees(h.kind, h.what) => Agrees(t.note.action, h.what)'
      BY <3>1 DEF Agrees, Classified
    <3>4. PersonNoted(h.what, 1) => PersonNoted(h.what, 0)'
      BY <1>4, <2>0
    <3> QED
      BY <2>1, <3>1, <3>2, <3>3, <3>4
  <2>2. ASSUME NEW u \in Tasks, b.at = u.at, b.note = u.note, u.alone, ~Meets(u, t)
        PROVE  Agrees(b.note.action, b.note.who)' \/ PersonNoted(b.note.who, 0)'
    <3>1. Agrees(u.note.action, u.note.who) \/ PersonNoted(u.note.who, 0)
      BY <1>1, <2>2 DEF RecordsTell
    <3>2. Agrees(u.note.action, u.note.who) => Agrees(u.note.action, u.note.who)'
      BY DEF Agrees
    <3>3. ~(h.kind \in {"add", "remove"} /\ h.what = u.note.who)
      BY <2>2 DEF Meets
    <3>4. PersonNoted(u.note.who, 0) => PersonNoted(u.note.who, 0)'
      BY <1>4, <2>0, <3>3
    <3> QED
      BY <2>2, <3>1, <3>2, <3>4
  <2> QED
    BY <1>2, <2>1, <2>2 DEF StartedOrBeside
<1>7. \A b \in Tasks' : b.job = "warm" => ~b.alone
  BY <1>2 DEF StartedOrBeside, Meets
<1>8. WarmTells'
  BY <1>7 DEF WarmTells
<1>9. UpdateTells'
  <2> SUFFICES ASSUME NEW b \in Tasks', b.job = "update", b.alone, certain'.meta
               PROVE  /\ b.at # "merged"
                      /\ b.at \in {"save", "log"} =>
                           /\ cached' \in {NoMeta, b.meta}
                           /\ b.meta.setting = group'.setting \/ SettingNoted'
                           /\ b.at = "log" /\ certain'.row => metaRow' = b.meta
    BY DEF UpdateTells
  <2>1. CASE b.job = t.job /\ b.at = t.at
    BY <2>1
  <2>2. ASSUME NEW u \in Tasks, b.job = u.job, b.at = u.at, b.meta = u.meta, u.alone, ~Meets(u, t)
        PROVE  /\ b.at # "merged"
               /\ b.at \in {"save", "log"} =>
                    /\ cached' \in {NoMeta, b.meta}
                    /\ b.meta.setting = group'.setting \/ SettingNoted'
                    /\ b.at = "log" /\ certain'.row => metaRow' = b.meta
    <3>1. t.job = "request"
      BY <2>2 DEF Meets
    <3>2. h.kind = "created" /\ UNCHANGED <<cached, certain, metaRow>>
      BY <3>1
    <3> QED
      BY <1>1, <1>3, <2>2, <3>2 DEF UpdateTells
  <2> QED
    BY <1>2, <2>1, <2>2 DEF StartedOrBeside
<1>10. PeopleKnown'
  <2> SUFFICES ASSUME NEW p \in certain.people
               PROVE  \/ PersonTold(p)' \/ PersonNoted(p, 0)'
                      \/ \E b \in Tasks' : b.at = "record" /\ b.note.who = p
    BY DEF PeopleKnown
  <2>1. \/ PersonTold(p) \/ PersonNoted(p, 0)
        \/ \E u \in Tasks : u.at = "record" /\ u.note.who = p
    BY <1>1 DEF PeopleKnown
  <2>2. PersonTold(p) => PersonTold(p)'
    BY DEF PersonTold, Latest
  <2>3. CASE PersonNoted(p, 0)
    <3>1. PersonNoted(p, 0)' \/ (h.kind \in {"add", "remove"} /\ h.what = p)
      BY <1>3, <1>4, <2>3
    <3>2. CASE h.kind \in {"add", "remove"} /\ h.what = p
      BY <1>2, <3>2 DEF SameTask
    <3> QED
      BY <3>1, <3>2
  <2>4. CASE \E u \in Tasks : u.at = "record" /\ u.note.who = p
    BY <1>2, <2>4 DEF SameTask
  <2> QED
    BY <2>1, <2>2, <2>3, <2>4
<1> QED
  BY <1>2, <1>5, <1>6, <1>8, <1>9, <1>10

\* A handler that starts with a row, or with metadata, takes nothing from what is known.
LEMMA StartQuiet ==
  ASSUME GroupShape, TasksAlone, MetaKnown, RowKnown, LogKnown,
         NEW t \in GroupTasks, TaskOK(t), t.job # "warmed", Start(t), t.at \in {"record", "loop"}, t.old = NoMeta,
         UNCHANGED <<group, cached, certain, metaRow, settings>>,
         RefreshToCome => RefreshToCome', SettingNoted => SettingNoted'
  PROVE  MetaKnown' /\ RowKnown' /\ LogKnown'
<1>1. /\ \A b \in Tasks' : b \in GroupTasks /\ TaskOK(b) /\ StartedOrBeside(b, t)
      /\ \A u \in Tasks : \E b \in Tasks' : SameTask(b, u)
  BY StartOf
<1>2. MetaKnown'
  BY DEF MetaKnown
<1>3. RowKnown'
  <2>1. \A b \in Tasks' : certain.row => b.at # "merged"
    BY <1>1 DEF RowKnown, StartedOrBeside
  <2>2. \A b \in Tasks' : b.at = "save" => \E u \in Tasks : u.at = "save" /\ b.meta = u.meta
    BY <1>1 DEF StartedOrBeside
  <2>3. \A u \in Tasks : u.at = "save" => \E b \in Tasks' : b.at = "save"
    BY <1>1 DEF SameTask
  <2> QED
    BY <2>1, <2>2, <2>3 DEF RowKnown
<1>4. LogKnown'
  <2> SUFFICES ASSUME certain.log PROVE settings # <<>> /\ (LogFits' \/ \E b \in Tasks' : Breaker(b))
    BY DEF LogKnown
  <2>1. settings # <<>> /\ (LogFits \/ \E u \in Tasks : Breaker(u))
    BY DEF LogKnown
  <2>2. CASE \E u \in Tasks : Breaker(u)
    BY <1>1, <2>1, <2>2 DEF Breaker, SameTask
  <2>3. CASE LogFits
    <3>1. \/ group.setting = LastSetting \/ SettingNoted'
          \/ \E b \in Tasks' : b.job = "update" /\ b.at \in {"read", "answer", "fetch"}
      <4>1. \A u \in Tasks : u.job = "update" /\ u.at \in {"read", "answer", "fetch"} =>
               \E b \in Tasks' : b.job = "update" /\ b.at \in {"read", "answer", "fetch"}
        BY <1>1 DEF SameTask
      <4> QED
        BY <2>3, <4>1 DEF LogFits
    <3>2. \A b \in Tasks' :
            b.old # NoMeta /\ (b.at = "fetch" \/ (b.at = "answer" /\ b.alone /\ certain.row)) =>
              b.old.setting = LastSetting
      BY <1>1, <2>3 DEF LogFits, StartedOrBeside
    <3>3. certain.row => \A b \in Tasks' : b.at = "save" => b.meta.setting = LastSetting
      BY <1>1, <2>3 DEF LogFits, StartedOrBeside
    <3>4. certain.row /\ metaRow \in Metas => metaRow.setting = LastSetting \/ \E b \in Tasks' : b.at = "save"
      BY <1>1, <2>3 DEF LogFits, SameTask
    <3> QED
      BY <2>1, <2>3, <3>1, <3>2, <3>3, <3>4 DEF LogFits, LastSetting
  <2> QED
    BY <2>1, <2>2, <2>3
<1> QED
  BY <1>2, <1>3, <1>4

LEMMA HearKeeps == ASSUME GroupsIInv, Hear PROVE GroupsIInv'
<1>1. /\ GroupShape /\ TasksAlone /\ NotesTell /\ RecordsTell /\ WarmTells /\ UpdateTells
      /\ MetaKnown /\ RowKnown /\ LogKnown /\ PeopleKnown
  BY DEF GroupsIInv
<1>2. PICK h : h = notes[1]
  OBVIOUS
<1>3. /\ notes # <<>> /\ notes' = Tail(notes) /\ Head(notes) = h
      /\ UNCHANGED <<groupStore, group, metaRow, settings, people, second>>
  BY <1>1, <1>2, NoteHeard DEF Hear
<1>4. /\ notes' \in Seq(Notices) /\ Len(notes) \in Nat \ {0} /\ Len(notes') = Len(notes) - 1
      /\ \A k \in 1 .. Len(notes') : notes'[k] = notes[k + 1]
      /\ h \in Notices
      /\ SettingNoted /\ h.kind # "setting" => SettingNoted'
      /\ (\E k \in 1 .. Len(notes) : notes[k].kind # "created") /\ h.kind = "created" =>
           \E k \in 1 .. Len(notes') : notes'[k].kind # "created"
  BY <1>1, <1>2, <1>3, NoteHeard
<1>6. ASSUME h.kind = "setting", GroupsUpdate(h.what), UNCHANGED <<cached, certain>>
      PROVE  GroupsIInv'
  <2>1. PICK t : /\ t = IF cached # NoMeta THEN [Task("update", "fetch", h.what) EXCEPT !.old = cached]
                        ELSE Task("update", "read", h.what)
                 /\ Start(t)
    BY <1>6 DEF GroupsUpdate
  <2>2. /\ t \in GroupTasks /\ TaskOK(t) /\ t.job = "update" /\ t.at \in {"read", "fetch"}
        /\ t.at = "fetch" => t.old = cached
    BY <1>1, <1>4, <1>6, <2>1 DEF Task, GroupTasks, TaskOK, GroupShape, Notices
  <2>12. /\ tasks' \in Seq(GroupTasks) /\ TasksAlone'
         /\ \A b \in Tasks' : b \in GroupTasks /\ TaskOK(b) /\ StartedOrBeside(b, t)
         /\ \A u \in Tasks : \E b \in Tasks' : SameTask(b, u)
         /\ \E b \in Tasks' : SameTask(b, t)
    BY <1>1, <2>1, <2>2, StartOf
  <2>3. TasksAlone' /\ NotesTell' /\ RecordsTell' /\ WarmTells' /\ UpdateTells' /\ PeopleKnown'
    BY <1>2, <1>3, <1>6, <2>1, <2>2, HearCommon
  <2>4. GroupShape'
    BY <1>1, <1>3, <1>4, <2>12, <1>6, <2>1, <2>2 DEF GroupShape
  <2>5. RefreshToCome'
    BY <2>12, <2>1, <2>2 DEF RefreshToCome, Refreshes, SameTask
  <2>6. MetaKnown'
    BY <2>5 DEF MetaKnown
  <2>7. RowKnown'
    <3>1. \A b \in Tasks' : certain.row => b.at # "merged"
      BY <1>1, <2>12, <2>1, <2>2 DEF RowKnown, StartedOrBeside
    <3> QED
      BY <1>6, <2>5, <3>1 DEF RowKnown
  <2>8. LogKnown'
    <3> SUFFICES ASSUME certain.log PROVE settings # <<>> /\ (LogFits' \/ \E b \in Tasks' : Breaker(b))
      BY <1>3, <1>6 DEF LogKnown
    <3>1. settings # <<>> /\ (LogFits \/ \E u \in Tasks : Breaker(u))
      BY <1>1 DEF LogKnown
    <3>2. CASE \E u \in Tasks : Breaker(u)
      BY <2>12, <2>1, <2>2, <3>1, <3>2 DEF Breaker, SameTask
    <3>3. CASE LogFits
      <4>1. \E b \in Tasks' : b.job = "update" /\ b.at \in {"read", "answer", "fetch"}
        BY <2>12, <2>1, <2>2 DEF SameTask
      <4>2. \A b \in Tasks' :
              b.old # NoMeta /\ (b.at = "fetch" \/ (b.at = "answer" /\ b.alone /\ certain.row)) =>
                b.old.setting = LastSetting
        BY <2>12, <2>1, <2>2, <3>3 DEF LogFits, StartedOrBeside
      <4>3. certain.row => \A b \in Tasks' : b.at = "save" => b.meta.setting = LastSetting
        BY <2>12, <2>1, <2>2, <3>3 DEF LogFits, StartedOrBeside
      <4>4. certain.row /\ metaRow \in Metas => metaRow.setting = LastSetting \/ \E b \in Tasks' : b.at = "save"
        BY <2>12, <2>1, <2>2, <3>3 DEF LogFits, SameTask
      <4> QED
        BY <1>3, <1>6, <3>1, <3>3, <4>1, <4>2, <4>3, <4>4 DEF LogFits, LastSetting
    <3> QED
      BY <3>1, <3>2, <3>3
  <2> QED
    BY <2>3, <2>4, <2>6, <2>7, <2>8 DEF GroupsIInv
<1>7. ASSUME h.kind \in {"add", "remove", "created"},
             \/ h.kind \in {"add", "remove"} /\ ParticipantsUpdate(h.what, h.kind)
             \/ h.kind = "created" /\ JoinRequest(h.what, h.kind),
             UNCHANGED <<cached, certain>>
      PROVE  GroupsIInv'
  <2>1. PICK t : /\ t = Task(IF h.kind = "created" THEN "request" ELSE "members", "record",
                             Row(h.what, Classified[h.kind], second))
                 /\ Start(t)
    BY <1>7 DEF ParticipantsUpdate, JoinRequest
  <2>2. /\ t \in GroupTasks /\ TaskOK(t) /\ t.at = "record"
        /\ t.job = (IF h.kind = "created" THEN "request" ELSE "members")
        /\ t.note.who = h.what /\ t.note.action = Classified[h.kind] /\ t.old = NoMeta
    <3>1. h.what \in Members /\ second \in Nat
      BY <1>1, <1>4, <1>7 DEF Notices, GroupShape
    <3>2. Row(h.what, Classified[h.kind], second) \in PersonRows
      BY <1>7, <3>1 DEF Row, PersonRows, Classified
    <3>3. /\ t.at = "record" /\ t.note = Row(h.what, Classified[h.kind], second) /\ t.old = NoMeta
          /\ t.job = (IF h.kind = "created" THEN "request" ELSE "members") /\ t.meta = NoMeta
          /\ t \in GroupTasks
      BY <2>1, <3>2 DEF Task, GroupTasks
    <3> QED
      BY <3>2, <3>3 DEF TaskOK, Row
  <2>12. /\ tasks' \in Seq(GroupTasks) /\ TasksAlone'
         /\ \A b \in Tasks' : b \in GroupTasks /\ TaskOK(b) /\ StartedOrBeside(b, t)
         /\ \A u \in Tasks : \E b \in Tasks' : SameTask(b, u)
         /\ \E b \in Tasks' : SameTask(b, t)
    BY <1>1, <2>1, <2>2, StartOf
  <2>3. TasksAlone' /\ NotesTell' /\ RecordsTell' /\ WarmTells' /\ UpdateTells' /\ PeopleKnown'
    BY <1>2, <1>3, <1>7, <2>1, <2>2, HearCommon
  <2>4. GroupShape'
    BY <1>1, <1>3, <1>4, <2>12, <1>7, <2>1, <2>2 DEF GroupShape
  <2>5. RefreshToCome => RefreshToCome'
    <3>1. CASE h.kind = "created"
      <4>1. (\E k \in 1 .. Len(notes) : notes[k].kind # "created") => RefreshToCome'
        BY <1>4, <3>1 DEF RefreshToCome
      <4>2. (\E u \in Tasks : Refreshes(u)) => \E b \in Tasks' : Refreshes(b)
        BY <2>12 DEF Refreshes, SameTask
      <4> QED
        BY <4>1, <4>2 DEF RefreshToCome
    <3>2. CASE h.kind # "created"
      BY <2>12, <2>1, <2>2, <3>2 DEF RefreshToCome, Refreshes, SameTask
    <3> QED
      BY <3>1, <3>2
  <2>6. MetaKnown' /\ RowKnown' /\ LogKnown'
    BY <1>1, <1>3, <1>4, <1>7, <2>1, <2>2, <2>5, StartQuiet
  <2> QED
    BY <2>3, <2>4, <2>6 DEF GroupsIInv
<1>8. ASSUME h.kind = "upsert", GroupsUpsert(h.what) PROVE GroupsIInv'
  <2>1. PICK t : t = [Task("row", "save", "") EXCEPT !.meta = h.what] /\ Start(t)
    BY <1>8 DEF GroupsUpsert
  <2>2. cached' = h.what /\ certain' = Certain(0, h.what, Len(notes) = 1, FALSE)
    BY <1>8 DEF GroupsUpsert
  <2>3. h.what \in Metas
    BY <1>4, <1>8 DEF Notices
  <2>4. /\ t \in GroupTasks /\ TaskOK(t) /\ t.job = "row" /\ t.at = "save" /\ t.meta = h.what /\ t.old = NoMeta
    BY <2>1, <2>3 DEF Task, GroupTasks, TaskOK
  <2>12. /\ tasks' \in Seq(GroupTasks) /\ TasksAlone'
         /\ \A b \in Tasks' : b \in GroupTasks /\ TaskOK(b) /\ StartedOrBeside(b, t)
         /\ \A u \in Tasks : \E b \in Tasks' : SameTask(b, u)
         /\ \E b \in Tasks' : SameTask(b, t)
    BY <1>1, <2>1, <2>4, StartOf
  <2>5. /\ certain' \in [meta : BOOLEAN, row : BOOLEAN, log : BOOLEAN, people : SUBSET Members]
        /\ certain'.people = certain.people
        /\ certain'.meta \/ certain'.row => Len(notes) = 1
        /\ certain'.row => \A u \in Tasks : u.at \notin {"answer", "save", "merged"}
        /\ certain'.log => certain.log /\ h.what.setting = cached.setting
    <3>1. \A u \in Tasks : u.at \in {tasks[j].at : j \in (1 .. Len(tasks)) \ {0}}
      BY DEF Tasks
    <3>2. certain \in [meta : BOOLEAN, row : BOOLEAN, log : BOOLEAN, people : SUBSET Members]
      BY <1>1 DEF GroupShape
    <3> QED
      BY <2>2, <3>1, <3>2 DEF Certain
  <2>6. TasksAlone' /\ NotesTell' /\ RecordsTell' /\ WarmTells' /\ UpdateTells' /\ PeopleKnown'
    BY <1>2, <1>3, <1>8, <2>1, <2>4, <2>5, HearCommon
  <2>7. GroupShape'
    BY <1>1, <1>3, <1>4, <2>12, <2>1, <2>2, <2>3, <2>4, <2>5 DEF GroupShape
  <2>8. Len(notes) = 1 => h.what = group
    <3>1. Len(notes) = 1 => ~Noted(1)
      BY DEF Noted
    <3> QED
      BY <1>1, <1>2, <1>4, <1>8, <3>1 DEF NotesTell
  <2>9. MetaKnown'
    BY <1>3, <2>2, <2>5, <2>8 DEF MetaKnown
  <2>10. RowKnown'
    <3> SUFFICES ASSUME certain'.row
                 PROVE  /\ \A b \in Tasks' : b.at # "merged"
                        /\ \A b \in Tasks' : b.at = "save" => b.meta = group
                        /\ \E b \in Tasks' : b.at = "save"
      BY <1>3 DEF RowKnown
    <3> QED
      BY <2>12, <2>4, <2>5, <2>8 DEF StartedOrBeside, SameTask
  <2>11. LogKnown'
    <3> SUFFICES ASSUME certain'.log PROVE settings # <<>> /\ (LogFits' \/ \E b \in Tasks' : Breaker(b))
      BY <1>3 DEF LogKnown
    <3>1. settings # <<>> /\ (LogFits \/ \E u \in Tasks : Breaker(u))
      BY <1>1, <2>5 DEF LogKnown
    <3>2. CASE \E u \in Tasks : Breaker(u)
      BY <2>12, <2>4, <3>1, <3>2 DEF Breaker, SameTask
    <3>3. CASE LogFits
      <4>1. cached # NoMeta /\ h.what.setting = LastSetting
        BY <2>3, <2>5, <3>3, NoMetaIs DEF LogFits
      <4>2. \/ group.setting = LastSetting \/ SettingNoted'
            \/ \E b \in Tasks' : b.job = "update" /\ b.at \in {"read", "answer", "fetch"}
        <5>1. \A u \in Tasks : u.job = "update" /\ u.at \in {"read", "answer", "fetch"} =>
                 \E b \in Tasks' : b.job = "update" /\ b.at \in {"read", "answer", "fetch"}
          BY <2>12, <2>4 DEF SameTask
        <5> QED
          BY <1>4, <1>8, <3>3, <5>1 DEF LogFits
      <4>3. \A b \in Tasks' :
              b.old # NoMeta /\ (b.at = "fetch" \/ (b.at = "answer" /\ b.alone /\ certain'.row)) =>
                b.old.setting = LastSetting
        BY <2>12, <2>4, <2>5, <3>3 DEF LogFits, StartedOrBeside
      <4>4. certain'.row => \A b \in Tasks' : b.at = "save" => b.meta.setting = LastSetting
        BY <2>12, <2>4, <2>5, <4>1 DEF StartedOrBeside
      <4>5. \E b \in Tasks' : b.at = "save"
        BY <2>12, <2>4 DEF SameTask
      <4> QED
        BY <1>3, <2>2, <3>1, <4>1, <4>2, <4>3, <4>4, <4>5 DEF LogFits, LastSetting
    <3> QED
      BY <3>1, <3>2, <3>3
  <2> QED
    BY <2>6, <2>7, <2>9, <2>10, <2>11 DEF GroupsIInv
<1> QED
  BY <1>3, <1>6, <1>7, <1>8 DEF Hear

-----------------------------------------------------------------------------
(* The warm-up of a connection, time, and the end of a worker *)

\* What a step that leaves the group and its notices leaves of what is said of them.
LEMMA NotesStand ==
  ASSUME UNCHANGED <<group, notes>>
  PROVE  /\ NotesTell => NotesTell'
         /\ SettingNoted => SettingNoted'
         /\ \A p : PersonNoted(p, 0) => PersonNoted(p, 0)'
         /\ \A p, action : Agrees(action, p) => Agrees(action, p)'
<1>1. \A p, k : PersonNoted(p, k) => PersonNoted(p, k)'
  BY DEF PersonNoted
<1>2. \A p, action : Agrees(action, p) => Agrees(action, p)'
  BY DEF Agrees
<1>3. SettingNoted => SettingNoted'
  BY DEF SettingNoted
<1>4. \A k : Noted(k) => Noted(k)'
  BY DEF Noted
<1>5. NotesTell => NotesTell'
  <2> SUFFICES ASSUME NotesTell, NEW k \in 1 .. Len(notes'), NEW n, n = notes'[k]
               PROVE  /\ n.kind = "upsert" => n.what = group' \/ Noted(k)'
                      /\ n.kind \in {"add", "remove", "created"} => Agrees(n.kind, n.what)' \/ PersonNoted(n.what, k)'
    BY DEF NotesTell, Agrees, PersonNoted
  <2>1. /\ n.kind = "upsert" => n.what = group \/ Noted(k)
        /\ n.kind \in {"add", "remove", "created"} => Agrees(n.kind, n.what) \/ PersonNoted(n.what, k)
    BY DEF NotesTell
  <2> QED
    BY <1>1, <1>2, <1>4, <2>1
<1> QED
  BY <1>1, <1>2, <1>3, <1>5

\* The participants are known of where no row of theirs is written.
LEMMA PeopleStand ==
  ASSUME GroupShape, PeopleKnown, UNCHANGED <<group, notes, people>>, certain'.people \subseteq certain.people,
         \A u \in Tasks : u.at = "record" => \E b \in Tasks' : b.at = "record" /\ b.note.who = u.note.who
  PROVE  PeopleKnown'
<1> SUFFICES ASSUME NEW p \in certain'.people
             PROVE  \/ PersonTold(p)' \/ PersonNoted(p, 0)'
                    \/ \E b \in Tasks' : b.at = "record" /\ b.note.who = p
  BY DEF PeopleKnown
<1>1. \/ PersonTold(p) \/ PersonNoted(p, 0)
      \/ \E u \in Tasks : u.at = "record" /\ u.note.who = p
  BY DEF PeopleKnown
<1>2. PersonTold(p) => PersonTold(p)'
  BY DEF PersonTold, Latest
<1>3. PersonNoted(p, 0) => PersonNoted(p, 0)'
  BY NotesStand
<1> QED
  BY <1>1, <1>2, <1>3

\* A row on its way tells the same where the group and the notices stay.
LEMMA RecordsStand ==
  ASSUME GroupShape, RecordsTell, UNCHANGED <<group, notes>>,
         \A b \in Tasks' : b.at = "record" /\ b.alone => b \in Tasks
  PROVE  RecordsTell'
<1> SUFFICES ASSUME NEW b \in Tasks', b.at = "record", b.alone
             PROVE  Agrees(b.note.action, b.note.who)' \/ PersonNoted(b.note.who, 0)'
  BY DEF RecordsTell
<1>1. PICK p, action : p = b.note.who /\ action = b.note.action
  OBVIOUS
<1>2. Agrees(action, p) \/ PersonNoted(p, 0)
  BY <1>1 DEF RecordsTell
<1>3. Agrees(action, p)' \/ PersonNoted(p, 0)'
  BY <1>2, NotesStand
<1> QED
  BY <1>1, <1>3

LEMMA WarmUpKeeps == ASSUME GroupsIInv, WarmUp PROVE GroupsIInv'
<1>1. /\ GroupShape /\ TasksAlone /\ NotesTell /\ RecordsTell /\ WarmTells /\ UpdateTells
      /\ MetaKnown /\ RowKnown /\ LogKnown /\ PeopleKnown
  BY DEF GroupsIInv
<1>2. UNCHANGED <<group, notes, cached, metaRow, settings, people, second, certain>>
  BY DEF WarmUp
<1>3. PICK t : t = [Task("warm", "loop", "") EXCEPT !.meta = group] /\ Start(t)
  BY DEF WarmUp
<1>4. /\ t \in GroupTasks /\ TaskOK(t)
      /\ t.job = "warm" /\ t.at = "loop" /\ t.old = NoMeta /\ t.meta = group
  BY <1>1, <1>3 DEF Task, GroupTasks, TaskOK, GroupShape
<1>5. /\ tasks' \in Seq(GroupTasks) /\ TasksAlone'
      /\ \A b \in Tasks' : b \in GroupTasks /\ TaskOK(b) /\ StartedOrBeside(b, t)
      /\ \A u \in Tasks : \E b \in Tasks' : SameTask(b, u)
  BY <1>1, <1>3, <1>4, StartOf
<1>6. \A b \in Tasks' : b.alone => b.job = "warm" /\ b.at = "loop" /\ b.meta = group
  BY <1>4, <1>5 DEF StartedOrBeside, Meets
<1>7. GroupShape'
  BY <1>1, <1>2, <1>5 DEF GroupShape
<1>8. NotesTell'
  BY <1>1, <1>2, NotesStand
<1>9. RecordsTell'
  BY <1>6 DEF RecordsTell
<1>10. WarmTells'
  BY <1>2, <1>6 DEF WarmTells
<1>11. UpdateTells'
  BY <1>6 DEF UpdateTells
<1>12. /\ SettingNoted => SettingNoted'
       /\ RefreshToCome => RefreshToCome'
  BY <1>2, <1>5 DEF SettingNoted, RefreshToCome, Refreshes, SameTask
<1>13. MetaKnown' /\ RowKnown' /\ LogKnown'
  BY <1>1, <1>2, <1>3, <1>4, <1>12, StartQuiet
<1>14. PeopleKnown'
  BY <1>1, <1>2, <1>5, PeopleStand DEF SameTask
<1> QED
  BY <1>5, <1>7, <1>8, <1>9, <1>10, <1>11, <1>13, <1>14 DEF GroupsIInv

LEMMA WarmAgainKeeps == ASSUME GroupsIInv, WarmAgain PROVE GroupsIInv'
<1>1. UNCHANGED <<group, notes, cached, metaRow, settings, people, second, tasks, certain>>
  BY DEF WarmAgain
<1>2. Tasks' = Tasks /\ \A i : Others(i)' = Others(i)
  BY <1>1 DEF Tasks, Others
<1>3. GroupShape'
  BY <1>1, <1>2 DEF GroupsIInv, GroupShape
<1>4. TasksAlone' /\ NotesTell' /\ RecordsTell' /\ PeopleKnown'
  BY <1>1, <1>2, NotesStand, RecordsStand, PeopleStand DEF GroupsIInv, TasksAlone
<1>5. WarmTells' /\ UpdateTells' /\ MetaKnown' /\ RowKnown' /\ LogKnown'
  BY <1>1, <1>2 DEF GroupsIInv, WarmTells, UpdateTells, MetaKnown, RowKnown, LogKnown, LogFits, LastSetting,
                    RefreshToCome, SettingNoted, PersonNoted
<1> QED
  BY <1>3, <1>4, <1>5 DEF GroupsIInv

LEMMA SecondKeeps == ASSUME GroupsIInv, Second PROVE GroupsIInv'
<1>1. /\ UNCHANGED <<group, notes, cached, metaRow, settings, people, tasks, certain>>
      /\ second' = second + 1
  BY DEF Second
<1>2. Tasks' = Tasks /\ \A i : Others(i)' = Others(i)
  BY <1>1 DEF Tasks, Others
<1>3. GroupShape'
  <2>1. GroupShape /\ second' \in Nat
    BY <1>1 DEF GroupsIInv, GroupShape
  <2>2. group' \in Metas /\ cached' \in Metas \union {NoMeta} /\ metaRow' \in Metas \union {NoMeta} /\ notes' \in Seq(Notices)
    BY <1>1, <2>1 DEF GroupShape
  <2>3. tasks' \in Seq(GroupTasks) /\ \A t \in Tasks' : TaskOK(t)
    BY <1>1, <1>2, <2>1 DEF GroupShape
  <2> QED
    BY <1>1, <2>1, <2>2, <2>3 DEF GroupShape
<1>4. TasksAlone' /\ NotesTell' /\ RecordsTell' /\ PeopleKnown'
  BY <1>1, <1>2, NotesStand, RecordsStand, PeopleStand DEF GroupsIInv, TasksAlone
<1>5. WarmTells' /\ UpdateTells' /\ MetaKnown' /\ RowKnown' /\ LogKnown'
  BY <1>1, <1>2 DEF GroupsIInv, WarmTells, UpdateTells, MetaKnown, RowKnown, LogKnown, LogFits, LastSetting,
                    RefreshToCome, SettingNoted, PersonNoted
<1> QED
  BY <1>3, <1>4, <1>5 DEF GroupsIInv

LEMMA ExpireKeeps == ASSUME GroupsIInv, Expire PROVE GroupsIInv'
<1>1. /\ UNCHANGED <<group, notes, metaRow, settings, people, second, tasks, certain>>
      /\ cached' = NoMeta
  BY DEF Expire
<1>2. Tasks' = Tasks /\ \A i : Others(i)' = Others(i)
  BY <1>1 DEF Tasks, Others
<1>3. GroupShape'
  BY <1>1, <1>2 DEF GroupsIInv, GroupShape
<1>4. TasksAlone' /\ NotesTell' /\ RecordsTell' /\ PeopleKnown'
  BY <1>1, <1>2, NotesStand, RecordsStand, PeopleStand DEF GroupsIInv, TasksAlone
<1>5. WarmTells' /\ UpdateTells' /\ MetaKnown' /\ RowKnown'
  BY <1>1, <1>2 DEF GroupsIInv, WarmTells, UpdateTells, MetaKnown, RowKnown, RefreshToCome, SettingNoted, PersonNoted
<1>6. LogKnown'
  BY <1>1, <1>2 DEF GroupsIInv, LogKnown, LogFits, LastSetting, SettingNoted
<1> QED
  BY <1>3, <1>4, <1>5, <1>6 DEF GroupsIInv

LEMMA GroupCrashKeeps == ASSUME GroupsIInv, GroupCrash PROVE GroupsIInv'
<1>1. /\ UNCHANGED <<group, metaRow, settings, people, second>>
      /\ tasks' = <<>> /\ notes' = <<>> /\ cached' = NoMeta
      /\ ~certain'.meta /\ ~certain'.row /\ ~certain'.log
      /\ certain'.people = IF notes = <<>> /\ \A i \in 1 .. Len(tasks) : tasks[i].at \notin {"record", "adopt"}
                            THEN certain.people ELSE {}
      /\ certain' \in [meta : BOOLEAN, row : BOOLEAN, log : BOOLEAN, people : {certain'.people}]
  BY DEF GroupCrash
<1>2. GroupShape /\ PeopleKnown
  BY DEF GroupsIInv
<1>3. Tasks' = {} /\ Len(tasks') = 0 /\ Len(notes') = 0 /\ tasks' \in Seq(GroupTasks) /\ notes' \in Seq(Notices)
  BY <1>1 DEF Tasks
<1>4. certain' \in [meta : BOOLEAN, row : BOOLEAN, log : BOOLEAN, people : SUBSET Members]
  <2>1. certain'.people \in SUBSET Members
    BY <1>1, <1>2 DEF GroupShape
  <2> QED
    BY <1>1, <2>1
<1>5. GroupShape'
  BY <1>1, <1>2, <1>3, <1>4 DEF GroupShape
<1>6. TasksAlone' /\ NotesTell' /\ RecordsTell' /\ WarmTells' /\ UpdateTells'
  BY <1>3 DEF TasksAlone, NotesTell, RecordsTell, WarmTells, UpdateTells
<1>7. MetaKnown' /\ RowKnown' /\ LogKnown'
  BY <1>1 DEF MetaKnown, RowKnown, LogKnown
<1>8. PeopleKnown'
  <2> SUFFICES ASSUME NEW p \in certain'.people PROVE PersonTold(p)'
    BY DEF PeopleKnown
  <2>1. /\ p \in certain.people /\ notes = <<>>
        /\ \A t \in Tasks : t.at # "record"
    BY <1>1 DEF Tasks
  <2>2. ~PersonNoted(p, 0)
    BY <2>1 DEF PersonNoted
  <2>3. PersonTold(p)
    BY <1>2, <2>1, <2>2 DEF PeopleKnown
  <2> QED
    BY <1>1, <2>3 DEF PersonTold, Latest
<1> QED
  BY <1>5, <1>6, <1>7, <1>8 DEF GroupsIInv

-----------------------------------------------------------------------------
(* A task goes on: o is what it was, t what it becomes, and R are the others *)

LEMMA AroundIs ==
  ASSUME GroupShape, TasksAlone, NEW i \in 1 .. Len(tasks), NEW o, o = tasks[i], NEW R, R = Others(i)
  PROVE  /\ o \in GroupTasks /\ TaskOK(o) /\ Tasks = R \union {o}
         /\ \A u \in R : u \in GroupTasks /\ TaskOK(u)
         /\ o.job \notin {"warm", "warmed"} => \A u \in R : u.job = "warm" => ~u.alone
         /\ o.job # "request" => \A u \in R : u.job = "update" => ~u.alone
         /\ o.alone /\ o.job \in {"update", "row"} => \A u \in R : u.job = "request" /\ u.at = "record"
         /\ o.alone /\ o.job = "warm" => \A u \in R : u.job = "warmed" /\ u.at = "save"
         /\ o.alone /\ o.at = "loop" => R = {}
         /\ o.at = "loop" => \A u \in R : u.alone => u.job = "warmed"
         /\ o.alone /\ o.at = "record" => \A u \in R : u.at = "record" => u.note.who # o.note.who
<1>1. o \in GroupTasks /\ TaskOK(o) /\ Tasks = R \union {o}
  BY TaskAt
<1>2. \A u \in R : u \in GroupTasks /\ TaskOK(u)
  BY <1>1, TaskIs
<1>3. \A u \in R : /\ o.alone /\ o.job # "warmed" => Unmet(o, u) /\ o.at # "loop"
                   /\ u.alone /\ u.job # "warmed" => Unmet(u, o) /\ u.at # "loop"
  BY AloneAround
<1>4. /\ o.job \notin {"warm", "warmed"} => \A u \in R : u.job = "warm" => ~u.alone
      /\ o.job # "request" => \A u \in R : u.job = "update" => ~u.alone
      /\ o.alone /\ o.job \in {"update", "row"} => \A u \in R : u.job = "request"
      /\ o.alone /\ o.job = "warm" => \A u \in R : u.job = "warmed"
  BY <1>3 DEF Unmet
<1>5. \A u \in R : (u.job = "request" => u.at = "record") /\ (u.job = "warmed" => u.at = "save")
  BY <1>2 DEF TaskOK
<1>6. o.at = "loop" => o.job = "warm"
  BY <1>1 DEF TaskOK, GroupTasks
<1>7. o.alone /\ o.at = "loop" => R = {}
  BY <1>3, <1>6
<1>8. o.at = "loop" => \A u \in R : u.alone => u.job = "warmed"
  BY <1>3, <1>6 DEF Unmet
<1>9. o.alone /\ o.at = "record" => \A u \in R : u.at = "record" => u.note.who # o.note.who
  BY <1>1, <1>3 DEF Unmet, TaskOK
<1> QED
  BY <1>1, <1>2, <1>4, <1>5, <1>7, <1>8, <1>9

LEMMA TaskGoesOn ==
  ASSUME GroupShape, TasksAlone, NEW i \in 1 .. Len(tasks), NEW o, o = tasks[i], NEW R, R = Others(i),
         NEW t \in GroupTasks, TaskOK(t), Become(i, t), GoesOnAs(o, t)
  PROVE  /\ tasks' \in Seq(GroupTasks) /\ Tasks' = R \union {t} /\ TasksAlone'
         /\ \A b \in Tasks' : TaskOK(b)
<1>1. tasks' \in Seq(GroupTasks) /\ Tasks' = R \union {t} /\ TasksAlone'
  BY BecomeTakes
<1> QED
  BY <1>1, AroundIs

LEMMA TaskEnds ==
  ASSUME GroupShape, TasksAlone, NEW i \in 1 .. Len(tasks), NEW R, R = Others(i), Ends(i)
  PROVE  /\ tasks' \in Seq(GroupTasks) /\ Tasks' = R /\ TasksAlone'
         /\ \A b \in Tasks' : TaskOK(b)
<1>1. tasks' \in Seq(GroupTasks) /\ Tasks' = R /\ TasksAlone'
  BY EndTakes
<1> QED
  BY <1>1, AroundIs

\* What tells of the notices and the participants stays, where a task goes on that
\* was not at a row of the log, and is at none.
LEMMA SidesStand ==
  ASSUME GroupShape, NotesTell, RecordsTell, PeopleKnown,
         UNCHANGED <<group, notes, people>>, certain'.people = certain.people,
         NEW R, NEW o, Tasks = R \union {o}, o.at # "record",
         \A b \in Tasks' : b \notin R => b.at # "record", \A u \in R : u.at = "record" => u \in Tasks'
  PROVE  NotesTell' /\ RecordsTell' /\ PeopleKnown'
<1>1. \A b \in Tasks' : b.at = "record" /\ b.alone => b \in Tasks
  OBVIOUS
<1>2. \A u \in Tasks : u.at = "record" => \E b \in Tasks' : b.at = "record" /\ b.note.who = u.note.who
  OBVIOUS
<1>3. NotesTell'
  BY NotesStand
<1>4. RecordsTell'
  BY <1>1, RecordsStand
<1>5. PeopleKnown'
  BY <1>2, PeopleStand
<1> QED
  BY <1>3, <1>4, <1>5

LEMMA FitsIf ==
  ASSUME NEW last, LastSetting' = last,
         cached' # NoMeta => cached'.setting = last,
         \/ group'.setting = last \/ SettingNoted'
         \/ \E b \in Tasks' : b.job = "update" /\ b.at \in {"read", "answer", "fetch"},
         \A b \in Tasks' :
           b.old # NoMeta /\ (b.at = "fetch" \/ (b.at = "answer" /\ b.alone /\ certain'.row)) => b.old.setting = last,
         certain'.row => \A b \in Tasks' : b.at = "save" => b.meta.setting = last,
         certain'.row /\ metaRow' \in Metas => metaRow'.setting = last \/ \E b \in Tasks' : b.at = "save"
  PROVE  LogFits'
BY DEF LogFits

LEMMA ReadKeeps == ASSUME GroupsIInv, NEW i \in 1 .. Len(tasks), Read(i) PROVE GroupsIInv'
<1>1. /\ GroupShape /\ TasksAlone /\ NotesTell /\ RecordsTell /\ WarmTells /\ UpdateTells
      /\ MetaKnown /\ RowKnown /\ LogKnown /\ PeopleKnown
  BY DEF GroupsIInv
<1>2. UNCHANGED <<group, notes, cached, metaRow, settings, people, second, certain>>
  BY DEF Read
<1>3. PICK o, R : o = tasks[i] /\ R = Others(i)
  OBVIOUS
<1>4. /\ o \in GroupTasks /\ TaskOK(o) /\ Tasks = R \union {o}
      /\ \A u \in R : u \in GroupTasks /\ TaskOK(u)
      /\ o.job \notin {"warm", "warmed"} => \A u \in R : u.job = "warm" => ~u.alone
      /\ o.job # "request" => \A u \in R : u.job = "update" => ~u.alone
      /\ o.alone /\ o.job \in {"update", "row"} => \A u \in R : u.job = "request" /\ u.at = "record"
  BY <1>1, <1>3, AroundIs
<1>5. o.at = "read" /\ o.job = "update" /\ o.old = NoMeta /\ o.note \in Settings
  BY <1>3, <1>4 DEF Read, May, TaskOK, GroupTasks
<1>6. PICK t : /\ Become(i, t)
               /\ t \in {[o EXCEPT !.old = metaRow, !.at = "answer"], [o EXCEPT !.at = "fetch"]}
  BY <1>3 DEF Read, Goes
<1>7. /\ t \in GroupTasks /\ TaskOK(t) /\ GoesOnAs(o, t) /\ t.job = "update" /\ t.at \in {"answer", "fetch"}
      /\ t.alone = o.alone
      /\ t.at = "answer" => t.old = metaRow
      /\ t.at = "fetch" => t.old = NoMeta
  <2>1. CASE t = [o EXCEPT !.old = metaRow, !.at = "answer"]
    BY <1>1, <1>4, <1>5, <2>1 DEF GroupTasks, TaskOK, GoesOnAs, GroupShape
  <2>2. CASE t = [o EXCEPT !.at = "fetch"]
    BY <1>1, <1>4, <1>5, <2>2 DEF GroupTasks, TaskOK, GoesOnAs
  <2> QED
    BY <1>6, <2>1, <2>2
<1>8. /\ tasks' \in Seq(GroupTasks) /\ Tasks' = R \union {t} /\ TasksAlone'
      /\ \A b \in Tasks' : TaskOK(b)
  BY <1>1, <1>3, <1>6, <1>7, TaskGoesOn
<1>9. GroupShape'
  BY <1>1, <1>2, <1>8 DEF GroupShape
<1>10. NotesTell' /\ RecordsTell' /\ PeopleKnown'
  BY <1>1, <1>2, <1>4, <1>5, <1>7, <1>8, SidesStand
<1>11. WarmTells'
  BY <1>4, <1>5, <1>7, <1>8 DEF WarmTells
<1>12. UpdateTells'
  BY <1>4, <1>5, <1>7, <1>8 DEF UpdateTells
<1>13. RefreshToCome'
  BY <1>7, <1>8 DEF RefreshToCome, Refreshes
<1>14. MetaKnown'
  BY <1>13 DEF MetaKnown
<1>15. RowKnown'
  BY <1>1, <1>2, <1>4, <1>7, <1>8, <1>13 DEF RowKnown
<1>16. LogKnown'
  <2> SUFFICES ASSUME certain.log PROVE settings # <<>> /\ (LogFits' \/ \E b \in Tasks' : Breaker(b))
    BY <1>2 DEF LogKnown
  <2>1. settings # <<>> /\ (LogFits \/ \E u \in Tasks : Breaker(u))
    BY <1>1 DEF LogKnown
  <2>2. ~Breaker(o)
    BY <1>5 DEF Breaker
  <2>3. CASE LogFits
    <3>1. t.old # NoMeta /\ (t.at = "fetch" \/ (t.at = "answer" /\ t.alone /\ certain.row)) =>
            t.old.setting = LastSetting
      <4> SUFFICES ASSUME t.old # NoMeta, t.at = "answer", o.alone, certain.row PROVE metaRow.setting = LastSetting
        BY <1>7
      <4>1. metaRow \in Metas /\ \A u \in Tasks : u.at # "save"
        BY <1>1, <1>4, <1>5, <1>7 DEF GroupShape
      <4> QED
        BY <2>3, <4>1 DEF LogFits
    <3> QED
      <4>1. \E b \in Tasks' : b.job = "update" /\ b.at \in {"read", "answer", "fetch"}
        BY <1>7, <1>8
      <4>2. certain.row => \A b \in Tasks' : b.at = "save" => b.meta.setting = LastSetting
        BY <1>4, <1>5, <1>7, <1>8, <2>3 DEF LogFits
      <4>3. certain.row /\ metaRow \in Metas => metaRow.setting = LastSetting \/ \E b \in Tasks' : b.at = "save"
        BY <1>4, <1>5, <1>7, <1>8, <2>3 DEF LogFits
      <4>4. \A b \in Tasks' :
              b.old # NoMeta /\ (b.at = "fetch" \/ (b.at = "answer" /\ b.alone /\ certain.row)) =>
                b.old.setting = LastSetting
        BY <1>4, <1>8, <2>3, <3>1 DEF LogFits
      <4>5. LastSetting' = LastSetting
        BY <1>2 DEF LastSetting
      <4>6. cached # NoMeta => cached.setting = LastSetting
        BY <2>3 DEF LogFits
      <4>7. LogFits'
        BY <1>2, <4>1, <4>2, <4>3, <4>4, <4>5, <4>6, FitsIf
      <4> QED
        BY <2>1, <4>7
  <2> QED
    BY <1>4, <1>8, <2>1, <2>2, <2>3
<1> QED
  BY <1>8, <1>9, <1>10, <1>11, <1>12, <1>14, <1>15, <1>16 DEF GroupsIInv

LEMMA AnswerKeeps == ASSUME GroupsIInv, NEW i \in 1 .. Len(tasks), Answer(i) PROVE GroupsIInv'
<1>1. /\ GroupShape /\ TasksAlone /\ NotesTell /\ RecordsTell /\ WarmTells /\ UpdateTells
      /\ MetaKnown /\ RowKnown /\ LogKnown /\ PeopleKnown
  BY DEF GroupsIInv
<1>2. UNCHANGED <<group, notes, metaRow, settings, people, second>>
  BY DEF Answer
<1>3. PICK o, R : o = tasks[i] /\ R = Others(i)
  OBVIOUS
<1>4. /\ o \in GroupTasks /\ TaskOK(o) /\ Tasks = R \union {o}
      /\ \A u \in R : u \in GroupTasks /\ TaskOK(u)
      /\ o.job \notin {"warm", "warmed"} => \A u \in R : u.job = "warm" => ~u.alone
      /\ o.job # "request" => \A u \in R : u.job = "update" => ~u.alone
      /\ o.alone /\ o.job \in {"update", "row"} => \A u \in R : u.job = "request" /\ u.at = "record"
  BY <1>1, <1>3, AroundIs
<1>5. o.at = "answer" /\ o.job = "update" /\ o.note \in Settings
  BY <1>3, <1>4 DEF Answer, May, TaskOK, GroupTasks
<1>6. PICK t : Become(i, t) /\ t = [o EXCEPT !.at = "fetch"]
  BY <1>3 DEF Answer, Goes
<1>7. /\ t \in GroupTasks /\ TaskOK(t) /\ GoesOnAs(o, t) /\ t.job = "update" /\ t.at = "fetch" /\ t.old = o.old
  BY <1>4, <1>5, <1>6 DEF GroupTasks, TaskOK, GoesOnAs
<1>8. /\ tasks' \in Seq(GroupTasks) /\ Tasks' = R \union {t} /\ TasksAlone'
      /\ \A b \in Tasks' : TaskOK(b)
  BY <1>1, <1>3, <1>6, <1>7, TaskGoesOn
<1>9. o.old \in Metas \union {NoMeta}
  BY <1>4 DEF GroupTasks
<1>10. /\ certain' \in [meta : BOOLEAN, row : BOOLEAN, log : BOOLEAN, people : SUBSET Members]
       /\ certain'.row = certain.row /\ certain'.people = certain.people
       /\ certain'.log => certain.log
       /\ \/ o.old = NoMeta /\ cached' = cached
          \/ o.old # NoMeta /\ cached' = o.old /\ (certain'.log => certain.row /\ o.alone)
  <2>1. certain \in [meta : BOOLEAN, row : BOOLEAN, log : BOOLEAN, people : SUBSET Members] /\ o.alone \in BOOLEAN
    BY <1>1, <1>4 DEF GroupShape, GroupTasks
  <2>2. CASE o.old = NoMeta
    BY <1>3, <2>1, <2>2 DEF Answer
  <2>3. CASE o.old # NoMeta
    <3>1. /\ cached' = o.old
          /\ certain' = [certain EXCEPT !.meta = @ /\ certain.row, !.log = @ /\ certain.row /\ o.alone]
      BY <1>3, <2>3 DEF Answer
    <3> QED
      BY <2>1, <2>3, <3>1
  <2> QED
    BY <2>2, <2>3
<1>11. GroupShape'
  BY <1>1, <1>2, <1>8, <1>9, <1>10 DEF GroupShape
<1>12. NotesTell' /\ RecordsTell' /\ PeopleKnown'
  BY <1>1, <1>2, <1>4, <1>5, <1>7, <1>8, <1>10, SidesStand
<1>13. WarmTells'
  BY <1>4, <1>5, <1>7, <1>8 DEF WarmTells
<1>14. UpdateTells'
  BY <1>4, <1>5, <1>7, <1>8 DEF UpdateTells
<1>15. RefreshToCome'
  BY <1>7, <1>8 DEF RefreshToCome, Refreshes
<1>16. MetaKnown'
  BY <1>15 DEF MetaKnown
<1>17. RowKnown'
  BY <1>1, <1>2, <1>4, <1>7, <1>8, <1>10, <1>15 DEF RowKnown
<1>18. LogKnown'
  <2> SUFFICES ASSUME certain'.log PROVE settings # <<>> /\ (LogFits' \/ \E b \in Tasks' : Breaker(b))
    BY <1>2 DEF LogKnown
  <2>1. settings # <<>> /\ (LogFits \/ \E u \in Tasks : Breaker(u))
    BY <1>1, <1>10 DEF LogKnown
  <2>2. ~Breaker(o)
    BY <1>5 DEF Breaker
  <2>3. CASE LogFits
    <3>1. o.old # NoMeta => cached' = o.old /\ certain.row /\ o.alone /\ o.old.setting = LastSetting
      BY <1>4, <1>5, <1>10, <2>3 DEF LogFits
    <3>2. cached' # NoMeta => cached'.setting = LastSetting
      BY <1>10, <2>3, <3>1 DEF LogFits
    <3>3. \E b \in Tasks' : b.job = "update" /\ b.at \in {"read", "answer", "fetch"}
      BY <1>7, <1>8
    <3>4. certain.row => \A b \in Tasks' : b.at = "save" => b.meta.setting = LastSetting
      BY <1>4, <1>5, <1>7, <1>8, <2>3 DEF LogFits
    <3>5. certain.row /\ metaRow \in Metas => metaRow.setting = LastSetting \/ \E b \in Tasks' : b.at = "save"
      BY <1>4, <1>5, <1>7, <1>8, <2>3 DEF LogFits
    <3>6. \A b \in Tasks' :
            b.old # NoMeta /\ (b.at = "fetch" \/ (b.at = "answer" /\ b.alone /\ certain.row)) =>
              b.old.setting = LastSetting
      BY <1>4, <1>7, <1>8, <2>3, <3>1 DEF LogFits
    <3>7. LastSetting' = LastSetting
      BY <1>2 DEF LastSetting
    <3>8. LogFits'
      BY <1>2, <1>10, <3>2, <3>3, <3>4, <3>5, <3>6, <3>7, FitsIf
    <3> QED
      BY <2>1, <3>8
  <2> QED
    BY <1>4, <1>8, <2>1, <2>2, <2>3
<1> QED
  BY <1>8, <1>11, <1>12, <1>13, <1>14, <1>16, <1>17, <1>18 DEF GroupsIInv

\* The fallback puts into the cache what groups.update told, and waits to write it.
LEMMA FallBackKeeps ==
  ASSUME GroupsIInv, NEW i \in 1 .. Len(tasks), NEW o, o = tasks[i], o.at \in {"fetch", "failed"},
         o.job = "update", o.old # NoMeta,
         SaveGroupMetadata(i, Merge(o), "merged", FALSE), UNCHANGED <<group, notes, metaRow, settings, people, second>>
  PROVE  GroupsIInv'
<1>1. /\ GroupShape /\ TasksAlone /\ NotesTell /\ RecordsTell /\ WarmTells /\ UpdateTells
      /\ MetaKnown /\ RowKnown /\ LogKnown /\ PeopleKnown
  BY DEF GroupsIInv
<1>2. PICK R : R = Others(i)
  OBVIOUS
<1>3. /\ o \in GroupTasks /\ TaskOK(o) /\ Tasks = R \union {o}
      /\ \A u \in R : u \in GroupTasks /\ TaskOK(u)
      /\ o.job \notin {"warm", "warmed"} => \A u \in R : u.job = "warm" => ~u.alone
  BY <1>1, <1>2, AroundIs
<1>4. PICK m : m = Merge(o)
  OBVIOUS
<1>5. m \in Metas
  BY <1>3, <1>4 DEF Merge, Metas, GroupTasks, TaskOK, NoMeta
<1>6. PICK t : Become(i, t) /\ t = [o EXCEPT !.meta = m, !.at = "merged"]
  BY <1>4 DEF SaveGroupMetadata
<1>7. /\ t \in GroupTasks /\ GoesOnAs(o, t) /\ t.job = "update" /\ t.at = "merged" /\ t.old = o.old /\ t.meta = m
      /\ t.note = o.note
  BY <1>3, <1>5, <1>6 DEF GroupTasks, GoesOnAs
<1>8. TaskOK(t)
  BY <1>3, <1>5, <1>7 DEF TaskOK, GroupTasks
<1>9. /\ tasks' \in Seq(GroupTasks) /\ Tasks' = R \union {t} /\ TasksAlone'
      /\ \A b \in Tasks' : TaskOK(b)
  BY <1>1, <1>2, <1>6, <1>7, <1>8, TaskGoesOn
<1>10. /\ certain' \in [meta : BOOLEAN, row : BOOLEAN, log : BOOLEAN, people : SUBSET Members]
       /\ certain'.people = certain.people /\ ~certain'.meta /\ ~certain'.row
       /\ certain'.log => certain.log
       /\ cached' = m
  <2>1. certain \in [meta : BOOLEAN, row : BOOLEAN, log : BOOLEAN, people : SUBSET Members]
    BY <1>1 DEF GroupShape
  <2> QED
    BY <1>4, <2>1 DEF SaveGroupMetadata, Certain
<1>11. GroupShape'
  BY <1>1, <1>5, <1>9, <1>10 DEF GroupShape
<1>12. NotesTell' /\ RecordsTell' /\ PeopleKnown'
  BY <1>1, <1>3, <1>7, <1>9, <1>10, SidesStand
<1>13. WarmTells'
  BY <1>3, <1>7, <1>9 DEF WarmTells
<1>14. UpdateTells' /\ MetaKnown' /\ RowKnown'
  BY <1>10 DEF UpdateTells, MetaKnown, RowKnown
<1>15. LogKnown'
  <2>1. Breaker(t) /\ t \in Tasks'
    BY <1>7, <1>9 DEF Breaker
  <2> QED
    BY <1>1, <1>10, <2>1 DEF LogKnown
<1> QED
  BY <1>9, <1>11, <1>12, <1>13, <1>14, <1>15 DEF GroupsIInv

LEMMA RefreshedKeeps ==
  ASSUME GroupsIInv, NEW i \in 1 .. Len(tasks), NEW o, o = tasks[i], o.at = "fetch",
         SaveGroupMetadata(i, group, "save", TRUE), UNCHANGED <<group, notes, metaRow, settings, people, second>>
  PROVE  GroupsIInv'
<1>1. /\ GroupShape /\ TasksAlone /\ NotesTell /\ RecordsTell /\ WarmTells /\ UpdateTells
      /\ MetaKnown /\ RowKnown /\ LogKnown /\ PeopleKnown
  BY DEF GroupsIInv
<1>2. PICK R : R = Others(i)
  OBVIOUS
<1>3. /\ o \in GroupTasks /\ TaskOK(o) /\ Tasks = R \union {o}
      /\ \A u \in R : u \in GroupTasks /\ TaskOK(u)
      /\ o.job \notin {"warm", "warmed"} => \A u \in R : u.job = "warm" => ~u.alone
      /\ o.job # "request" => \A u \in R : u.job = "update" => ~u.alone
  BY <1>1, <1>2, AroundIs
<1>4. o.job \in {"update", "members"} /\ group \in Metas /\ (o.job = "members" => o.old = NoMeta)
  BY <1>1, <1>3 DEF TaskOK, GroupTasks, GroupShape
<1>5. PICK t : Become(i, t) /\ t = [o EXCEPT !.meta = group, !.at = "save"]
  BY DEF SaveGroupMetadata
<1>6. /\ t \in GroupTasks /\ GoesOnAs(o, t) /\ t.job = o.job /\ t.at = "save" /\ t.old = o.old /\ t.meta = group
      /\ t.note = o.note
  BY <1>3, <1>4, <1>5 DEF GroupTasks, GoesOnAs
<1>7. TaskOK(t)
  BY <1>3, <1>4, <1>6 DEF TaskOK, GroupTasks
<1>8. /\ tasks' \in Seq(GroupTasks) /\ Tasks' = R \union {t} /\ TasksAlone'
      /\ \A b \in Tasks' : TaskOK(b)
  BY <1>1, <1>2, <1>5, <1>6, <1>7, TaskGoesOn
<1>9. /\ certain' \in [meta : BOOLEAN, row : BOOLEAN, log : BOOLEAN, people : SUBSET Members]
      /\ certain'.people = certain.people
      /\ certain'.row => \A u \in R : u.at \notin {"answer", "save", "merged"}
      /\ certain'.log => certain.log /\ (o.old # NoMeta \/ group.setting = cached.setting)
      /\ cached' = group
  <2>1. certain \in [meta : BOOLEAN, row : BOOLEAN, log : BOOLEAN, people : SUBSET Members]
    BY <1>1 DEF GroupShape
  <2>2. {tasks[j].at : j \in (1 .. Len(tasks)) \ {i}} = {u.at : u \in R}
    BY <1>2 DEF Others
  <2> QED
    BY <2>1, <2>2 DEF SaveGroupMetadata, Certain
<1>10. GroupShape'
  BY <1>1, <1>4, <1>8, <1>9 DEF GroupShape
<1>11. NotesTell' /\ RecordsTell' /\ PeopleKnown'
  BY <1>1, <1>3, <1>6, <1>8, <1>9, SidesStand
<1>12. WarmTells'
  BY <1>3, <1>4, <1>6, <1>8 DEF WarmTells
<1>13. UpdateTells'
  BY <1>3, <1>4, <1>6, <1>8, <1>9 DEF UpdateTells
<1>14. MetaKnown'
  BY <1>9 DEF MetaKnown
<1>15. RowKnown'
  BY <1>6, <1>8, <1>9 DEF RowKnown
<1>16. LogKnown'
  <2> SUFFICES ASSUME certain'.log PROVE settings # <<>> /\ (LogFits' \/ \E b \in Tasks' : Breaker(b))
    BY DEF LogKnown
  <2>1. settings # <<>> /\ (LogFits \/ \E u \in Tasks : Breaker(u))
    BY <1>1, <1>9 DEF LogKnown
  <2>2. ~Breaker(o)
    BY DEF Breaker
  <2>3. CASE LogFits /\ o.old # NoMeta /\ o.old.setting # group.setting
    <3>1. Breaker(t)
      BY <1>4, <1>6, <2>3 DEF Breaker
    <3> QED
      BY <1>8, <2>1, <3>1
  <2>4. CASE LogFits /\ ~(o.old # NoMeta /\ o.old.setting # group.setting)
    <3>1. group.setting = LastSetting
      <4>1. CASE o.old # NoMeta
        BY <1>3, <2>4, <4>1 DEF LogFits
      <4>2. CASE o.old = NoMeta
        BY <1>4, <1>9, <2>4, <4>2, NoMetaIs DEF LogFits
      <4> QED
        BY <4>1, <4>2
    <3>2. certain'.row => \A b \in Tasks' : b.at = "save" => b.meta.setting = LastSetting
      BY <1>6, <1>8, <1>9, <3>1
    <3>3. \E b \in Tasks' : b.at = "save"
      BY <1>6, <1>8
    <3>4. \A b \in Tasks' :
            b.old # NoMeta /\ (b.at = "fetch" \/ (b.at = "answer" /\ b.alone /\ certain'.row)) =>
              b.old.setting = LastSetting
      BY <1>3, <1>6, <1>8, <1>9, <2>4 DEF LogFits
    <3>5. LastSetting' = LastSetting
      BY DEF LastSetting
    <3>6. LogFits'
      BY <1>9, <3>1, <3>2, <3>3, <3>4, <3>5, FitsIf
    <3> QED
      BY <2>1, <3>6
  <2> QED
    BY <1>3, <1>8, <2>1, <2>2, <2>3, <2>4
<1> QED
  BY <1>8, <1>10, <1>11, <1>12, <1>13, <1>14, <1>15, <1>16 DEF GroupsIInv

\* What is known of the settings log, where no groups.update goes on, and the row
\* stays or its loss is known.
LEMMA FitsStand ==
  ASSUME GroupShape, LogFits, UNCHANGED <<group, notes, cached, settings>>,
         NEW R, NEW o, Tasks = R \union {o}, R \subseteq Tasks', o.at \notin {"read", "answer", "fetch"} \/ o.job # "update",
         \A b \in Tasks' : b \notin R => b.old = NoMeta \/ b.at \notin {"fetch", "answer"},
         \A b \in Tasks' : b \notin R => b.at # "save" \/ ~certain'.row,
         certain'.row => certain.row,
         certain'.row => (o.at # "save" /\ UNCHANGED metaRow) \/ metaRow'.setting = LastSetting
  PROVE  LogFits'
<1>1. LastSetting' = LastSetting
  BY DEF LastSetting
<1>2. SettingNoted => SettingNoted'
  BY NotesStand
<1>3. \/ group'.setting = LastSetting \/ SettingNoted'
      \/ \E b \in Tasks' : b.job = "update" /\ b.at \in {"read", "answer", "fetch"}
  BY <1>2 DEF LogFits
<1>4. \A b \in Tasks' :
        b.old # NoMeta /\ (b.at = "fetch" \/ (b.at = "answer" /\ b.alone /\ certain'.row)) =>
          b.old.setting = LastSetting
  BY DEF LogFits
<1>5. certain'.row => \A b \in Tasks' : b.at = "save" => b.meta.setting = LastSetting
  BY DEF LogFits
<1>6. certain'.row /\ metaRow' \in Metas => metaRow'.setting = LastSetting \/ \E b \in Tasks' : b.at = "save"
  BY DEF LogFits
<1>7. cached' # NoMeta => cached'.setting = LastSetting
  BY DEF LogFits
<1> QED
  BY <1>1, <1>3, <1>4, <1>5, <1>6, <1>7, FitsIf

LEMMA RefreshKeeps == ASSUME GroupsIInv, NEW i \in 1 .. Len(tasks), Refresh(i) PROVE GroupsIInv'
<1>1. /\ GroupShape /\ TasksAlone /\ NotesTell /\ RecordsTell /\ WarmTells /\ UpdateTells
      /\ MetaKnown /\ RowKnown /\ LogKnown /\ PeopleKnown
  BY DEF GroupsIInv
<1>2. UNCHANGED <<group, notes, metaRow, settings, people, second>>
  BY DEF Refresh
<1>3. PICK o, R : o = tasks[i] /\ R = Others(i)
  OBVIOUS
<1>4. /\ o \in GroupTasks /\ TaskOK(o) /\ Tasks = R \union {o}
      /\ \A u \in R : u \in GroupTasks /\ TaskOK(u)
      /\ o.job \notin {"warm", "warmed"} => \A u \in R : u.job = "warm" => ~u.alone
  BY <1>1, <1>3, AroundIs
<1>5. o.at = "fetch" /\ o.job \in {"update", "members"}
  BY <1>3, <1>4 DEF Refresh, May, TaskOK, GroupTasks
<1>6. CASE SaveGroupMetadata(i, group, "save", TRUE)
  BY <1>2, <1>3, <1>5, <1>6, RefreshedKeeps
<1>7. CASE o.job = "update" /\ o.old # NoMeta /\ SaveGroupMetadata(i, Merge(o), "merged", FALSE)
  BY <1>2, <1>3, <1>5, <1>7, FallBackKeeps
<1>8. CASE /\ Ends(i) /\ UNCHANGED cached
           /\ certain' = [certain EXCEPT !.meta = FALSE, !.row = FALSE, !.log = @ /\ o.job # "update"]
  <2>1. /\ tasks' \in Seq(GroupTasks) /\ Tasks' = R /\ TasksAlone'
        /\ \A b \in Tasks' : TaskOK(b)
    BY <1>1, <1>3, <1>8, TaskEnds
  <2>2. /\ certain' \in [meta : BOOLEAN, row : BOOLEAN, log : BOOLEAN, people : SUBSET Members]
        /\ certain'.people = certain.people /\ ~certain'.meta /\ ~certain'.row
        /\ certain'.log => certain.log /\ o.job # "update"
    <3>1. certain \in [meta : BOOLEAN, row : BOOLEAN, log : BOOLEAN, people : SUBSET Members]
      BY <1>1 DEF GroupShape
    <3> QED
      BY <1>8, <3>1
  <2>3. GroupShape'
    BY <1>1, <1>2, <1>8, <2>1, <2>2 DEF GroupShape
  <2>4. NotesTell' /\ RecordsTell' /\ PeopleKnown'
    BY <1>1, <1>2, <1>4, <1>5, <2>1, <2>2, SidesStand
  <2>5. WarmTells'
    BY <1>4, <1>5, <2>1 DEF WarmTells
  <2>6. UpdateTells' /\ MetaKnown' /\ RowKnown'
    BY <2>2 DEF UpdateTells, MetaKnown, RowKnown
  <2>7. LogKnown'
    <3> SUFFICES ASSUME certain'.log PROVE settings # <<>> /\ (LogFits' \/ \E b \in Tasks' : Breaker(b))
      BY <1>2 DEF LogKnown
    <3>1. settings # <<>> /\ (LogFits \/ \E u \in Tasks : Breaker(u))
      BY <1>1, <2>2 DEF LogKnown
    <3>2. ~Breaker(o)
      BY <1>5 DEF Breaker
    <3>3. LogFits => LogFits'
      BY <1>1, <1>2, <1>4, <1>8, <2>1, <2>2, FitsStand
    <3> QED
      BY <1>4, <2>1, <3>1, <3>2, <3>3
  <2> QED
    BY <2>1, <2>3, <2>4, <2>5, <2>6, <2>7 DEF GroupsIInv
<1> QED
  BY <1>3, <1>6, <1>7, <1>8 DEF Refresh

\* The handler that has a change to log goes on to it; any other one ends.
Logs(b, o) == b.job = "update" /\ b.at = "log" /\ b.alone = o.alone /\ b.old = o.old /\ b.meta = o.meta

LEMMA CompareTakes ==
  ASSUME GroupShape, TasksAlone, NEW i \in 1 .. Len(tasks), NEW o, o = tasks[i], NEW R, R = Others(i),
         o.at \in {"save", "merged"}, Compare(i)
  PROVE  /\ tasks' \in Seq(GroupTasks) /\ TasksAlone' /\ \A b \in Tasks' : TaskOK(b)
         /\ R \subseteq Tasks' /\ \A b \in Tasks' : b \in R \/ (o.job = "update" /\ Logs(b, o))
         /\ o.job = "update" /\ o.old # NoMeta /\ o.old.setting # o.meta.setting => \E b \in Tasks' : Logs(b, o)
<1>1. o \in GroupTasks /\ TaskOK(o)
  BY AroundIs
<1>2. o.old \in Metas \union {NoMeta} /\ o.meta \in Metas
  BY <1>1 DEF GroupTasks, TaskOK
<1>3. ASSUME o.old \in Metas PROVE o.old # [o.old EXCEPT !.setting = o.meta.setting] <=> o.old.setting # o.meta.setting
  BY <1>3 DEF Metas
<1>4. CASE o.job = "update" /\ o.old \notin {NoMeta, [o.old EXCEPT !.setting = o.meta.setting]}
  <2>1. PICK t : Become(i, t) /\ t = [o EXCEPT !.at = "log"]
    BY <1>4 DEF Compare, Goes
  <2>2. t \in GroupTasks /\ GoesOnAs(o, t) /\ Logs(t, o) /\ t.note = o.note
    BY <1>1, <1>4, <2>1 DEF GroupTasks, GoesOnAs, Logs
  <2>3. o.old \in Metas /\ o.old.setting # o.meta.setting
    BY <1>2, <1>3, <1>4
  <2>4. TaskOK(t)
    BY <1>1, <1>2, <1>4, <2>2, <2>3 DEF TaskOK, Logs
  <2>5. /\ tasks' \in Seq(GroupTasks) /\ Tasks' = R \union {t} /\ TasksAlone'
        /\ \A b \in Tasks' : TaskOK(b)
    BY <2>1, <2>2, <2>4, TaskGoesOn
  <2> QED
    BY <1>4, <2>2, <2>5
<1>5. CASE ~(o.job = "update" /\ o.old \notin {NoMeta, [o.old EXCEPT !.setting = o.meta.setting]})
  <2>1. Ends(i)
    BY <1>5 DEF Compare
  <2>2. /\ tasks' \in Seq(GroupTasks) /\ Tasks' = R /\ TasksAlone'
        /\ \A b \in Tasks' : TaskOK(b)
    BY <2>1, TaskEnds
  <2>3. ~(o.job = "update" /\ o.old # NoMeta /\ o.old.setting # o.meta.setting)
    BY <1>2, <1>3, <1>5
  <2> QED
    BY <2>2, <2>3
<1> QED
  BY <1>4, <1>5

\* The row is written.
LEMMA SavedKeeps ==
  ASSUME GroupsIInv, NEW i \in 1 .. Len(tasks), NEW o, o = tasks[i], o.at = "save", metaRow' = o.meta, Compare(i),
         UNCHANGED <<group, notes, cached, settings, people, second, certain>>
  PROVE  GroupsIInv'
<1>1. /\ GroupShape /\ TasksAlone /\ NotesTell /\ RecordsTell /\ WarmTells /\ UpdateTells
      /\ MetaKnown /\ RowKnown /\ LogKnown /\ PeopleKnown
  BY DEF GroupsIInv
<1>2. PICK R : R = Others(i)
  OBVIOUS
<1>3. /\ o \in GroupTasks /\ TaskOK(o) /\ Tasks = R \union {o}
      /\ \A u \in R : u \in GroupTasks /\ TaskOK(u)
      /\ o.job # "request" => \A u \in R : u.job = "update" => ~u.alone
  BY <1>1, <1>2, AroundIs
<1>4. o.job \notin {"warm", "request"} /\ o.meta \in Metas
  BY <1>3 DEF TaskOK
<1>5. /\ tasks' \in Seq(GroupTasks) /\ TasksAlone' /\ \A b \in Tasks' : TaskOK(b)
      /\ R \subseteq Tasks' /\ \A b \in Tasks' : b \in R \/ (o.job = "update" /\ Logs(b, o))
      /\ o.job = "update" /\ o.old # NoMeta /\ o.old.setting # o.meta.setting => \E b \in Tasks' : Logs(b, o)
  BY <1>1, <1>2, CompareTakes
<1>6. GroupShape'
  BY <1>1, <1>4, <1>5 DEF GroupShape
<1>7. NotesTell' /\ RecordsTell' /\ PeopleKnown'
  <2>1. \A b \in Tasks' : b \notin R => b.at # "record"
    BY <1>5 DEF Logs
  <2> QED
    BY <1>1, <1>3, <1>5, <2>1, SidesStand
<1>8. RefreshToCome => RefreshToCome'
  BY <1>3, <1>4, <1>5 DEF RefreshToCome, Refreshes
<1>9. WarmTells'
  <2> SUFFICES ASSUME NEW b \in Tasks', b.job = "warm", b.alone
               PROVE  /\ b.meta.setting = group'.setting \/ SettingNoted'
                      /\ \A p \in Members : (p \in b.meta.members <=> p \in group'.members) \/ PersonNoted(p, 0)'
                      /\ b.at # "loop" =>
                           /\ cached' \in {NoMeta, b.meta}
                           /\ \A u \in Tasks' : u.at = "save" => u.meta = b.meta
                           /\ certain'.row => metaRow' = b.meta \/ \E u \in Tasks' : u.at = "save"
    BY DEF WarmTells
  <2>1. b \in Tasks
    BY <1>3, <1>5 DEF Logs
  <2>2. /\ b.meta.setting = group.setting \/ SettingNoted
        /\ \A p \in Members : (p \in b.meta.members <=> p \in group.members) \/ PersonNoted(p, 0)
        /\ b.at # "loop" => cached \in {NoMeta, b.meta} /\ \A u \in Tasks : u.at = "save" => u.meta = b.meta
    BY <1>1, <2>1 DEF WarmTells
  <2>3. b.at # "loop" => metaRow' = b.meta
    BY <1>3, <2>2
  <2>4. \A u \in Tasks' : u.at = "save" => u \in Tasks
    BY <1>3, <1>5 DEF Logs
  <2>5. (SettingNoted => SettingNoted') /\ \A p : PersonNoted(p, 0) => PersonNoted(p, 0)'
    BY NotesStand
  <2> QED
    BY <2>2, <2>3, <2>4, <2>5
<1>10. UpdateTells'
  <2> SUFFICES ASSUME NEW b \in Tasks', b.job = "update", b.alone, certain.meta
               PROVE  /\ b.at # "merged"
                      /\ b.at \in {"save", "log"} =>
                           /\ cached' \in {NoMeta, b.meta}
                           /\ b.meta.setting = group'.setting \/ SettingNoted'
                           /\ b.at = "log" /\ certain'.row => metaRow' = b.meta
    BY DEF UpdateTells
  <2>1. o.job = "update" /\ Logs(b, o)
    BY <1>3, <1>4, <1>5
  <2>2. cached \in {NoMeta, o.meta} /\ (o.meta.setting = group.setting \/ SettingNoted)
    BY <1>1, <1>3, <2>1 DEF UpdateTells, Logs
  <2> QED
    BY <2>1, <2>2, NotesStand DEF Logs
<1>11. MetaKnown'
  BY <1>1, <1>8 DEF MetaKnown
<1>12. RowKnown'
  <2> SUFFICES ASSUME certain.row
               PROVE  /\ \A b \in Tasks' : b.at # "merged"
                      /\ \/ RefreshToCome'
                         \/ /\ \A b \in Tasks' : b.at = "save" => b.meta = group
                            /\ metaRow' = group \/ \E b \in Tasks' : b.at = "save"
    BY DEF RowKnown
  <2>1. \A b \in Tasks' : b.at \in {"merged", "save"} => b \in Tasks
    BY <1>3, <1>5 DEF Logs
  <2> QED
    BY <1>1, <1>3, <1>8, <2>1 DEF RowKnown
<1>13. LogKnown'
  <2> SUFFICES ASSUME certain.log PROVE settings # <<>> /\ (LogFits' \/ \E b \in Tasks' : Breaker(b))
    BY DEF LogKnown
  <2>1. settings # <<>> /\ (LogFits \/ \E u \in Tasks : Breaker(u))
    BY <1>1 DEF LogKnown
  <2>2. Breaker(o) => \E b \in Tasks' : Breaker(b)
    BY <1>5 DEF Breaker, Logs
  <2>3. ASSUME LogFits PROVE LogFits'
    <3>1. certain'.row => metaRow'.setting = LastSetting
      BY <1>3, <2>3 DEF LogFits
    <3>2. \A b \in Tasks' : b \notin R => b.at = "log"
      BY <1>5 DEF Logs
    <3> QED
      BY <1>1, <1>3, <1>5, <2>3, <3>1, <3>2, FitsStand
  <2> QED
    BY <1>3, <1>5, <2>1, <2>2, <2>3
<1> QED
  BY <1>5, <1>6, <1>7, <1>9, <1>10, <1>11, <1>12, <1>13 DEF GroupsIInv

\* A row is lost: its handler ends, with the warm-up if SQLITE threw it there, or falls back.
LEMMA UnsavedKeeps ==
  ASSUME GroupsIInv, NEW R, NEW o, o \in GroupTasks, TaskOK(o), Tasks = R \union {o}, o.at = "save",
         certain' = [certain EXCEPT !.row = FALSE, !.log = @ /\ o.job # "update"],
         UNCHANGED <<group, notes, cached, metaRow, settings, people, second>>,
         tasks' \in Seq(GroupTasks), TasksAlone', \A b \in Tasks' : TaskOK(b),
         \A b \in Tasks' : b \in R \/ (o.job = "update" /\ b.job = "update" /\ b.at = "failed"),
         \A u \in R : u \in Tasks' \/ u.job = "warm"
  PROVE  GroupsIInv'
<1>1. /\ GroupShape /\ TasksAlone /\ NotesTell /\ RecordsTell /\ WarmTells /\ UpdateTells
      /\ MetaKnown /\ RowKnown /\ LogKnown /\ PeopleKnown
  BY DEF GroupsIInv
<1>2. \A u \in R : u \in GroupTasks /\ TaskOK(u)
  BY <1>1, TaskIs
<1>3. \A u \in R : u.at \in {"record", "read", "answer", "fetch"} => u \in Tasks'
  BY <1>2 DEF TaskOK
<1>4. /\ certain' \in [meta : BOOLEAN, row : BOOLEAN, log : BOOLEAN, people : SUBSET Members]
      /\ certain'.people = certain.people /\ certain'.meta = certain.meta /\ ~certain'.row
      /\ certain'.log => certain.log /\ o.job # "update"
  <2>1. certain \in [meta : BOOLEAN, row : BOOLEAN, log : BOOLEAN, people : SUBSET Members]
    BY <1>1 DEF GroupShape
  <2> QED
    BY <2>1
<1>5. GroupShape'
  BY <1>1, <1>4 DEF GroupShape
<1>6. NotesTell' /\ RecordsTell' /\ PeopleKnown'
  BY <1>1, <1>3, <1>4, SidesStand
<1>7. RefreshToCome => RefreshToCome'
  BY <1>3 DEF RefreshToCome, Refreshes
<1>8. WarmTells'
  <2> SUFFICES ASSUME NEW b \in Tasks', b.job = "warm", b.alone
               PROVE  /\ b.meta.setting = group'.setting \/ SettingNoted'
                      /\ \A p \in Members : (p \in b.meta.members <=> p \in group'.members) \/ PersonNoted(p, 0)'
                      /\ b.at # "loop" =>
                           /\ cached' \in {NoMeta, b.meta}
                           /\ \A u \in Tasks' : u.at = "save" => u.meta = b.meta
    BY <1>4 DEF WarmTells
  <2>1. /\ b.meta.setting = group.setting \/ SettingNoted
        /\ \A p \in Members : (p \in b.meta.members <=> p \in group.members) \/ PersonNoted(p, 0)
        /\ b.at # "loop" => cached \in {NoMeta, b.meta} /\ \A u \in Tasks : u.at = "save" => u.meta = b.meta
    BY <1>1 DEF WarmTells
  <2>2. (SettingNoted => SettingNoted') /\ \A p : PersonNoted(p, 0) => PersonNoted(p, 0)'
    BY NotesStand
  <2> QED
    BY <2>1, <2>2
<1>9. UpdateTells'
  <2> SUFFICES ASSUME NEW b \in Tasks', b.job = "update", b.alone, certain.meta
               PROVE  /\ b.at # "merged"
                      /\ b.at \in {"save", "log"} =>
                           /\ cached' \in {NoMeta, b.meta}
                           /\ b.meta.setting = group'.setting \/ SettingNoted'
    BY <1>4 DEF UpdateTells
  <2>1. b \in Tasks \/ b.at = "failed"
    OBVIOUS
  <2> QED
    BY <1>1, <2>1, NotesStand DEF UpdateTells
<1>10. MetaKnown'
  BY <1>1, <1>4, <1>7 DEF MetaKnown
<1>11. RowKnown'
  BY <1>4 DEF RowKnown
<1>12. LogKnown'
  <2> SUFFICES ASSUME certain'.log PROVE settings # <<>> /\ (LogFits' \/ \E b \in Tasks' : Breaker(b))
    BY DEF LogKnown
  <2>1. settings # <<>> /\ (LogFits \/ \E u \in Tasks : Breaker(u)) /\ o.job # "update"
    BY <1>1, <1>4 DEF LogKnown
  <2>2. \A u \in Tasks : Breaker(u) => u \in Tasks'
    BY <2>1 DEF Breaker
  <2>3. ASSUME LogFits PROVE LogFits'
    <3>1. LastSetting' = LastSetting
      BY DEF LastSetting
    <3>2. \/ group'.setting = LastSetting \/ SettingNoted'
          \/ \E b \in Tasks' : b.job = "update" /\ b.at \in {"read", "answer", "fetch"}
      BY <1>3, <2>3, NotesStand DEF LogFits
    <3>3. \A b \in Tasks' : b.old # NoMeta /\ b.at = "fetch" => b.old.setting = LastSetting
      BY <2>3 DEF LogFits
    <3>4. cached' # NoMeta => cached'.setting = LastSetting
      BY <2>3 DEF LogFits
    <3> QED
      BY <1>4, <3>1, <3>2, <3>3, <3>4, FitsIf
  <2> QED
    BY <2>1, <2>2, <2>3
<1> QED
  BY <1>5, <1>6, <1>8, <1>9, <1>10, <1>11, <1>12 DEF GroupsIInv

\* Two tasks end at once.
LEMMA TwoEnd ==
  ASSUME GroupShape, TasksAlone, NEW i \in 1 .. Len(tasks), NEW j \in 1 .. i - 1,
         tasks' = RemoveAt(RemoveAt(tasks, i), j)
  PROVE  /\ tasks' \in Seq(GroupTasks) /\ TasksAlone' /\ Tasks' \subseteq Others(i)
         /\ \A u \in Others(i) : u \in Tasks' \/ u = tasks[j]
<1>1. Len(tasks) \in Nat /\ tasks \in Seq(GroupTasks)
  BY LenProperties DEF GroupShape
<1>2. PICK s : s = RemoveAt(tasks, i)
  OBVIOUS
<1>3. /\ s \in Seq(GroupTasks) /\ Len(s) = Len(tasks) - 1
      /\ \A x \in 1 .. Len(tasks) - 1 : s[x] = tasks[From(i, x)]
  BY <1>1, <1>2, TakenOut DEF From
<1>4. j \in 1 .. Len(s)
  BY <1>1, <1>3
<1>5. /\ tasks' \in Seq(GroupTasks) /\ Len(tasks') = Len(tasks) - 2
      /\ \A x \in 1 .. Len(tasks) - 2 : tasks'[x] = s[From(j, x)]
  <2>1. tasks' = RemoveAt(s, j)
    BY <1>2
  <2>2. /\ RemoveAt(s, j) \in Seq(GroupTasks) /\ Len(RemoveAt(s, j)) = Len(s) - 1
        /\ \A x \in 1 .. Len(s) - 1 : RemoveAt(s, j)[x] = IF x < j THEN s[x] ELSE s[x + 1]
    BY <1>3, <1>4, TakenOut
  <2>3. Len(s) - 1 = Len(tasks) - 2
    BY <1>1, <1>3
  <2>4. \A x \in 1 .. Len(tasks) - 2 : RemoveAt(s, j)[x] = s[From(j, x)]
    BY <2>2, <2>3 DEF From
  <2> QED
    BY <2>1, <2>2, <2>3, <2>4
<1>6. \A x \in 1 .. Len(tasks') : From(j, x) \in 1 .. Len(tasks) - 1
  BY <1>1, <1>5 DEF From
<1>7. \A x \in 1 .. Len(tasks) - 1 : From(i, x) \in (1 .. Len(tasks)) \ {i}
  BY <1>1 DEF From
<1> DEFINE f == [x \in 1 .. Len(tasks') |-> From(i, From(j, x))]
<1>8. \A x \in 1 .. Len(tasks') : f[x] \in (1 .. Len(tasks)) \ {i} /\ tasks'[x] = tasks[f[x]]
  BY <1>3, <1>5, <1>6, <1>7
<1>9. \A x, y \in 1 .. Len(tasks') : x # y => f[x] # f[y]
  BY <1>1, <1>5 DEF From
<1>10. ASSUME NEW k \in (1 .. Len(tasks)) \ {i}, k # j PROVE \E x \in 1 .. Len(tasks') : f[x] = k
  <2> DEFINE y == IF k < i THEN k ELSE k - 1
             x == IF y < j THEN y ELSE y - 1
  <2>1. y \in 1 .. Len(tasks) - 1 /\ From(i, y) = k /\ y # j
    BY <1>1, <1>10 DEF From
  <2>2. x \in 1 .. Len(tasks') /\ From(j, x) = y
    BY <1>1, <1>5, <2>1 DEF From
  <2> QED
    BY <2>1, <2>2
<1> HIDE DEF f
<1>11. Tasks' \subseteq Others(i)
  BY <1>8 DEF Tasks, Others
<1>12. \A u \in Others(i) : u \in Tasks' \/ u = tasks[j]
  <2> SUFFICES ASSUME NEW k \in (1 .. Len(tasks)) \ {i}, k # j PROVE tasks[k] \in Tasks'
    BY DEF Others
  <2>1. PICK x \in 1 .. Len(tasks') : f[x] = k
    BY <1>10
  <2> QED
    BY <1>8, <2>1 DEF Tasks
<1>13. ASSUME NEW x \in 1 .. Len(tasks'), NEW u \in Others(x)', tasks'[x].alone, tasks'[x].job # "warmed"
       PROVE  Unmet(tasks'[x], u) /\ tasks'[x].at # "loop"
  <2>1. PICK y \in (1 .. Len(tasks')) \ {x} : u = tasks'[y]
    BY DEF Others
  <2>2. tasks[f[y]] \in Others(f[x])
    BY <1>8, <1>9, <2>1 DEF Others
  <2> QED
    BY <1>8, <1>13, <2>1, <2>2 DEF TasksAlone
<1> QED
  BY <1>5, <1>11, <1>12, <1>13 DEF TasksAlone

LEMMA SaveKeeps == ASSUME GroupsIInv, NEW i \in 1 .. Len(tasks), Save(i) PROVE GroupsIInv'
<1>1. GroupShape /\ TasksAlone
  BY DEF GroupsIInv
<1>2. UNCHANGED <<group, notes, cached, settings, people, second>>
  BY DEF Save
<1>3. PICK o, R : o = tasks[i] /\ R = Others(i)
  OBVIOUS
<1>4. /\ o \in GroupTasks /\ TaskOK(o) /\ Tasks = R \union {o}
      /\ \A u \in R : u \in GroupTasks /\ TaskOK(u)
  BY <1>1, <1>3, AroundIs
<1>5. o.at = "save"
  BY <1>3 DEF Save, May
<1>6. CASE metaRow' = o.meta /\ Compare(i) /\ UNCHANGED certain
  BY <1>2, <1>3, <1>5, <1>6, SavedKeeps
<1>7. CASE /\ certain' = [certain EXCEPT !.row = FALSE, !.log = @ /\ o.job # "update"]
           /\ UNCHANGED metaRow
           /\ \/ o.job = "update" /\ o.old # NoMeta /\ Goes(i, "failed")
              \/ \E j \in 1 .. i - 1 : tasks[j].job = "warm" /\ tasks' = RemoveAt(RemoveAt(tasks, i), j)
              \/ Ends(i)
  <2>1. CASE o.job = "update" /\ o.old # NoMeta /\ Goes(i, "failed")
    <3>1. PICK t : Become(i, t) /\ t = [o EXCEPT !.at = "failed"]
      BY <1>3, <2>1 DEF Goes
    <3>2. /\ t \in GroupTasks /\ GoesOnAs(o, t) /\ t.job = "update" /\ t.at = "failed" /\ t.note = o.note
          /\ t.old = o.old /\ t.meta = o.meta
      BY <1>4, <2>1, <3>1 DEF GroupTasks, GoesOnAs
    <3>3. TaskOK(t)
      BY <1>4, <1>5, <2>1, <3>2 DEF TaskOK, GroupTasks
    <3>4. /\ tasks' \in Seq(GroupTasks) /\ Tasks' = R \union {t} /\ TasksAlone'
          /\ \A b \in Tasks' : TaskOK(b)
      BY <1>1, <1>3, <3>1, <3>2, <3>3, TaskGoesOn
    <3> QED
      BY <1>2, <1>4, <1>5, <1>7, <2>1, <3>2, <3>4, UnsavedKeeps
  <2>2. ASSUME NEW j \in 1 .. i - 1, tasks[j].job = "warm", tasks' = RemoveAt(RemoveAt(tasks, i), j)
        PROVE  GroupsIInv'
    <3>1. /\ tasks' \in Seq(GroupTasks) /\ TasksAlone' /\ Tasks' \subseteq R
          /\ \A u \in R : u \in Tasks' \/ u = tasks[j]
      BY <1>1, <1>3, <2>2, TwoEnd
    <3> QED
      BY <1>2, <1>4, <1>5, <1>7, <2>2, <3>1, UnsavedKeeps
  <2>3. CASE Ends(i)
    <3>1. /\ tasks' \in Seq(GroupTasks) /\ Tasks' = R /\ TasksAlone'
          /\ \A b \in Tasks' : TaskOK(b)
      BY <1>1, <1>3, <2>3, TaskEnds
    <3> QED
      BY <1>2, <1>4, <1>5, <1>7, <3>1, UnsavedKeeps
  <2> QED
    BY <1>7, <2>1, <2>2, <2>3
<1>8. \/ metaRow' = o.meta /\ Compare(i) /\ UNCHANGED certain
      \/ /\ certain' = [certain EXCEPT !.row = FALSE, !.log = @ /\ o.job # "update"]
         /\ UNCHANGED metaRow
         /\ \/ o.job = "update" /\ o.old # NoMeta /\ Goes(i, "failed")
            \/ \E j \in 1 .. i - 1 : tasks[j].job = "warm" /\ tasks' = RemoveAt(RemoveAt(tasks, i), j)
            \/ Ends(i)
  BY <1>3 DEF Save
<1> QED
  BY <1>6, <1>7, <1>8

LEMMA SaveMergedKeeps == ASSUME GroupsIInv, NEW i \in 1 .. Len(tasks), SaveMerged(i) PROVE GroupsIInv'
<1>1. /\ GroupShape /\ TasksAlone /\ NotesTell /\ RecordsTell /\ WarmTells /\ UpdateTells
      /\ MetaKnown /\ RowKnown /\ LogKnown /\ PeopleKnown
  BY DEF GroupsIInv
<1>2. UNCHANGED <<group, notes, cached, settings, people, second>>
  BY DEF SaveMerged
<1>3. PICK o, R : o = tasks[i] /\ R = Others(i)
  OBVIOUS
<1>4. /\ o \in GroupTasks /\ TaskOK(o) /\ Tasks = R \union {o}
      /\ \A u \in R : u \in GroupTasks /\ TaskOK(u)
      /\ o.job \notin {"warm", "warmed"} => \A u \in R : u.job = "warm" => ~u.alone
      /\ o.job # "request" => \A u \in R : u.job = "update" => ~u.alone
  BY <1>1, <1>3, AroundIs
<1>5. o.at = "merged" /\ o.job = "update" /\ o.meta \in Metas
  BY <1>3, <1>4 DEF SaveMerged, May, TaskOK, GroupTasks
<1>6. /\ tasks' \in Seq(GroupTasks) /\ TasksAlone' /\ \A b \in Tasks' : TaskOK(b)
      /\ R \subseteq Tasks' /\ \A b \in Tasks' : b \in R \/ Logs(b, o)
  <2>1. CASE Ends(i)
    BY <1>1, <1>3, <2>1, TaskEnds
  <2>2. CASE Compare(i)
    BY <1>1, <1>3, <1>5, <2>2, CompareTakes
  <2> QED
    BY <2>1, <2>2 DEF SaveMerged
<1>7. /\ certain' \in [meta : BOOLEAN, row : BOOLEAN, log : BOOLEAN, people : SUBSET Members]
      /\ certain'.people = certain.people /\ certain'.meta = certain.meta /\ certain'.row = certain.row /\ ~certain'.log
  <2>1. certain \in [meta : BOOLEAN, row : BOOLEAN, log : BOOLEAN, people : SUBSET Members]
    BY <1>1 DEF GroupShape
  <2> QED
    BY <2>1 DEF SaveMerged
<1>8. metaRow' \in Metas \union {NoMeta}
  BY <1>1, <1>3, <1>5 DEF SaveMerged, GroupShape
<1>9. GroupShape'
  BY <1>1, <1>2, <1>6, <1>7, <1>8 DEF GroupShape
<1>10. NotesTell' /\ RecordsTell' /\ PeopleKnown'
  <2>1. \A b \in Tasks' : b \notin R => b.at # "record"
    BY <1>6 DEF Logs
  <2> QED
    BY <1>1, <1>2, <1>4, <1>5, <1>6, <1>7, <2>1, SidesStand
<1>11. ~certain.row /\ (o.alone => ~certain.meta)
  BY <1>1, <1>4, <1>5 DEF RowKnown, UpdateTells
<1>12. WarmTells'
  BY <1>4, <1>5, <1>6 DEF WarmTells, Logs
<1>13. UpdateTells'
  BY <1>4, <1>5, <1>6, <1>7, <1>11 DEF UpdateTells, Logs
<1>14. RefreshToCome => RefreshToCome'
  BY <1>2, <1>4, <1>5, <1>6 DEF RefreshToCome, Refreshes
<1>15. MetaKnown'
  BY <1>1, <1>2, <1>7, <1>14 DEF MetaKnown
<1>16. RowKnown' /\ LogKnown'
  BY <1>7, <1>11 DEF RowKnown, LogKnown
<1> QED
  BY <1>6, <1>9, <1>10, <1>12, <1>13, <1>15, <1>16 DEF GroupsIInv

\* A change appended to the settings log.
LEMMA SettingAdded ==
  ASSUME GroupShape, NEW old \in -1 .. MaxSetting, NEW new \in Settings, old # new,
         settings' = RecordGroupSettingsChange(old, new)
  PROVE  /\ settings' \in Seq((-1 .. MaxSetting) \X Settings) /\ settings' # <<>> /\ settings' # settings
         /\ \A k \in 1 .. Len(settings') : settings'[k][1] # settings'[k][2]
         /\ LastSetting' = new
<1> DEFINE S == (-1 .. MaxSetting) \X Settings
<1>1. settings \in Seq(S) /\ Len(settings) \in Nat /\ <<old, new>> \in S
  BY LenProperties DEF GroupShape
<1>2. settings' = Append(settings, <<old, new>>)
  BY DEF RecordGroupSettingsChange
<1>3. /\ settings' \in Seq(S) /\ Len(settings') = Len(settings) + 1
      /\ settings'[Len(settings) + 1] = <<old, new>>
      /\ \A k \in 1 .. Len(settings) : settings'[k] = settings[k]
  BY <1>1, <1>2, AppendProperties
<1>4. settings' # <<>> /\ settings' # settings
  BY <1>1, <1>3, EmptySeq
<1>5. ASSUME NEW k \in 1 .. Len(settings') PROVE settings'[k][1] # settings'[k][2]
  <2>1. CASE k \in 1 .. Len(settings)
    BY <1>3, <2>1 DEF GroupShape
  <2>2. CASE k = Len(settings) + 1
    BY <1>3, <2>2
  <2> QED
    BY <1>1, <1>3, <2>1, <2>2
<1>6. LastSetting' = new
  BY <1>3 DEF LastSetting
<1> QED
  BY <1>3, <1>4, <1>5, <1>6

LEMMA LogSettingKeeps == ASSUME GroupsIInv, NEW i \in 1 .. Len(tasks), LogSetting(i) PROVE GroupsIInv'
<1>1. /\ GroupShape /\ TasksAlone /\ NotesTell /\ RecordsTell /\ WarmTells /\ UpdateTells
      /\ MetaKnown /\ RowKnown /\ LogKnown /\ PeopleKnown
  BY DEF GroupsIInv
<1>2. UNCHANGED <<group, notes, cached, metaRow, people, second>> /\ Ends(i)
  BY DEF LogSetting
<1>3. PICK o, R : o = tasks[i] /\ R = Others(i)
  OBVIOUS
<1>4. /\ o \in GroupTasks /\ TaskOK(o) /\ Tasks = R \union {o}
      /\ \A u \in R : u \in GroupTasks /\ TaskOK(u)
      /\ o.job \notin {"warm", "warmed"} => \A u \in R : u.job = "warm" => ~u.alone
      /\ o.job # "request" => \A u \in R : u.job = "update" => ~u.alone
      /\ o.alone /\ o.job \in {"update", "row"} => \A u \in R : u.job = "request" /\ u.at = "record"
  BY <1>1, <1>3, AroundIs
<1>5. o.at = "log" /\ o.job = "update" /\ o.meta \in Metas /\ o.old \in Metas /\ o.old.setting # o.meta.setting
  BY <1>3, <1>4 DEF LogSetting, May, TaskOK, GroupTasks
<1>6. PICK old, new : old = o.old.setting /\ new = o.meta.setting
  OBVIOUS
<1>7. old \in -1 .. MaxSetting /\ new \in Settings /\ old # new
  BY <1>5, <1>6, GroupsAssumption DEF Metas, Settings
<1>8. /\ tasks' \in Seq(GroupTasks) /\ Tasks' = R /\ TasksAlone'
      /\ \A b \in Tasks' : TaskOK(b)
  BY <1>1, <1>2, <1>3, TaskEnds
<1>9. /\ settings' = RecordGroupSettingsChange(old, new) \/ UNCHANGED settings
      /\ certain' = [certain EXCEPT !.log = o.alone /\ certain.meta /\ settings' # settings]
  BY <1>3, <1>6 DEF LogSetting
<1>10. /\ settings' \in Seq((-1 .. MaxSetting) \X Settings)
       /\ \A k \in 1 .. Len(settings') : settings'[k][1] # settings'[k][2]
       /\ settings' # settings => settings' # <<>> /\ LastSetting' = new
  <2>1. CASE settings' = RecordGroupSettingsChange(old, new)
    BY <1>1, <1>7, <2>1, SettingAdded
  <2>2. CASE UNCHANGED settings
    BY <1>1, <2>2 DEF GroupShape
  <2> QED
    BY <1>9, <2>1, <2>2
<1>11. /\ certain' \in [meta : BOOLEAN, row : BOOLEAN, log : BOOLEAN, people : SUBSET Members]
       /\ certain'.people = certain.people /\ certain'.meta = certain.meta /\ certain'.row = certain.row
       /\ certain'.log => o.alone /\ certain.meta /\ settings' # settings
  <2>1. certain \in [meta : BOOLEAN, row : BOOLEAN, log : BOOLEAN, people : SUBSET Members] /\ o.alone \in BOOLEAN
    BY <1>1, <1>4 DEF GroupShape, GroupTasks
  <2> QED
    BY <1>9, <2>1
<1>12. GroupShape'
  BY <1>1, <1>2, <1>8, <1>10, <1>11 DEF GroupShape
<1>13. NotesTell' /\ RecordsTell' /\ PeopleKnown'
  BY <1>1, <1>2, <1>4, <1>5, <1>8, <1>11, SidesStand
<1>14. WarmTells'
  BY <1>4, <1>5, <1>8 DEF WarmTells
<1>15. UpdateTells'
  BY <1>4, <1>5, <1>8 DEF UpdateTells
<1>16. RefreshToCome => RefreshToCome'
  BY <1>2, <1>4, <1>5, <1>8 DEF RefreshToCome, Refreshes
<1>17. MetaKnown'
  BY <1>1, <1>2, <1>11, <1>16 DEF MetaKnown
<1>18. RowKnown'
  BY <1>1, <1>2, <1>4, <1>5, <1>8, <1>11, <1>16 DEF RowKnown
<1>19. LogKnown'
  <2> SUFFICES ASSUME certain'.log PROVE settings' # <<>> /\ LogFits'
    BY DEF LogKnown
  <2>1. o.alone /\ certain.meta /\ settings' # <<>> /\ LastSetting' = new
    BY <1>10, <1>11
  <2>2. /\ cached \in {NoMeta, o.meta}
        /\ new = group.setting \/ SettingNoted
        /\ certain.row => metaRow = o.meta
    BY <1>1, <1>4, <1>5, <1>6, <2>1 DEF UpdateTells
  <2>3. \A u \in Tasks' : u.at = "record" /\ u.old = NoMeta
    BY <1>4, <1>5, <1>8, <2>1 DEF TaskOK
  <2>4. SettingNoted => SettingNoted'
    BY <1>2, NotesStand
  <2>5. LogFits'
    BY <1>2, <1>6, <1>11, <2>1, <2>2, <2>3, <2>4, FitsIf
  <2> QED
    BY <2>1, <2>5
<1> QED
  BY <1>8, <1>12, <1>13, <1>14, <1>15, <1>17, <1>18, <1>19 DEF GroupsIInv

\* Rows of others do not change who someone is.
LEMMA OthersRows ==
  ASSUME UNCHANGED group, NEW p, people \subseteq people', \A r \in people' : r.who = p => r \in people
  PROVE  PersonTold(p) => PersonTold(p)'
<1>1. Latest(p)' = Latest(p)
  BY DEF Latest
<1> QED
  BY <1>1 DEF PersonTold

LEMMA RecordKeeps == ASSUME GroupsIInv, NEW i \in 1 .. Len(tasks), Record(i) PROVE GroupsIInv'
<1>1. /\ GroupShape /\ TasksAlone /\ NotesTell /\ RecordsTell /\ WarmTells /\ UpdateTells
      /\ MetaKnown /\ RowKnown /\ LogKnown /\ PeopleKnown
  BY DEF GroupsIInv
<1>2. UNCHANGED <<group, notes, cached, metaRow, settings, second>>
  BY DEF Record
<1>3. PICK o, R : o = tasks[i] /\ R = Others(i)
  OBVIOUS
<1>4. /\ o \in GroupTasks /\ TaskOK(o) /\ Tasks = R \union {o}
      /\ \A u \in R : u \in GroupTasks /\ TaskOK(u)
      /\ o.job \notin {"warm", "warmed"} => \A u \in R : u.job = "warm" => ~u.alone
  BY <1>1, <1>3, AroundIs
<1>5. o.at = "record" /\ o.job \in {"members", "request"} /\ o.note \in PersonRows /\ o.old = NoMeta
  BY <1>3, <1>4 DEF Record, May, TaskOK, GroupTasks
<1>6. PICK row, who : row = o.note /\ who = row.who
  OBVIOUS
<1>7. row \in PersonRows /\ who \in Members /\ Row(who, row.action, row.ts) = row
  BY <1>5, <1>6 DEF PersonRows, Row
<1>8. /\ tasks' \in Seq(GroupTasks) /\ TasksAlone' /\ R \subseteq Tasks'
      /\ \A b \in Tasks' : TaskOK(b)
      /\ \A b \in Tasks' : b \in R \/ (b.job = "members" /\ b.at = "fetch" /\ b.old = NoMeta)
      /\ o.job = "members" => \E b \in Tasks' : b.at = "fetch"
  <2>1. CASE o.job = "members"
    <3>1. PICK t : Become(i, t) /\ t = [o EXCEPT !.at = "fetch"]
      BY <1>3, <2>1 DEF Record, Goes
    <3>2. t \in GroupTasks /\ GoesOnAs(o, t) /\ TaskOK(t) /\ t.job = "members" /\ t.at = "fetch" /\ t.old = NoMeta
      BY <1>4, <1>5, <2>1, <3>1 DEF GroupTasks, GoesOnAs, TaskOK
    <3>3. /\ tasks' \in Seq(GroupTasks) /\ Tasks' = R \union {t} /\ TasksAlone'
          /\ \A b \in Tasks' : TaskOK(b)
      BY <1>1, <1>3, <3>1, <3>2, TaskGoesOn
    <3> QED
      BY <3>2, <3>3
  <2>2. CASE o.job # "members"
    <3>1. Ends(i)
      BY <1>3, <2>2 DEF Record
    <3> QED
      BY <1>1, <1>3, <2>2, <3>1, TaskEnds
  <2> QED
    BY <2>1, <2>2
<1>9. /\ certain' \in [meta : BOOLEAN, row : BOOLEAN, log : BOOLEAN, people : SUBSET Members]
      /\ certain'.meta = certain.meta /\ certain'.row = certain.row /\ certain'.log = certain.log
      /\ people' = people \union {row} \/ people' = people
      /\ certain'.people \subseteq certain.people \union {who}
      /\ who \in certain'.people => people' = people \union {row} /\ o.alone /\ \A q \in people : q.who = who => q.ts < row.ts
  <2>1. certain \in [meta : BOOLEAN, row : BOOLEAN, log : BOOLEAN, people : SUBSET Members]
    BY <1>1 DEF GroupShape
  <2>2. \/ /\ people' = people \union {row}
           /\ certain' = [certain EXCEPT !.people =
                IF o.alone /\ \A q \in people : q.who = who => q.ts < row.ts THEN @ \union {who} ELSE @ \ {who}]
        \/ people' = people /\ certain' = [certain EXCEPT !.people = @ \ {who}]
    BY <1>3, <1>6, <1>7 DEF Record, RecordParticipantEvent
  <2> QED
    BY <1>7, <2>1, <2>2
<1>10. GroupShape'
  BY <1>1, <1>2, <1>7, <1>8, <1>9 DEF GroupShape
<1>11. NotesTell'
  BY <1>1, <1>2, NotesStand
<1>12. RecordsTell'
  BY <1>1, <1>2, <1>4, <1>8, RecordsStand
<1>13. WarmTells'
  BY <1>4, <1>5, <1>8 DEF WarmTells
<1>14. SettingNoted => SettingNoted'
  BY <1>2, NotesStand
<1>15. UpdateTells'
  <2> SUFFICES ASSUME NEW b \in Tasks', b.job = "update", b.alone, certain.meta
               PROVE  /\ b.at # "merged"
                      /\ b.at \in {"save", "log"} =>
                           /\ cached \in {NoMeta, b.meta}
                           /\ b.meta.setting = group.setting \/ SettingNoted'
                           /\ b.at = "log" /\ certain.row => metaRow = b.meta
    BY <1>2, <1>9 DEF UpdateTells
  <2>1. b \in Tasks
    BY <1>4, <1>8
  <2> QED
    BY <1>1, <1>14, <2>1 DEF UpdateTells
<1>16. RefreshToCome => RefreshToCome'
  BY <1>2, <1>4, <1>5, <1>8 DEF RefreshToCome, Refreshes
<1>17. MetaKnown'
  BY <1>1, <1>2, <1>9, <1>16 DEF MetaKnown
<1>18. RowKnown'
  BY <1>1, <1>2, <1>4, <1>5, <1>8, <1>9, <1>16 DEF RowKnown
<1>19. LogKnown'
  <2> SUFFICES ASSUME certain.log PROVE settings # <<>> /\ (LogFits' \/ \E b \in Tasks' : Breaker(b))
    BY <1>2, <1>9 DEF LogKnown
  <2>1. settings # <<>> /\ (LogFits \/ \E u \in Tasks : Breaker(u))
    BY <1>1 DEF LogKnown
  <2>2. ~Breaker(o)
    BY <1>5 DEF Breaker
  <2>3. \A b \in Tasks' : b \notin R => b.old = NoMeta /\ b.at = "fetch"
    BY <1>8
  <2>4. LogFits => LogFits'
    BY <1>1, <1>2, <1>4, <1>5, <1>8, <1>9, <2>3, FitsStand
  <2> QED
    BY <1>4, <1>8, <2>1, <2>2, <2>4
<1>20. PeopleKnown'
  <2> SUFFICES ASSUME NEW p \in certain'.people
               PROVE  \/ PersonTold(p)' \/ PersonNoted(p, 0)'
                      \/ \E b \in Tasks' : b.at = "record" /\ b.note.who = p
    BY DEF PeopleKnown
  <2>1. PersonNoted(p, 0) => PersonNoted(p, 0)'
    BY <1>2, NotesStand
  <2>2. CASE p # who
    <3>1. p \in certain.people
      BY <1>9, <2>2
    <3>2. \/ PersonTold(p) \/ PersonNoted(p, 0)
          \/ \E u \in Tasks : u.at = "record" /\ u.note.who = p
      BY <1>1, <3>1 DEF PeopleKnown
    <3>3. PersonTold(p) => PersonTold(p)'
      BY <1>2, <1>6, <1>9, <2>2, OthersRows
    <3>4. \A u \in Tasks : u.at = "record" /\ u.note.who = p => u \in Tasks'
      BY <1>4, <1>6, <1>8, <2>2
    <3> QED
      BY <2>1, <3>2, <3>3, <3>4
  <2>3. CASE p = who
    <3>1. people' = people \union {row} /\ o.alone /\ \A q \in people : q.who = who => q.ts < row.ts
      BY <1>9, <2>3
    <3>2. Agrees(row.action, who) \/ PersonNoted(who, 0)
      BY <1>1, <1>4, <1>5, <1>6, <3>1 DEF RecordsTell
    <3>3. Latest(p)' = {row}
      <4>1. \A r \in people' : r.ts \in Nat
        BY <1>1, <1>7, <3>1 DEF GroupShape, PersonRows
      <4>2. row \in Latest(p)'
        BY <1>6, <2>3, <3>1, <4>1 DEF Latest
      <4>3. \A r \in Latest(p)' : r = row
        BY <1>6, <2>3, <3>1, <4>1 DEF Latest
      <4> QED
        BY <4>2, <4>3
    <3>4. row.action \in {"add", "kick", "request"}
      BY <1>7 DEF PersonRows
    <3>5. ASSUME Agrees(row.action, who) PROVE PersonTold(p)'
      <4>1. /\ row.action = "add" => p \in group.members
            /\ row.action = "kick" => p \notin group.members
        BY <2>3, <3>5 DEF Agrees
      <4> QED
        BY <1>2, <3>3, <3>4, <4>1 DEF PersonTold, Stays
    <3> QED
      BY <2>1, <2>3, <3>2, <3>5
  <2> QED
    BY <2>2, <2>3
<1> QED
  BY <1>8, <1>10, <1>11, <1>12, <1>13, <1>15, <1>17, <1>18, <1>19, <1>20 DEF GroupsIInv

\* The warm-up goes on from a group that it has saved, or ends.
Warms(b, o) ==
  b.job = "warm" /\ b.at \in {"adopt", "settings", "baseline"} /\ b.meta = o.meta /\ b.alone = o.alone /\ b.old = o.old

LEMMA WarmOn ==
  ASSUME GroupShape, WarmTells, UpdateTells, MetaKnown, RowKnown,
         NEW R, NEW o, Tasks = R \union {o}, o.job = "warm", o.at \in {"history", "adopt", "settings", "baseline"},
         UNCHANGED <<group, notes, cached, metaRow>>, certain'.meta = certain.meta, certain'.row = certain.row,
         R \subseteq Tasks', \A b \in Tasks' : b \in R \/ Warms(b, o)
  PROVE  WarmTells' /\ UpdateTells' /\ MetaKnown' /\ RowKnown'
<1>1. (SettingNoted => SettingNoted') /\ \A p : PersonNoted(p, 0) => PersonNoted(p, 0)'
  BY NotesStand
<1>2. \A b \in Tasks' : b.at \in {"save", "merged", "log"} => b \in R
  BY DEF Warms
<1>3. WarmTells'
  <2> SUFFICES ASSUME NEW b \in Tasks', b.job = "warm", b.alone
               PROVE  /\ b.meta.setting = group.setting \/ SettingNoted'
                      /\ \A p \in Members : (p \in b.meta.members <=> p \in group.members) \/ PersonNoted(p, 0)'
                      /\ b.at # "loop" =>
                           /\ cached \in {NoMeta, b.meta}
                           /\ \A u \in Tasks' : u.at = "save" => u.meta = b.meta
                           /\ certain.row => metaRow = b.meta \/ \E u \in Tasks' : u.at = "save"
    BY DEF WarmTells
  <2>1. PICK w \in Tasks : w.job = "warm" /\ w.alone /\ w.meta = b.meta /\ (b.at # "loop" => w.at # "loop")
    BY DEF Warms
  <2>2. /\ b.meta.setting = group.setting \/ SettingNoted
        /\ \A p \in Members : (p \in b.meta.members <=> p \in group.members) \/ PersonNoted(p, 0)
        /\ b.at # "loop" =>
             /\ cached \in {NoMeta, b.meta}
             /\ \A u \in Tasks : u.at = "save" => u.meta = b.meta
             /\ certain.row => metaRow = b.meta \/ \E u \in Tasks : u.at = "save"
    BY <2>1 DEF WarmTells
  <2>3. \A u \in Tasks : u.at = "save" => u \in Tasks'
    OBVIOUS
  <2> QED
    BY <1>1, <1>2, <2>2, <2>3
<1>4. UpdateTells'
  <2> SUFFICES ASSUME NEW b \in Tasks', b.job = "update", b.alone, certain.meta
               PROVE  /\ b.at # "merged"
                      /\ b.at \in {"save", "log"} =>
                           /\ cached \in {NoMeta, b.meta}
                           /\ b.meta.setting = group.setting \/ SettingNoted'
                           /\ b.at = "log" /\ certain.row => metaRow = b.meta
    BY DEF UpdateTells
  <2>1. b \in Tasks
    BY DEF Warms
  <2> QED
    BY <1>1, <2>1 DEF UpdateTells
<1>5. RefreshToCome => RefreshToCome'
  BY DEF RefreshToCome, Refreshes
<1>6. MetaKnown'
  BY <1>5 DEF MetaKnown
<1>7. RowKnown'
  BY <1>2, <1>5 DEF RowKnown
<1> QED
  BY <1>3, <1>4, <1>6, <1>7

LEMMA WarmLog ==
  ASSUME GroupShape, LogKnown,
         NEW R, NEW o, Tasks = R \union {o}, o.job = "warm", o.at # "save", o.old = NoMeta,
         UNCHANGED <<group, notes, cached, metaRow, settings>>, certain'.row = certain.row, certain'.log = certain.log,
         R \subseteq Tasks', \A b \in Tasks' : b \in R \/ Warms(b, o)
  PROVE  LogKnown'
<1> SUFFICES ASSUME certain.log PROVE settings # <<>> /\ (LogFits' \/ \E b \in Tasks' : Breaker(b))
  BY DEF LogKnown
<1>1. settings # <<>> /\ (LogFits \/ \E u \in Tasks : Breaker(u))
  BY DEF LogKnown
<1>2. ~Breaker(o)
  BY DEF Breaker
<1>3. \A b \in Tasks' : b \notin R => b.old = NoMeta /\ b.at # "save"
  BY DEF Warms
<1>4. LogFits => LogFits'
  BY <1>3, FitsStand
<1> QED
  BY <1>1, <1>2, <1>4

\* What a step of the warm-up makes of the tasks.
LEMMA WarmTakes ==
  ASSUME GroupShape, TasksAlone, NEW i \in 1 .. Len(tasks), NEW o, o = tasks[i], NEW R, R = Others(i),
         o.at \in {"history", "adopt", "settings", "baseline"},
         Ends(i) \/ \E at \in {"adopt", "settings", "baseline"} : Goes(i, at)
  PROVE  /\ o \in GroupTasks /\ o.job = "warm" /\ o.old = NoMeta /\ o.meta \in Metas /\ Tasks = R \union {o}
         /\ tasks' \in Seq(GroupTasks) /\ TasksAlone' /\ \A b \in Tasks' : TaskOK(b)
         /\ R \subseteq Tasks' /\ \A b \in Tasks' : b \in R \/ Warms(b, o)
<1>1. o \in GroupTasks /\ TaskOK(o) /\ Tasks = R \union {o}
  BY AroundIs
<1>2. o.job = "warm" /\ o.old = NoMeta /\ o.meta \in Metas
  BY <1>1 DEF TaskOK, GroupTasks
<1>3. CASE Ends(i)
  BY <1>1, <1>2, <1>3, TaskEnds
<1>4. ASSUME NEW at \in {"adopt", "settings", "baseline"}, Goes(i, at)
      PROVE  /\ tasks' \in Seq(GroupTasks) /\ TasksAlone' /\ \A b \in Tasks' : TaskOK(b)
             /\ R \subseteq Tasks' /\ \A b \in Tasks' : b \in R \/ Warms(b, o)
  <2>1. PICK t : Become(i, t) /\ t = [o EXCEPT !.at = at]
    BY <1>4 DEF Goes
  <2>2. t \in GroupTasks /\ GoesOnAs(o, t) /\ Warms(t, o)
    BY <1>1, <1>2, <2>1 DEF GroupTasks, GoesOnAs, Warms
  <2>3. TaskOK(t)
    BY <1>1, <1>2, <2>2 DEF TaskOK, Warms
  <2>4. /\ tasks' \in Seq(GroupTasks) /\ Tasks' = R \union {t} /\ TasksAlone'
        /\ \A b \in Tasks' : TaskOK(b)
    BY <2>1, <2>2, <2>3, TaskGoesOn
  <2> QED
    BY <2>2, <2>4
<1> QED
  BY <1>1, <1>2, <1>3, <1>4

LEMMA HistoryKeeps ==
  ASSUME GroupsIInv, NEW i \in 1 .. Len(tasks), History(i) \/ SettingsHistory(i) PROVE GroupsIInv'
<1>1. /\ GroupShape /\ TasksAlone /\ NotesTell /\ RecordsTell /\ WarmTells /\ UpdateTells
      /\ MetaKnown /\ RowKnown /\ LogKnown /\ PeopleKnown
  BY DEF GroupsIInv
<1>2. UNCHANGED <<group, notes, cached, metaRow, settings, people, second, certain>>
  BY DEF History, SettingsHistory
<1>3. PICK o, R : o = tasks[i] /\ R = Others(i)
  OBVIOUS
<1>4. /\ o.at \in {"history", "settings"}
      /\ Ends(i) \/ \E at \in {"adopt", "settings", "baseline"} : Goes(i, at)
  BY <1>3 DEF History, SettingsHistory, May
<1>5. /\ o.job = "warm" /\ o.old = NoMeta /\ Tasks = R \union {o}
      /\ tasks' \in Seq(GroupTasks) /\ TasksAlone' /\ \A b \in Tasks' : TaskOK(b)
      /\ R \subseteq Tasks' /\ \A b \in Tasks' : b \in R \/ Warms(b, o)
  BY <1>1, <1>3, <1>4, WarmTakes
<1>6. GroupShape'
  BY <1>1, <1>2, <1>5 DEF GroupShape
<1>7. NotesTell' /\ RecordsTell' /\ PeopleKnown'
  <2>1. \A b \in Tasks' : b \notin R => b.at # "record"
    BY <1>5 DEF Warms
  <2> QED
    BY <1>1, <1>2, <1>4, <1>5, <2>1, SidesStand
<1>8. WarmTells' /\ UpdateTells' /\ MetaKnown' /\ RowKnown'
  BY <1>1, <1>2, <1>4, <1>5, WarmOn
<1>9. LogKnown'
  BY <1>1, <1>2, <1>4, <1>5, WarmLog
<1> QED
  BY <1>5, <1>6, <1>7, <1>8, <1>9 DEF GroupsIInv

LEMMA AdoptKeeps == ASSUME GroupsIInv, NEW i \in 1 .. Len(tasks), Adopt(i) PROVE GroupsIInv'
<1>1. /\ GroupShape /\ TasksAlone /\ NotesTell /\ RecordsTell /\ WarmTells /\ UpdateTells
      /\ MetaKnown /\ RowKnown /\ LogKnown /\ PeopleKnown
  BY DEF GroupsIInv
<1>2. UNCHANGED <<group, notes, cached, metaRow, settings, second>>
  BY DEF Adopt
<1>3. PICK o, R : o = tasks[i] /\ R = Others(i)
  OBVIOUS
<1>4. o.at = "adopt" /\ \E at \in {"adopt", "settings", "baseline"} : Goes(i, at)
  BY <1>3 DEF Adopt, May
<1>5. /\ o \in GroupTasks /\ o.job = "warm" /\ o.old = NoMeta /\ o.meta \in Metas /\ Tasks = R \union {o}
      /\ tasks' \in Seq(GroupTasks) /\ TasksAlone' /\ \A b \in Tasks' : TaskOK(b)
      /\ R \subseteq Tasks' /\ \A b \in Tasks' : b \in R \/ Warms(b, o)
  BY <1>1, <1>3, <1>4, WarmTakes
<1>6. PICK here : here = o.meta.members
  OBVIOUS
<1>7. here \subseteq Members
  BY <1>5, <1>6 DEF Metas
<1>8. people' = people \union {Row(p, "add", second) : p \in here}
  BY <1>3, <1>6 DEF Adopt
<1>9. /\ certain' \in [meta : BOOLEAN, row : BOOLEAN, log : BOOLEAN, people : SUBSET Members]
      /\ certain'.meta = certain.meta /\ certain'.row = certain.row /\ certain'.log = certain.log
      /\ \/ o.alone /\ people = {} /\ certain'.people = Members
         \/ certain'.people = certain.people \ here
  <2>1. certain \in [meta : BOOLEAN, row : BOOLEAN, log : BOOLEAN, people : SUBSET Members]
    BY <1>1 DEF GroupShape
  <2>2. certain' = [certain EXCEPT !.people = IF o.alone /\ people = {} THEN Members ELSE @ \ here]
    BY <1>3, <1>6 DEF Adopt
  <2> QED
    BY <1>7, <2>1, <2>2
<1>10. people' \subseteq PersonRows
  BY <1>1, <1>2, <1>7, <1>8 DEF GroupShape, PersonRows, Row
<1>11. GroupShape'
  BY <1>1, <1>2, <1>5, <1>9, <1>10 DEF GroupShape
<1>12. \A b \in Tasks' : b \notin R => b.at # "record"
  BY <1>5 DEF Warms
<1>13. NotesTell'
  BY <1>1, <1>2, NotesStand
<1>14. RecordsTell'
  BY <1>1, <1>2, <1>5, <1>12, RecordsStand
<1>15. WarmTells' /\ UpdateTells' /\ MetaKnown' /\ RowKnown'
  BY <1>1, <1>2, <1>4, <1>5, <1>9, WarmOn
<1>16. LogKnown'
  BY <1>1, <1>2, <1>4, <1>5, <1>9, WarmLog
<1>17. PeopleKnown'
  <2> SUFFICES ASSUME NEW p \in certain'.people
               PROVE  \/ PersonTold(p)' \/ PersonNoted(p, 0)'
                      \/ \E b \in Tasks' : b.at = "record" /\ b.note.who = p
    BY DEF PeopleKnown
  <2>1. PersonNoted(p, 0) => PersonNoted(p, 0)'
    BY <1>2, NotesStand
  <2>2. p \in Members
    BY <1>9
  <2>3. CASE o.alone /\ people = {}
    <3>1. (p \in here <=> p \in group.members) \/ PersonNoted(p, 0)
      BY <1>1, <1>5, <1>6, <2>2, <2>3 DEF WarmTells
    <3>2. people' = {Row(q, "add", second) : q \in here}
      BY <1>8, <2>3
    <3>3. CASE p \in here
      <4>1. Latest(p)' = {Row(p, "add", second)}
        <5>1. \A r \in people' : r.who = p => r = Row(p, "add", second)
          BY <3>2 DEF Row
        <5>2. Row(p, "add", second) \in people' /\ Row(p, "add", second).who = p
          BY <3>2, <3>3 DEF Row
        <5>3. Row(p, "add", second).ts <= Row(p, "add", second).ts
          BY <1>1 DEF GroupShape, Row
        <5> QED
          BY <5>1, <5>2, <5>3 DEF Latest
      <4>2. Row(p, "add", second).action = "add"
        BY DEF Row
      <4> QED
        BY <1>2, <2>1, <3>1, <3>3, <4>1, <4>2 DEF PersonTold, Stays
    <3>4. CASE p \notin here
      <4>1. Latest(p)' = {}
        BY <3>2, <3>4 DEF Latest, Row
      <4> QED
        BY <1>2, <2>1, <3>1, <3>4, <4>1 DEF PersonTold
    <3> QED
      BY <3>3, <3>4
  <2>4. CASE ~(o.alone /\ people = {})
    <3>1. p \in certain.people /\ p \notin here
      BY <1>9, <2>4
    <3>2. \/ PersonTold(p) \/ PersonNoted(p, 0)
          \/ \E u \in Tasks : u.at = "record" /\ u.note.who = p
      BY <1>1, <3>1 DEF PeopleKnown
    <3>3. \A r \in people' : r.who = p => r \in people
      BY <1>8, <3>1 DEF Row
    <3>4. PersonTold(p) => PersonTold(p)'
      BY <1>2, <1>8, <3>3, OthersRows
    <3>5. \A u \in Tasks : u.at = "record" => u \in Tasks'
      BY <1>4, <1>5
    <3> QED
      BY <2>1, <3>2, <3>4, <3>5
  <2> QED
    BY <2>3, <2>4
<1> QED
  BY <1>5, <1>11, <1>13, <1>14, <1>15, <1>16, <1>17 DEF GroupsIInv

LEMMA BaselineKeeps == ASSUME GroupsIInv, NEW i \in 1 .. Len(tasks), Baseline(i) PROVE GroupsIInv'
<1>1. /\ GroupShape /\ TasksAlone /\ NotesTell /\ RecordsTell /\ WarmTells /\ UpdateTells
      /\ MetaKnown /\ RowKnown /\ LogKnown /\ PeopleKnown
  BY DEF GroupsIInv
<1>2. UNCHANGED <<group, notes, cached, metaRow, people, second>> /\ Ends(i)
  BY DEF Baseline
<1>3. PICK o, R : o = tasks[i] /\ R = Others(i)
  OBVIOUS
<1>4. o.at = "baseline"
  BY <1>3 DEF Baseline, May
<1>5. /\ o \in GroupTasks /\ o.job = "warm" /\ o.old = NoMeta /\ o.meta \in Metas /\ Tasks = R \union {o}
      /\ tasks' \in Seq(GroupTasks) /\ TasksAlone' /\ \A b \in Tasks' : TaskOK(b)
      /\ R \subseteq Tasks' /\ \A b \in Tasks' : b \in R \/ Warms(b, o)
  BY <1>1, <1>2, <1>3, <1>4, WarmTakes
<1>6. Tasks' = R
  BY <1>1, <1>2, <1>3, TaskEnds
<1>7. /\ \A u \in R : TaskOK(u)
      /\ o.alone => \A u \in R : u.job = "warmed" /\ u.at = "save"
  BY <1>1, <1>3, <1>5, AroundIs
<1>8. PICK new : new = o.meta.setting
  OBVIOUS
<1>9. new \in Settings /\ new # -1 /\ -1 \in -1 .. MaxSetting
  BY <1>5, <1>8, NoMetaIs, GroupsAssumption
<1>10. settings' = RecordGroupSettingsChange(-1, new)
  BY <1>3, <1>8 DEF Baseline
<1>11. /\ settings' \in Seq((-1 .. MaxSetting) \X Settings) /\ settings' # <<>>
       /\ \A k \in 1 .. Len(settings') : settings'[k][1] # settings'[k][2]
       /\ LastSetting' = new
  BY <1>1, <1>9, <1>10, SettingAdded
<1>12. /\ certain' \in [meta : BOOLEAN, row : BOOLEAN, log : BOOLEAN, people : SUBSET Members]
       /\ certain'.people = certain.people /\ certain'.meta = certain.meta /\ certain'.row = certain.row
       /\ certain'.log => o.alone
  <2>1. certain \in [meta : BOOLEAN, row : BOOLEAN, log : BOOLEAN, people : SUBSET Members] /\ o.alone \in BOOLEAN
    BY <1>1, <1>5 DEF GroupShape, GroupTasks
  <2>2. certain' = [certain EXCEPT !.log = o.alone]
    BY <1>3 DEF Baseline
  <2> QED
    BY <2>1, <2>2
<1>13. GroupShape'
  BY <1>1, <1>2, <1>5, <1>11, <1>12 DEF GroupShape
<1>14. NotesTell' /\ RecordsTell' /\ PeopleKnown'
  BY <1>1, <1>2, <1>4, <1>5, <1>6, <1>12, SidesStand
<1>15. WarmTells' /\ UpdateTells' /\ MetaKnown' /\ RowKnown'
  BY <1>1, <1>2, <1>4, <1>5, <1>12, WarmOn
<1>16. LogKnown'
  <2> SUFFICES ASSUME certain'.log PROVE settings' # <<>> /\ LogFits'
    BY DEF LogKnown
  <2>1. o.alone
    BY <1>12
  <2>2. /\ cached \in {NoMeta, o.meta}
        /\ new = group.setting \/ SettingNoted
        /\ \A u \in Tasks : u.at = "save" => u.meta = o.meta
        /\ certain.row => metaRow = o.meta \/ \E u \in Tasks : u.at = "save"
    BY <1>1, <1>4, <1>5, <1>8, <2>1 DEF WarmTells
  <2>3. \A u \in Tasks' : u.old = NoMeta /\ (u.at = "save" => u.meta.setting = new)
    BY <1>5, <1>6, <1>7, <1>8, <2>1, <2>2 DEF TaskOK
  <2>4. SettingNoted => SettingNoted'
    BY <1>2, NotesStand
  <2>5. certain'.row /\ metaRow' \in Metas => metaRow'.setting = new \/ \E b \in Tasks' : b.at = "save"
    BY <1>2, <1>4, <1>5, <1>6, <1>8, <1>12, <2>2
  <2>6. LogFits'
    BY <1>2, <1>8, <1>11, <2>2, <2>3, <2>4, <2>5, FitsIf
  <2> QED
    BY <1>11, <2>6
<1> QED
  BY <1>5, <1>13, <1>14, <1>15, <1>16 DEF GroupsIInv

\* A group of the warm-up is cached, and its row goes its own way.
LEMMA WarmGroupTakes ==
  ASSUME GroupShape, TasksAlone, NEW i \in 1 .. Len(tasks), NEW t \in GroupTasks, NEW n \in GroupTasks,
         tasks' = Append([tasks EXCEPT ![i] = t], n), tasks[i].at = "loop",
         t.job = "warm", t.at = "history", t.alone = tasks[i].alone, n.job = "warmed", n.at = "save"
  PROVE  tasks' \in Seq(GroupTasks) /\ TasksAlone' /\ Tasks' = Others(i) \union {t, n}
<1>1. Len(tasks) \in Nat /\ tasks \in Seq(GroupTasks)
  BY LenProperties DEF GroupShape
<1>2. PICK s : s = [tasks EXCEPT ![i] = t]
  OBVIOUS
<1>3. /\ s \in Seq(GroupTasks) /\ Len(s) = Len(tasks)
      /\ \A j \in 1 .. Len(tasks) : s[j] = IF j = i THEN t ELSE tasks[j]
  BY <1>1, <1>2, ExceptSeq
<1>4. /\ tasks' \in Seq(GroupTasks) /\ Len(tasks') = Len(tasks) + 1 /\ tasks'[Len(tasks) + 1] = n
      /\ \A j \in 1 .. Len(tasks) : tasks'[j] = IF j = i THEN t ELSE tasks[j]
  BY <1>1, <1>2, <1>3, AppendProperties
<1>5. \A j \in 1 .. Len(tasks') : j = Len(tasks) + 1 \/ j \in 1 .. Len(tasks)
  BY <1>1, <1>4
<1>6. Tasks' = Others(i) \union {t, n}
  <2>1. \A j \in 1 .. Len(tasks') : tasks'[j] \in Others(i) \union {t, n}
    BY <1>4, <1>5 DEF Others
  <2>2. \A j \in 1 .. Len(tasks) : j \in 1 .. Len(tasks')
    BY <1>1, <1>4
  <2>3. Len(tasks) + 1 \in 1 .. Len(tasks')
    BY <1>1, <1>4
  <2>4. \A u \in Others(i) : u \in Tasks'
    BY <1>4, <2>2 DEF Others, Tasks
  <2>5. t \in Tasks' /\ n \in Tasks'
    BY <1>4, <2>2, <2>3 DEF Tasks
  <2> QED
    BY <2>1, <2>4, <2>5 DEF Tasks
<1>7. ASSUME NEW j \in 1 .. Len(tasks'), NEW u \in Others(j)', tasks'[j].alone, tasks'[j].job # "warmed"
      PROVE  Unmet(tasks'[j], u) /\ tasks'[j].at # "loop"
  <2>1. j \in 1 .. Len(tasks)
    BY <1>4, <1>5, <1>7
  <2>2. j = i
    <3> SUFFICES ASSUME j # i PROVE FALSE
      OBVIOUS
    <3>1. tasks[j] \in Others(i) /\ tasks'[j] = tasks[j]
      BY <1>4, <2>1 DEF Others
    <3> QED
      BY <1>7, <3>1, AroundIs
  <2>3. Others(i) = {} /\ tasks'[j] = t
    BY <1>4, <1>7, <2>1, <2>2, AroundIs
  <2>4. PICK k \in (1 .. Len(tasks')) \ {j} : u = tasks'[k]
    BY DEF Others
  <2>5. u = n
    <3> SUFFICES ASSUME k \in 1 .. Len(tasks) PROVE FALSE
      BY <1>4, <1>5, <2>4
    <3>1. tasks[k] \in Others(i)
      BY <2>2, <2>4 DEF Others
    <3> QED
      BY <2>3, <3>1
  <2> QED
    BY <2>3, <2>5 DEF Unmet
<1> QED
  BY <1>4, <1>6, <1>7 DEF TasksAlone

LEMMA WarmGroupKeeps == ASSUME GroupsIInv, NEW i \in 1 .. Len(tasks), WarmGroup(i) PROVE GroupsIInv'
<1>1. /\ GroupShape /\ TasksAlone /\ NotesTell /\ RecordsTell /\ WarmTells /\ UpdateTells
      /\ MetaKnown /\ RowKnown /\ LogKnown /\ PeopleKnown
  BY DEF GroupsIInv
<1>2. UNCHANGED <<group, notes, metaRow, settings, people, second>>
  BY DEF WarmGroup
<1>3. PICK o, R : o = tasks[i] /\ R = Others(i)
  OBVIOUS
<1>4. /\ o \in GroupTasks /\ TaskOK(o) /\ Tasks = R \union {o}
      /\ \A u \in R : u \in GroupTasks /\ TaskOK(u)
      /\ o.alone /\ o.at = "loop" => R = {}
      /\ o.at = "loop" => \A u \in R : u.alone => u.job = "warmed"
  BY <1>1, <1>3, AroundIs
<1>5. o.at = "loop" /\ o.job = "warm" /\ o.meta \in Metas /\ o.old = NoMeta
  BY <1>3, <1>4 DEF WarmGroup, May, TaskOK, GroupTasks
<1>6. PICK t, n : /\ t = [o EXCEPT !.at = "history"] /\ n = [Task("warmed", "save", "") EXCEPT !.meta = o.meta]
                  /\ tasks' = Append([tasks EXCEPT ![i] = t], n)
  BY <1>3 DEF WarmGroup
<1>7. /\ t \in GroupTasks /\ t.job = "warm" /\ t.at = "history" /\ t.alone = o.alone /\ t.meta = o.meta
      /\ t.old = NoMeta
  BY <1>4, <1>5, <1>6 DEF GroupTasks
<1>8. n \in GroupTasks /\ n.job = "warmed" /\ n.at = "save" /\ n.meta = o.meta /\ n.old = NoMeta
  BY <1>5, <1>6 DEF GroupTasks, Task
<1>9. TaskOK(t) /\ TaskOK(n)
  BY <1>5, <1>7, <1>8 DEF TaskOK
<1>10. tasks' \in Seq(GroupTasks) /\ TasksAlone' /\ Tasks' = R \union {t, n}
  BY <1>1, <1>3, <1>5, <1>6, <1>7, <1>8, WarmGroupTakes
<1>11. /\ certain' \in [meta : BOOLEAN, row : BOOLEAN, log : BOOLEAN, people : SUBSET Members]
       /\ certain'.people = certain.people /\ certain'.meta = o.alone /\ certain'.row = o.alone /\ ~certain'.log
       /\ cached' = o.meta
  <2>1. certain \in [meta : BOOLEAN, row : BOOLEAN, log : BOOLEAN, people : SUBSET Members] /\ o.alone \in BOOLEAN
    BY <1>1, <1>4 DEF GroupShape, GroupTasks
  <2>2. certain' = [certain EXCEPT !.meta = o.alone, !.row = o.alone, !.log = FALSE] /\ cached' = o.meta
    BY <1>3 DEF WarmGroup
  <2> QED
    BY <2>1, <2>2
<1>12. GroupShape'
  BY <1>1, <1>2, <1>4, <1>5, <1>9, <1>10, <1>11 DEF GroupShape
<1>13. NotesTell' /\ RecordsTell' /\ PeopleKnown'
  BY <1>1, <1>2, <1>4, <1>5, <1>7, <1>8, <1>10, <1>11, SidesStand
<1>14. o.alone => /\ o.meta.setting = group.setting \/ SettingNoted
                  /\ \A p \in Members : (p \in o.meta.members <=> p \in group.members) \/ PersonNoted(p, 0)
  BY <1>1, <1>4, <1>5 DEF WarmTells
<1>15. (SettingNoted => SettingNoted') /\ \A p : PersonNoted(p, 0) => PersonNoted(p, 0)'
  BY <1>2, NotesStand
<1>16. WarmTells'
  <2> SUFFICES ASSUME NEW b \in Tasks', b.job = "warm", b.alone
               PROVE  /\ b.meta.setting = group.setting \/ SettingNoted'
                      /\ \A p \in Members : (p \in b.meta.members <=> p \in group.members) \/ PersonNoted(p, 0)'
                      /\ cached' \in {NoMeta, b.meta}
                      /\ \A u \in Tasks' : u.at = "save" => u.meta = b.meta
                      /\ \E u \in Tasks' : u.at = "save"
    BY <1>2 DEF WarmTells
  <2>1. o.alone /\ R = {} /\ b.meta = o.meta
    BY <1>4, <1>5, <1>7, <1>8, <1>10
  <2> QED
    BY <1>7, <1>8, <1>10, <1>11, <1>14, <1>15, <2>1
<1>17. UpdateTells'
  BY <1>4, <1>5, <1>7, <1>8, <1>10 DEF UpdateTells
<1>18. o.alone => o.meta = group \/ RefreshToCome'
  <2> SUFFICES ASSUME o.alone, ~RefreshToCome' PROVE o.meta = group
    OBVIOUS
  <2>1. ~SettingNoted' /\ \A p : ~PersonNoted(p, 0)'
    BY DEF RefreshToCome, SettingNoted, PersonNoted
  <2>2. o.meta.setting = group.setting /\ \A p \in Members : p \in o.meta.members <=> p \in group.members
    BY <1>14, <1>15, <2>1
  <2> QED
    BY <1>1, <1>5, <2>2, SameMeta DEF GroupShape
<1>19. MetaKnown'
  BY <1>2, <1>11, <1>18 DEF MetaKnown
<1>20. RowKnown'
  <2> SUFFICES ASSUME o.alone
               PROVE  /\ \A b \in Tasks' : b.at # "merged"
                      /\ \/ RefreshToCome'
                         \/ /\ \A b \in Tasks' : b.at = "save" => b.meta = group
                            /\ \E b \in Tasks' : b.at = "save"
    BY <1>2, <1>11 DEF RowKnown
  <2> QED
    BY <1>4, <1>5, <1>7, <1>8, <1>10, <1>18
<1>21. LogKnown'
  BY <1>11 DEF LogKnown
<1> QED
  BY <1>10, <1>12, <1>13, <1>16, <1>17, <1>19, <1>20, <1>21 DEF GroupsIInv

LEMMA TasksKeep == ASSUME GroupsIInv, NEW i \in 1 .. Len(tasks), TaskStep(i) PROVE GroupsIInv'
<1>1. ASSUME FallBack(i) PROVE GroupsIInv'
  <2>1. PICK o : o = tasks[i]
    OBVIOUS
  <2>2. o \in GroupTasks /\ TaskOK(o)
    BY <2>1, AroundIs DEF GroupsIInv
  <2>3. o.at = "failed" /\ SaveGroupMetadata(i, Merge(o), "merged", FALSE)
        /\ UNCHANGED <<group, notes, metaRow, settings, people, second>>
    BY <1>1, <2>1 DEF FallBack, May
  <2>4. o.job = "update" /\ o.old # NoMeta
    BY <2>2, <2>3, NoMetaIs DEF TaskOK, GroupTasks
  <2> QED
    BY <2>1, <2>3, <2>4, FallBackKeeps
<1> QED
  BY <1>1, ReadKeeps, AnswerKeeps, RefreshKeeps, SaveKeeps, SaveMergedKeeps, LogSettingKeeps, RecordKeeps,
     WarmGroupKeeps, HistoryKeeps, AdoptKeeps, BaselineKeeps DEF TaskStep

LEMMA GroupsFirst == ASSUME GroupsInit PROVE GroupsIInv
<1>1. group \in Metas
  BY GroupsAssumption DEF GroupsInit, Metas, Settings
<1>2. /\ notes = <<>> /\ tasks = <<>> /\ cached = NoMeta /\ metaRow = NoMeta /\ settings = <<>> /\ people = {}
      /\ second = 0 /\ ~certain.meta /\ ~certain.row /\ ~certain.log /\ certain.people = {}
      /\ certain \in [meta : BOOLEAN, row : BOOLEAN, log : BOOLEAN, people : SUBSET Members]
  BY DEF GroupsInit
<1>3. Tasks = {} /\ Len(tasks) = 0 /\ Len(notes) = 0 /\ Len(settings) = 0
  BY <1>2 DEF Tasks
<1>4. GroupShape
  BY <1>1, <1>2, <1>3 DEF GroupShape
<1>5. TasksAlone /\ NotesTell /\ RecordsTell /\ WarmTells /\ UpdateTells
  BY <1>3 DEF TasksAlone, NotesTell, RecordsTell, WarmTells, UpdateTells
<1>6. MetaKnown /\ RowKnown /\ LogKnown /\ PeopleKnown
  BY <1>2 DEF MetaKnown, RowKnown, LogKnown, PeopleKnown
<1> QED
  BY <1>4, <1>5, <1>6 DEF GroupsIInv

LEMMA GroupsSteps == GroupsIInv /\ [GroupsNext]_groupVars => GroupsIInv'
<1> SUFFICES ASSUME GroupsIInv, [GroupsNext]_groupVars PROVE GroupsIInv'
  OBVIOUS
<1>1. ASSUME UNCHANGED groupVars PROVE GroupsIInv'
  <2>1. /\ UNCHANGED <<group, notes, cached, metaRow, settings, people, second, tasks, certain>>
        /\ Tasks' = Tasks /\ \A i : Others(i)' = Others(i)
    BY <1>1 DEF groupVars, Tasks, Others
  <2>2. GroupShape'
    BY <2>1 DEF GroupsIInv, GroupShape
  <2>3. TasksAlone' /\ NotesTell' /\ RecordsTell' /\ PeopleKnown'
    BY <2>1, NotesStand, RecordsStand, PeopleStand DEF GroupsIInv, TasksAlone
  <2>4. WarmTells' /\ UpdateTells' /\ MetaKnown' /\ RowKnown' /\ LogKnown'
    BY <2>1 DEF GroupsIInv, WarmTells, UpdateTells, MetaKnown, RowKnown, LogKnown, LogFits, LastSetting,
                RefreshToCome, SettingNoted, PersonNoted
  <2> QED
    BY <2>2, <2>3, <2>4 DEF GroupsIInv
<1>2. CASE \/ \E v \in 0 .. MaxSetting : SettingChanges(v)
           \/ \E p \in Members : Joins(p) \/ Leaves(p) \/ AsksToJoin(p)
           \/ Upserted
  BY <1>2, ChangesKeep
<1>3. ASSUME NEW i \in 1 .. Len(tasks), TaskStep(i) PROVE GroupsIInv'
  BY <1>3, TasksKeep
<1> QED
  BY <1>1, <1>2, <1>3, HearKeeps, WarmUpKeeps, WarmAgainKeeps, SecondKeeps, ExpireKeeps, GroupCrashKeeps DEF GroupsNext

LEMMA GroupsTell == GroupsIInv => GroupsInv
<1> SUFFICES ASSUME GroupsIInv PROVE GroupsInv
  OBVIOUS
<1>1. \A k \in 1 .. Len(settings) : settings[k][1] # settings[k][2]
  BY DEF GroupsIInv, GroupShape
<1>2. ASSUME Quiet
      PROVE  /\ certain.meta => cached \in {NoMeta, group}
             /\ certain.row => metaRow = group
             /\ certain.log => Last(settings)[2] = group.setting
             /\ \A p \in certain.people : PersonTold(p)
  <2>1. Tasks = {} /\ Len(notes) = 0
    BY <1>2 DEF Quiet, Tasks
  <2>2. ~RefreshToCome /\ ~SettingNoted /\ \A p : ~PersonNoted(p, 0)
    BY <2>1 DEF RefreshToCome, SettingNoted, PersonNoted
  <2>3. (certain.meta => cached \in {NoMeta, group}) /\ (certain.row => metaRow = group)
    BY <2>1, <2>2 DEF GroupsIInv, MetaKnown, RowKnown
  <2>4. certain.log => LastSetting = group.setting
    BY <2>1, <2>2 DEF GroupsIInv, LogKnown, LogFits
  <2>5. \A p \in certain.people : PersonTold(p)
    BY <2>1, <2>2 DEF GroupsIInv, PeopleKnown
  <2> QED
    BY <2>3, <2>4, <2>5 DEF LastSetting, Last
<1> QED
  BY <1>1, <1>2 DEF GroupsInv, PersonTold

\* Once every notice was handled, what the bot keeps of a group is what WhatsApp
\* says of it, as far as nothing about it failed, was lost or was overtaken.
THEOREM GroupsAreKept == GroupsSpec => []GroupsInv
<1>1. GroupsSpec => []GroupsIInv
  BY GroupsFirst, GroupsSteps, PTL DEF GroupsSpec
<1> QED
  BY <1>1, GroupsTell, PTL

=============================================================================

-------------------------- MODULE AiBudget_proofs --------------------------
(***************************************************************************)
(* Proofs about AiBudget for every set of requests, every cap, estimate    *)
(* and limit, and both kinds of store.                                     *)
(***************************************************************************)
EXTENDS AiBudget, FiniteSetTheorems, FunctionTheorems, TLAPS

-----------------------------------------------------------------------------
(* Sums: Total is a natural number, it is zero when every term is, changing one *)
(* term changes it by the difference, it is monotone, and no term exceeds it.  *)

LEMMA UnitsOfOne ==
  ASSUME NEW S, NEW f \in [S -> Nat], NEW x \in S
  PROVE  IsFiniteSet(UnitsOf(f, x)) /\ Cardinality(UnitsOf(f, x)) = f[x]
<1>1. f[x] \in Nat /\ 1 \in Int /\ f[x] \in Int
  OBVIOUS
<1>2. IsFiniteSet(1 .. f[x]) /\ Cardinality(1 .. f[x]) = f[x]
  BY <1>1, FS_Interval
<1>3. IsFiniteSet({x}) /\ Cardinality({x}) = 1
  BY FS_Singleton
<1>4. QED
  BY <1>1, <1>2, <1>3, FS_Product DEF UnitsOf

LEMMA UnitsFinite ==
  ASSUME NEW S, IsFiniteSet(S), NEW f \in [S -> Nat]
  PROVE  IsFiniteSet(Units(f))
<1> DEFINE Parts == {UnitsOf(f, x) : x \in S}
<1> DEFINE g == [x \in S |-> UnitsOf(f, x)]
<1>1. g \in Surjection(S, Parts)
  BY DEF Surjection
<1>2. IsFiniteSet(Parts)
  BY <1>1, FS_Surjection
<1>3. \A T \in Parts : IsFiniteSet(T)
  BY UnitsOfOne
<1>4. IsFiniteSet(UNION Parts)
  BY <1>2, <1>3, FS_UNION
<1>5. QED
  BY <1>4 DEF Units

\* The sum of a finite family of naturals is a natural.
LEMMA TotalType ==
  ASSUME NEW S, IsFiniteSet(S), NEW f \in [S -> Nat]
  PROVE  Total(f) \in Nat
BY UnitsFinite, FS_CardinalityType DEF Total

\* A family of zeros sums to zero.
LEMMA TotalZero ==
  ASSUME NEW S
  PROVE  Total([x \in S |-> 0]) = 0
<1> DEFINE z == [x \in S |-> 0]
<1>1. \A x \in S : UnitsOf(z, x) = {}
  BY DEF UnitsOf
<1>2. Units(z) = {}
  BY <1>1 DEF Units
<1>3. QED
  BY <1>2, FS_EmptySet DEF Total

\* Changing one term changes the sum by the difference.
LEMMA TotalExcept ==
  ASSUME NEW S, IsFiniteSet(S), NEW f \in [S -> Nat], NEW x \in S, NEW v \in Nat
  PROVE  Total([f EXCEPT ![x] = v]) = Total(f) - f[x] + v
<1> DEFINE g == [f EXCEPT ![x] = v]
           Others == UNION {UnitsOf(f, y) : y \in S \ {x}}
<1>1. g \in [S -> Nat] /\ g[x] = v /\ \A y \in S \ {x} : g[y] = f[y]
  OBVIOUS
<1> HIDE DEF g
<1>2. Units(f) = Others \cup UnitsOf(f, x)
  BY DEF Units
<1>3. \A y \in S \ {x} : UnitsOf(g, y) = UnitsOf(f, y)
  BY <1>1 DEF UnitsOf
<1>4. Units(g) = Others \cup UnitsOf(g, x)
  BY <1>1, <1>3 DEF Units
<1>5. Others \cap UnitsOf(f, x) = {} /\ Others \cap UnitsOf(g, x) = {}
  <2>1. \A u \in Others : u[1] # x
    BY DEF UnitsOf
  <2>2. (\A u \in UnitsOf(f, x) : u[1] = x) /\ (\A u \in UnitsOf(g, x) : u[1] = x)
    BY DEF UnitsOf
  <2>3. QED
    BY <2>1, <2>2
<1>6. IsFiniteSet(Others)
  <2>1. Others \in SUBSET Units(f)
    BY <1>2
  <2>2. QED
    BY <2>1, UnitsFinite, FS_Subset
<1> HIDE DEF Others
<1>7. Cardinality({}) = 0
  BY FS_EmptySet
<1>8. Cardinality(Units(f)) = Cardinality(Others) + f[x]
  <2>1. IsFiniteSet(UnitsOf(f, x)) /\ Cardinality(UnitsOf(f, x)) = f[x]
    BY UnitsOfOne
  <2>2. Cardinality(Others \cup UnitsOf(f, x))
          = Cardinality(Others) + Cardinality(UnitsOf(f, x)) - Cardinality({})
    BY <1>5, <1>6, <2>1, FS_Union
  <2>3. Cardinality(Others) \in Nat /\ f[x] \in Nat
    BY <1>6, FS_CardinalityType
  <2>4. QED
    BY <1>2, <1>7, <2>1, <2>2, <2>3
<1>9. Cardinality(Units(g)) = Cardinality(Others) + v
  <2>1. IsFiniteSet(UnitsOf(g, x)) /\ Cardinality(UnitsOf(g, x)) = v
    BY <1>1, UnitsOfOne
  <2>2. Cardinality(Others \cup UnitsOf(g, x))
          = Cardinality(Others) + Cardinality(UnitsOf(g, x)) - Cardinality({})
    BY <1>5, <1>6, <2>1, FS_Union
  <2>3. Cardinality(Others) \in Nat
    BY <1>6, FS_CardinalityType
  <2>4. QED
    BY <1>4, <1>7, <2>1, <2>2, <2>3
<1>10. Cardinality(Others) \in Nat /\ f[x] \in Nat
  BY <1>6, FS_CardinalityType
<1>11. QED
  BY <1>8, <1>9, <1>10 DEF Total, g

\* A family that is pointwise below another has the smaller sum.
LEMMA TotalMonotone ==
  ASSUME NEW S, IsFiniteSet(S), NEW f \in [S -> Nat], NEW g \in [S -> Nat],
         \A x \in S : f[x] <= g[x]
  PROVE  Total(f) <= Total(g)
<1>1. \A x \in S : 1 .. f[x] \subseteq 1 .. g[x]
  OBVIOUS
<1>2. \A x \in S : UnitsOf(f, x) \subseteq UnitsOf(g, x)
  BY <1>1 DEF UnitsOf
<1>3. Units(f) \in SUBSET Units(g)
  BY <1>2 DEF Units
<1>4. QED
  BY <1>3, UnitsFinite, FS_Subset DEF Total

\* No term of a family exceeds its sum.
LEMMA TotalTerm ==
  ASSUME NEW S, IsFiniteSet(S), NEW f \in [S -> Nat], NEW x \in S
  PROVE  f[x] <= Total(f)
<1>1. UnitsOf(f, x) \in SUBSET Units(f)
  BY DEF Units
<1>2. QED
  BY <1>1, UnitsFinite, UnitsOfOne, FS_Subset DEF Total

-----------------------------------------------------------------------------
(* Types *)

LEMMA Steps ==
  /\ "idle" \in PC /\ "queued" \in PC /\ "authorized" \in PC /\ "costing" \in PC
  /\ "reading" \in PC /\ "countUser" \in PC /\ "countChat" \in PC /\ "held" \in PC
  /\ "calling" \in PC /\ "settling" \in PC /\ "releasing" \in PC /\ Recording \subseteq PC
BY DEF PC, Link, Reserved, Recording

\* The link that runs may leave the chain.
LEMMA ChainType ==
  ASSUME TypeOK, NEW r \in Requests, NEW step, Running(r, step)
  PROVE  Tail(gate) \in Seq(Requests)
BY DEF TypeOK, Running

LEMMA ConstantsType ==
  ASSUME NEW r \in Requests
  PROVE  /\ UserOf[r] \in Users /\ ChatOf[r] \in Chats
         /\ Estimate[r] \in Nat /\ Rounds[r] \in Nat /\ Estimate[r] * Rounds[r] \in Nat
<1>1. \A m, n \in Nat : m * n \in Nat
  OBVIOUS
<1>2. QED
  BY <1>1, BudgetAssumption

LEMMA CounterType ==
  ASSUME NEW r \in Requests
  PROVE  /\ \A f \in [Users -> Nat] : [f EXCEPT ![UserOf[r]] = @ + 1] \in [Users -> Nat]
         /\ \A f \in [Chats -> Nat] : [f EXCEPT ![ChatOf[r]] = @ + 1] \in [Chats -> Nat]
BY ConstantsType

LEMMA BumpType ==
  ASSUME NEW r \in Requests, TypeOK
  PROVE  /\ BumpUser(r) => userUsed' \in [Users -> Nat]
         /\ BumpChat(r) => chatUsed' \in [Chats -> Nat]
<1>1. userUsed \in [Users -> Nat] /\ chatUsed \in [Chats -> Nat]
  BY DEF TypeOK
<1>2. BumpUser(r) => userUsed' \in [Users -> Nat]
  BY <1>1, CounterType DEF BumpUser
<1>3. BumpChat(r) => chatUsed' \in [Chats -> Nat]
  BY <1>1, CounterType DEF BumpChat
<1>4. QED
  BY <1>2, <1>3

LEMMA InitType == Init => TypeOK
BY Steps DEF Init, TypeOK

LEMMA AdmissionType ==
  ASSUME TypeOK, NEW r \in Requests, Admission(r)
  PROVE  TypeOK'
<1> USE Steps, ChainType DEF Deny, Goto, accounting, quota
<1>1. CASE Authorize(r)
  BY <1>1 DEF Authorize, TypeOK
<1>2. CASE Refuse(r)
  BY <1>2 DEF Refuse, TypeOK
<1>3. CASE CheckQuota(r)
  BY <1>3 DEF CheckQuota, TypeOK
<1>4. CASE DenyQuota(r)
  BY <1>4 DEF DenyQuota, TypeOK
<1>5. ASSUME Reserve(r)
      PROVE  /\ pc' \in [Requests -> PC] /\ gate' \in Seq(Requests)
             /\ hold' \in [Requests -> Nat] /\ left' \in [Requests -> Nat]
             /\ UNCHANGED <<owed, late, books, ledger, charged, lost, orphaned>>
  BY <1>5, ConstantsType DEF Reserve, TypeOK
<1>6. CASE ReadBalance(r)
  BY <1>6 DEF ReadBalance, TypeOK
<1>7. CASE AdmitLocal(r) \/ AdmitRemote(r)
  BY <1>5, <1>7 DEF AdmitLocal, AdmitRemote, TypeOK
<1>8. CASE DenyCost(r)
  BY <1>8 DEF DenyCost, TypeOK
<1>9. CASE CountUser(r)
  BY BumpType, <1>9 DEF CountUser, TypeOK
<1>10. CASE CountChat(r)
  <2>1. userAdmitted' \in [Users -> Nat] /\ chatAdmitted' \in [Chats -> Nat]
    BY <1>10, CounterType DEF CountChat, TypeOK
  <2>2. QED
    BY BumpType, <1>10, <2>1 DEF CountChat, TypeOK
<1>11. CASE CountFails(r)
  <2>1. gate' \in Seq(Requests) /\ pc' \in [Requests -> PC]
    BY <1>11 DEF CountFails, TypeOK
  <2>2. userUsed' \in [Users -> Nat] /\ chatUsed' \in [Chats -> Nat]
    BY BumpType, <1>11 DEF CountFails, TypeOK
  <2>3. /\ hold' \in [Requests -> Nat] /\ left' \in [Requests -> Nat] /\ owed' \in [Requests -> Nat]
        /\ UNCHANGED <<late, books, ledger, charged, lost, orphaned>>
    BY <1>11 DEF CountFails, Release, TypeOK
  <2>4. UNCHANGED <<seen, bucket, userAdmitted, chatAdmitted, crashes>>
    BY <1>11 DEF CountFails
  <2>5. QED
    BY <2>1, <2>2, <2>3, <2>4 DEF TypeOK
<1>12. QED
  BY <1>1, <1>2, <1>3, <1>4, <1>6, <1>7, <1>8, <1>9, <1>10, <1>11 DEF Admission

LEMMA AccountingType ==
  ASSUME TypeOK, NEW r \in Requests, BeginCall(r) \/ Accounting(r)
  PROVE  TypeOK'
<1> USE Steps DEF Goto, accounting, quota
<1>1. CASE BeginCall(r)
  <2>1. PICK cost \in 0 .. Estimate[r] : owed' = [owed EXCEPT ![r] = cost]
    BY <1>1 DEF BeginCall
  <2>2. cost \in Nat
    BY <2>1, ConstantsType
  <2>3. owed' \in [Requests -> Nat] /\ left' \in [Requests -> Nat]
    BY <1>1, <2>1, <2>2 DEF BeginCall, TypeOK
  <2>4. QED
    BY <1>1, <2>3 DEF BeginCall, TypeOK
<1>2. CASE CallReturns(r)
  BY <1>2 DEF CallReturns, TypeOK
<1>3. CASE UnknownPrice(r)
  BY <1>3 DEF UnknownPrice, TypeOK
<1>4. Amount(r) \in Nat
  BY ConstantsType DEF Amount, TypeOK
<1>5. ASSUME Attribute(r, Amount(r))
      PROVE  ledger' \in Nat /\ charged' \in Nat /\ owed' \in [Requests -> Nat] /\ late' \in SUBSET Requests
  BY <1>4, <1>5 DEF Attribute, TypeOK
<1>6. CASE Recorded(r) \/ RecordedWithError(r)
  BY <1>5, <1>6 DEF Recorded, RecordedWithError, TypeOK
<1>7. CASE RecordFails(r)
  <2>1. owed[r] \in Nat /\ [owed EXCEPT ![r] = 0] \in [Requests -> Nat] /\ late \ {r} \in SUBSET Requests
    BY DEF TypeOK
  <2>2. owed' \in [Requests -> Nat] /\ late' \in SUBSET Requests
    BY <1>7, <2>1 DEF RecordFails, TypeOK
  <2>3. charged' \in Nat /\ lost' \in Nat
    BY <1>7, <2>1 DEF RecordFails, TypeOK
  <2>4. QED
    BY <1>7, <2>2, <2>3 DEF RecordFails, TypeOK
<1>8. CASE Finish(r)
  BY <1>8 DEF Finish, Release, TypeOK
<1>9. QED
  BY <1>1, <1>2, <1>3, <1>6, <1>7, <1>8 DEF Accounting

LEMMA StepType == TypeOK /\ [Next]_vars => TypeOK'
<1> SUFFICES ASSUME TypeOK, [Next]_vars PROVE TypeOK'
  OBVIOUS
<1>1. ASSUME NEW r \in Requests, Submit(r) PROVE TypeOK'
  BY <1>1, Steps DEF TypeOK, Submit, Goto, accounting, quota
<1>2. CASE NextHour
  BY <1>2 DEF NextHour, TypeOK, accounting
<1>3. CASE Midnight
  BY <1>3 DEF Midnight, TypeOK
<1>4. CASE Crash
  <2>1. Total(owed) \in Nat
    BY TotalType, BudgetAssumption DEF TypeOK
  <2>2. QED
    BY <1>4, <2>1, Steps DEF Crash, TypeOK, quota
<1>5. CASE UNCHANGED vars
  BY <1>5 DEF TypeOK, vars, accounting, quota
<1>6. QED
  BY <1>1, <1>2, <1>3, <1>4, <1>5, AdmissionType, AccountingType DEF Next

\* Every variable keeps the values the code can give it.
THEOREM TypeCorrect == Spec => []TypeOK
<1>1. QED
  BY InitType, StepType, PTL DEF Spec

-----------------------------------------------------------------------------
(* One link runs at a time *)

LEMMA OneLinkStep == TypeOK /\ OneLinkRuns /\ [Next]_vars => OneLinkRuns'
<1> SUFFICES ASSUME TypeOK, OneLinkRuns, [Next]_vars PROVE OneLinkRuns'
  OBVIOUS
<1> USE DEF OneLinkRuns, Link, Goto, TypeOK
<1>1. ASSUME NEW r \in Requests, Submit(r) PROVE OneLinkRuns'
  <2>1. gate # <<>> => Head(Append(gate, r)) = Head(gate)
    <3>1. gate # <<>> => Len(gate) >= 1
      OBVIOUS
    <3>2. QED
      BY <3>1
  <2>2. Append(gate, r) # <<>>
    <3> DEFINE longer == Append(gate, r)
    <3>1. Len(longer) = Len(gate) + 1 /\ Len(gate) \in Nat
      OBVIOUS
    <3> HIDE DEF longer
    <3>2. longer # <<>>
      BY <3>1
    <3>3. QED
      BY <3>2 DEF longer
  <2>3. QED
    BY <1>1, <2>1, <2>2 DEF Submit
<1>2. ASSUME NEW r \in Requests, NEW step, Running(r, step), pc' = [pc EXCEPT ![r] = "idle"] \/ pc' = [pc EXCEPT ![r] = "held"]
      PROVE OneLinkRuns'
  BY <1>2 DEF Running, Reserved
<1>3. ASSUME NEW r \in Requests, NEW step, Running(r, step), gate' = gate,
             NEW next \in {"authorized", "costing", "countUser", "countChat"},
             pc' = [pc EXCEPT ![r] = next]
      PROVE OneLinkRuns'
  BY <1>3 DEF Running
<1>4. ASSUME NEW r \in Requests, Admission(r) PROVE OneLinkRuns'
  <2>1. CASE Authorize(r) \/ CheckQuota(r) \/ CountUser(r)
    BY <1>3, <2>1 DEF Authorize, CheckQuota, CountUser
  <2>2. CASE AdmitLocal(r) \/ AdmitRemote(r)
    BY <1>3, <2>2 DEF AdmitLocal, AdmitRemote, Reserve
  <2>3. CASE ReadBalance(r)
    BY <2>3 DEF ReadBalance, Running
  <2>4. CASE Refuse(r) \/ DenyQuota(r) \/ DenyCost(r) \/ CountFails(r) \/ CountChat(r)
    BY <1>2, <2>4 DEF Refuse, DenyQuota, DenyCost, CountFails, CountChat, Deny
  <2>5. QED
    BY <1>4, <2>1, <2>2, <2>3, <2>4 DEF Admission
<1>5. ASSUME NEW r \in Requests, BeginCall(r) \/ Accounting(r) PROVE OneLinkRuns'
  <2>1. gate' = gate
    BY <1>5 DEF BeginCall, Accounting, CallReturns, UnknownPrice, Recorded, RecordedWithError, RecordFails, Finish
  <2>2. \A q \in Requests : pc'[q] \in Link => pc'[q] = pc[q]
    BY <1>5 DEF BeginCall, Accounting, CallReturns, Recording, UnknownPrice, Recorded,
                RecordedWithError, RecordFails, Finish
  <2>3. QED
    BY <2>1, <2>2
<1>6. CASE NextHour \/ Midnight
  BY <1>6 DEF NextHour, Midnight
<1>7. CASE Crash
  BY <1>7 DEF Crash
<1>8. CASE UNCHANGED vars
  BY <1>8 DEF vars
<1>9. QED
  BY <1>1, <1>4, <1>5, <1>6, <1>7, <1>8 DEF Next

-----------------------------------------------------------------------------
(* Exposure: what a request owes and may still spend *)

LEMMA ProductType == \A m, n \in Nat : m * n \in Nat
OBVIOUS

LEMMA ExposureType ==
  ASSUME TypeOK
  PROVE  /\ exposure \in [Requests -> Nat]
         /\ \A r \in Requests : exposure[r] = owed[r] + Estimate[r] * left[r]
         /\ Total(exposure) \in Nat /\ Total(hold) \in Nat
<1>1. \A r \in Requests : Estimate[r] * left[r] \in Nat
  BY ProductType, BudgetAssumption DEF TypeOK
<1>2. \A r \in Requests : owed[r] + Estimate[r] * left[r] \in Nat
  BY <1>1 DEF TypeOK
<1>3. exposure \in [Requests -> Nat]
  BY <1>2 DEF exposure
<1>4. Total(exposure) \in Nat /\ Total(hold) \in Nat
  BY <1>3, TotalType, BudgetAssumption DEF TypeOK
<1>5. QED
  BY <1>3, <1>4 DEF exposure

\* A step that moves one request's account moves its exposure alone.
LEMMA ExposureMoves ==
  ASSUME TypeOK, NEW r \in Requests, NEW o \in Nat, NEW l \in Nat,
         owed' = [owed EXCEPT ![r] = o], left' = [left EXCEPT ![r] = l]
  PROVE  /\ exposure' = [exposure EXCEPT ![r] = o + Estimate[r] * l]
         /\ Total(exposure)' = Total(exposure) - exposure[r] + (o + Estimate[r] * l)
<1> DEFINE v == o + Estimate[r] * l
<1>1. Estimate[r] * l \in Nat
  BY ProductType, BudgetAssumption
<1>2. v \in Nat
  BY <1>1
<1>3. exposure' = [exposure EXCEPT ![r] = v]
  BY DEF exposure, TypeOK
<1> HIDE DEF v
<1>4. Total([exposure EXCEPT ![r] = v]) = Total(exposure) - exposure[r] + v
  BY <1>2, ExposureType, TotalExcept, BudgetAssumption
<1>5. Total(exposure)' = Total(exposure')
  BY DEF exposure
<1>6. QED
  BY <1>3, <1>4, <1>5 DEF v

\* Releasing a request leaves it no exposure and no reservation.
LEMMA ReleaseMoves ==
  ASSUME TypeOK, NEW r \in Requests, Release(r)
  PROVE  /\ exposure' = [exposure EXCEPT ![r] = 0]
         /\ hold' = [hold EXCEPT ![r] = 0]
         /\ Total(exposure)' = Total(exposure) - exposure[r]
         /\ Total(hold)' = Total(hold) - hold[r]
<1>1. owed' = [owed EXCEPT ![r] = 0] /\ left' = [left EXCEPT ![r] = 0] /\ hold' = [hold EXCEPT ![r] = 0]
  BY DEF Release
<1>2. Estimate[r] * 0 = 0
  BY BudgetAssumption
<1>3. /\ exposure' = [exposure EXCEPT ![r] = 0]
      /\ Total(exposure)' = Total(exposure) - exposure[r] + 0
  <2>1. 0 + Estimate[r] * 0 = 0 /\ 0 \in Nat
    BY <1>2
  <2>2. /\ exposure' = [exposure EXCEPT ![r] = 0 + Estimate[r] * 0]
        /\ Total(exposure)' = Total(exposure) - exposure[r] + (0 + Estimate[r] * 0)
    BY <1>1, <2>1, ExposureMoves
  <2>3. QED
    BY <2>1, <2>2
<1>4. Total([hold EXCEPT ![r] = 0]) = Total(hold) - hold[r] + 0
  <2>1. hold \in [Requests -> Nat] /\ IsFiniteSet(Requests) /\ 0 \in Nat
    BY BudgetAssumption DEF TypeOK
  <2>2. QED
    BY <2>1, TotalExcept
<1>5. Total(hold)' = Total(hold')
  OBVIOUS
<1>6. hold[r] \in Nat /\ Total(hold) \in Nat /\ exposure[r] \in Nat /\ Total(exposure) \in Nat
  BY ExposureType DEF TypeOK
<1>7. QED
  BY <1>1, <1>3, <1>4, <1>5, <1>6

\* Reserving raises the reservations and the exposure by the same amount.
LEMMA ReserveMoves ==
  ASSUME TypeOK, NEW r \in Requests, Reserve(r)
  PROVE  LET price == Estimate[r] * Rounds[r]
         IN  /\ exposure' = [exposure EXCEPT ![r] = owed[r] + price]
             /\ hold' = [hold EXCEPT ![r] = price]
             /\ Total(exposure)' = Total(exposure) - exposure[r] + (owed[r] + price)
             /\ Total(hold)' = Total(hold) - hold[r] + price
<1> DEFINE price == Estimate[r] * Rounds[r]
<1>1. price \in Nat /\ Rounds[r] \in Nat
  BY ConstantsType
<1>2. owed' = [owed EXCEPT ![r] = owed[r]] /\ left' = [left EXCEPT ![r] = Rounds[r]]
  <2>1. owed' = owed /\ left' = [left EXCEPT ![r] = Rounds[r]]
    BY DEF Reserve
  <2>2. owed = [owed EXCEPT ![r] = owed[r]]
    BY DEF TypeOK
  <2>3. QED
    BY <2>1, <2>2
<1>3. owed[r] \in Nat
  BY DEF TypeOK
<1>4. /\ exposure' = [exposure EXCEPT ![r] = owed[r] + price]
      /\ Total(exposure)' = Total(exposure) - exposure[r] + (owed[r] + price)
  BY <1>1, <1>2, <1>3, ExposureMoves
<1>5. hold' = [hold EXCEPT ![r] = price]
  BY DEF Reserve
<1> HIDE DEF price
<1>6. Total([hold EXCEPT ![r] = price]) = Total(hold) - hold[r] + price
  <2>1. hold \in [Requests -> Nat] /\ IsFiniteSet(Requests)
    BY BudgetAssumption DEF TypeOK
  <2>2. QED
    BY <1>1, <2>1, TotalExcept
<1>7. Total(hold)' = Total(hold')
  OBVIOUS
<1>8. QED
  BY <1>4, <1>5, <1>6, <1>7 DEF price

LEMMA RoundFits ==
  ASSUME NEW e \in Nat, NEW n \in Nat, n > 0, NEW cost \in 0 .. e
  PROVE  n - 1 \in Nat /\ cost + e * (n - 1) <= e * n
<1>1. e * n = e * (n - 1) + e
  OBVIOUS
<1>2. n - 1 \in Nat /\ e * (n - 1) \in Nat
  BY ProductType
<1> DEFINE a == e * (n - 1)
           b == e * n
<1>3. b = a + e /\ a \in Nat
  BY <1>1, <1>2
<1> HIDE DEF a, b
<1>4. cost + a <= b
  BY <1>3
<1>5. QED
  BY <1>2, <1>4 DEF a, b

\* Beginning a call spends at most what the round was estimated at.
LEMMA CallMoves ==
  ASSUME TypeOK, NEW r \in Requests, BeginCall(r)
  PROVE  \E v \in Nat : /\ v <= exposure[r]
                        /\ exposure' = [exposure EXCEPT ![r] = v]
                        /\ Total(exposure)' = Total(exposure) - exposure[r] + v
                        /\ owed'[r] <= Estimate[r]
<1>1. PICK cost \in 0 .. Estimate[r] : owed' = [owed EXCEPT ![r] = cost]
  BY DEF BeginCall
<1>2. left' = [left EXCEPT ![r] = left[r] - 1] /\ left[r] > 0
  BY DEF BeginCall
<1>3. left[r] \in Nat /\ owed[r] \in Nat /\ Estimate[r] \in Nat /\ cost \in Nat
  BY ConstantsType DEF TypeOK
<1>4. left[r] - 1 \in Nat /\ cost + Estimate[r] * (left[r] - 1) <= Estimate[r] * left[r]
  BY <1>2, <1>3, RoundFits
<1> DEFINE v == cost + Estimate[r] * (left[r] - 1)
<1>5. /\ exposure' = [exposure EXCEPT ![r] = v]
      /\ Total(exposure)' = Total(exposure) - exposure[r] + v
  BY <1>1, <1>2, <1>3, <1>4, ExposureMoves
<1>6. v \in Nat
  BY <1>3, <1>4, ProductType
<1>7. v <= exposure[r]
  <2>1. exposure[r] = owed[r] + Estimate[r] * left[r] /\ Estimate[r] * left[r] \in Nat
    BY <1>3, ExposureType, ProductType
  <2>2. QED
    BY <1>3, <1>4, <1>6, <2>1
<1>8. owed'[r] <= Estimate[r]
  BY <1>1, <1>3 DEF TypeOK
<1> HIDE DEF v
<1>9. QED
  BY <1>5, <1>6, <1>7, <1>8

\* Booking a round moves what it cost out of the exposure.
LEMMA BookMoves ==
  ASSUME TypeOK, NEW r \in Requests, owed' = [owed EXCEPT ![r] = 0], left' = left
  PROVE  /\ exposure[r] - owed[r] \in Nat
         /\ exposure' = [exposure EXCEPT ![r] = exposure[r] - owed[r]]
         /\ Total(exposure)' = Total(exposure) - owed[r]
<1> DEFINE rest == Estimate[r] * left[r]
<1>1. left[r] \in Nat /\ owed[r] \in Nat /\ rest \in Nat
  BY ProductType, ConstantsType DEF TypeOK
<1>2. exposure[r] = owed[r] + rest
  BY ExposureType
<1>3. left' = [left EXCEPT ![r] = left[r]]
  BY DEF TypeOK
<1>4. /\ exposure' = [exposure EXCEPT ![r] = 0 + rest]
      /\ Total(exposure)' = Total(exposure) - exposure[r] + (0 + rest)
  BY <1>1, <1>3, ExposureMoves
<1>5. Total(exposure) \in Nat
  BY ExposureType
<1> HIDE DEF rest
<1>6. exposure[r] - owed[r] = 0 + rest /\ exposure[r] - owed[r] \in Nat
  BY <1>1, <1>2
<1>7. Total(exposure) - exposure[r] + (0 + rest) = Total(exposure) - owed[r]
  BY <1>1, <1>2, <1>5
<1>8. QED
  BY <1>4, <1>6, <1>7

-----------------------------------------------------------------------------
(* Exposure is reserved *)

\* Steps that leave every account as it is.
LEMMA QuietMoves ==
  ASSUME UNCHANGED <<hold, left, owed>>
  PROVE  /\ exposure' = exposure
         /\ Total(exposure)' = Total(exposure) /\ Total(hold)' = Total(hold)
<1>1. exposure' = exposure
  BY DEF exposure
<1>2. Total(exposure)' = Total(exposure')
  BY DEF exposure
<1>3. Total(hold)' = Total(hold')
  OBVIOUS
<1>4. QED
  BY <1>1, <1>2, <1>3

\* It is enough to look at the request whose account moves.
LEMMA ReservedAt ==
  ASSUME TypeOK, ExposureReserved, NEW r \in Requests, NEW e \in Nat, NEW h \in Nat,
         exposure' = [exposure EXCEPT ![r] = e], hold' = [hold EXCEPT ![r] = h],
         e <= h, pc'[r] \notin Reserved => h = 0,
         \A q \in Requests \ {r} : pc'[q] = pc[q]
  PROVE  ExposureReserved'
<1>1. exposure \in [Requests -> Nat] /\ hold \in [Requests -> Nat]
  BY ExposureType DEF TypeOK
<1>2. \A q \in Requests : /\ exposure'[q] <= hold'[q]
                          /\ pc'[q] \notin Reserved => hold'[q] = 0
  BY <1>1 DEF ExposureReserved
<1>3. QED
  BY <1>2 DEF ExposureReserved

\* A step that moves no account keeps the invariant if no request with a
\* reservation leaves the steps that have one.
LEMMA ReservedQuiet ==
  ASSUME ExposureReserved, UNCHANGED <<hold, left, owed>>,
         \A q \in Requests : pc[q] \in Reserved => pc'[q] \in Reserved
  PROVE  ExposureReserved'
<1>1. exposure' = exposure /\ hold' = hold
  BY QuietMoves
<1>2. \A q \in Requests : /\ exposure'[q] <= hold'[q]
                          /\ pc'[q] \notin Reserved => hold'[q] = 0
  BY <1>1 DEF ExposureReserved
<1>3. QED
  BY <1>2 DEF ExposureReserved

LEMMA ReservedAdmission ==
  ASSUME TypeOK, ExposureReserved, NEW r \in Requests, Admission(r)
  PROVE  ExposureReserved'
<1>1. CASE Authorize(r) \/ Refuse(r) \/ CheckQuota(r) \/ DenyQuota(r) \/ ReadBalance(r) \/ DenyCost(r)
  <2>1. UNCHANGED <<hold, left, owed>>
    BY <1>1 DEF Authorize, Refuse, CheckQuota, DenyQuota, ReadBalance, DenyCost, accounting
  <2>2. pc[r] \notin Reserved /\ \A q \in Requests \ {r} : pc'[q] = pc[q]
    BY <1>1 DEF Authorize, Refuse, CheckQuota, DenyQuota, ReadBalance, DenyCost, Running, Goto,
                Deny, Reserved, Recording, TypeOK
  <2>3. QED
    BY <2>1, <2>2, ReservedQuiet
<1>2. CASE CountUser(r) \/ CountChat(r)
  <2>1. UNCHANGED <<hold, left, owed>>
    BY <1>2 DEF CountUser, CountChat, accounting
  <2>2. \A q \in Requests : pc[q] \in Reserved => pc'[q] \in Reserved
    BY <1>2 DEF CountUser, CountChat, Goto, Reserved, TypeOK
  <2>3. QED
    BY <2>1, <2>2, ReservedQuiet
<1>3. CASE AdmitLocal(r) \/ AdmitRemote(r)
  <2> DEFINE price == Estimate[r] * Rounds[r]
  <2>1. Reserve(r) /\ pc[r] \notin Reserved
    BY <1>3 DEF AdmitLocal, AdmitRemote, Running, Reserved, Recording
  <2>2. pc'[r] \in Reserved /\ \A q \in Requests \ {r} : pc'[q] = pc[q]
    BY <2>1 DEF Reserve, Goto, Reserved, TypeOK
  <2>3. exposure[r] <= 0
    BY <2>1 DEF ExposureReserved
  <2>4. owed[r] = 0
    <3>1. owed[r] \in Nat /\ Estimate[r] * left[r] \in Nat
      BY ProductType, ConstantsType DEF TypeOK
    <3>2. exposure[r] = owed[r] + Estimate[r] * left[r]
      BY ExposureType
    <3>3. QED
      BY <2>3, <3>1, <3>2
  <2>5. /\ exposure' = [exposure EXCEPT ![r] = owed[r] + price]
        /\ hold' = [hold EXCEPT ![r] = price]
    BY <2>1, ReserveMoves
  <2>6. price \in Nat
    BY ConstantsType
  <2> HIDE DEF price
  <2>7. owed[r] + price = price
    BY <2>4, <2>6
  <2>8. exposure' = [exposure EXCEPT ![r] = price]
    BY <2>5, <2>7
  <2>9. price <= price
    BY <2>6
  <2>10. QED
    BY <2>2, <2>5, <2>6, <2>8, <2>9, ReservedAt
<1>4. CASE CountFails(r)
  <2>1. Release(r) /\ \A q \in Requests \ {r} : pc'[q] = pc[q]
    BY <1>4 DEF CountFails, Deny, Goto, TypeOK
  <2>2. exposure' = [exposure EXCEPT ![r] = 0] /\ hold' = [hold EXCEPT ![r] = 0]
    BY <2>1, ReleaseMoves
  <2>3. 0 \in Nat /\ 0 <= 0
    OBVIOUS
  <2>4. QED
    BY <2>1, <2>2, <2>3, ReservedAt
<1>5. QED
  BY <1>1, <1>2, <1>3, <1>4 DEF Admission

LEMMA ReservedAccounting ==
  ASSUME TypeOK, ExposureReserved, NEW r \in Requests, BeginCall(r) \/ Accounting(r)
  PROVE  ExposureReserved'
<1>1. CASE BeginCall(r)
  <2>1. PICK v \in Nat : v <= exposure[r] /\ exposure' = [exposure EXCEPT ![r] = v]
    BY <1>1, CallMoves
  <2>2. hold' = hold /\ pc[r] \in Reserved /\ pc'[r] \in Reserved /\ \A q \in Requests \ {r} : pc'[q] = pc[q]
    BY <1>1 DEF BeginCall, Goto, Reserved, TypeOK
  <2>3. hold[r] \in Nat /\ hold' = [hold EXCEPT ![r] = hold[r]]
    BY <2>2 DEF TypeOK
  <2>4. exposure[r] \in Nat /\ v <= hold[r]
    BY <2>1, <2>3, ExposureType DEF ExposureReserved
  <2>5. QED
    BY <2>1, <2>2, <2>3, <2>4, ReservedAt
<1>2. CASE CallReturns(r) \/ UnknownPrice(r)
  <2>1. UNCHANGED <<hold, left, owed>>
    BY <1>2 DEF CallReturns, UnknownPrice, accounting
  <2>2. \A q \in Requests : pc[q] \in Reserved => pc'[q] \in Reserved
    BY <1>2 DEF CallReturns, UnknownPrice, Goto, Reserved, Recording, TypeOK
  <2>3. QED
    BY <2>1, <2>2, ReservedQuiet
<1>3. ASSUME owed' = [owed EXCEPT ![r] = 0], left' = left, hold' = hold,
             pc'[r] \in Reserved, \A q \in Requests \ {r} : pc'[q] = pc[q]
      PROVE  ExposureReserved'
  <2> DEFINE rest == exposure[r] - owed[r]
  <2>1. rest \in Nat /\ exposure' = [exposure EXCEPT ![r] = rest]
    BY <1>3, BookMoves
  <2>2. hold[r] \in Nat /\ hold' = [hold EXCEPT ![r] = hold[r]]
    BY <1>3 DEF TypeOK
  <2>3. exposure[r] \in Nat /\ owed[r] \in Nat /\ exposure[r] <= hold[r]
    BY ExposureType DEF TypeOK, ExposureReserved
  <2>4. rest <= hold[r]
    BY <2>2, <2>3
  <2> HIDE DEF rest
  <2>5. QED
    BY <1>3, <2>1, <2>2, <2>4, ReservedAt
<1>4. CASE Recorded(r) \/ RecordedWithError(r)
  <2>1. owed' = [owed EXCEPT ![r] = 0] /\ left' = left /\ hold' = hold
    BY <1>4 DEF Recorded, RecordedWithError, Attribute
  <2>2. pc'[r] \in Reserved /\ \A q \in Requests \ {r} : pc'[q] = pc[q]
    BY <1>4 DEF Recorded, RecordedWithError, Goto, Reserved, Recording, TypeOK
  <2>3. QED
    BY <1>3, <2>1, <2>2
<1>5. CASE RecordFails(r)
  <2>1. left' = left /\ hold' = hold
    BY <1>5 DEF RecordFails
  <2>2. pc[r] \in Reserved /\ pc'[r] \in Reserved /\ \A q \in Requests \ {r} : pc'[q] = pc[q]
    BY <1>5 DEF RecordFails, Goto, Reserved, Recording, TypeOK
  <2>3. owed' = owed \/ owed' = [owed EXCEPT ![r] = 0]
    BY <1>5 DEF RecordFails
  <2>4. CASE owed' = owed
    BY <2>1, <2>2, <2>4, ReservedQuiet
  <2>5. QED
    BY <1>3, <2>1, <2>2, <2>3, <2>4
<1>6. CASE Finish(r)
  <2>1. Release(r) /\ \A q \in Requests \ {r} : pc'[q] = pc[q]
    BY <1>6 DEF Finish, Goto, TypeOK
  <2>2. exposure' = [exposure EXCEPT ![r] = 0] /\ hold' = [hold EXCEPT ![r] = 0]
    BY <2>1, ReleaseMoves
  <2>3. 0 \in Nat /\ 0 <= 0
    OBVIOUS
  <2>4. QED
    BY <2>1, <2>2, <2>3, ReservedAt
<1>7. QED
  BY <1>1, <1>2, <1>4, <1>5, <1>6 DEF Accounting

LEMMA CrashMoves ==
  ASSUME Crash
  PROVE  /\ hold' = [q \in Requests |-> 0]
         /\ exposure' = [q \in Requests |-> 0]
         /\ Total(exposure)' = 0 /\ Total(hold)' = 0
<1>1. /\ hold' = [q \in Requests |-> 0]
      /\ owed' = [q \in Requests |-> 0]
      /\ left' = [q \in Requests |-> 0]
  BY DEF Crash
<1>2. \A q \in Requests : 0 + Estimate[q] * 0 = 0
  BY BudgetAssumption
<1>3. exposure' = [q \in Requests |-> 0]
  BY <1>1, <1>2 DEF exposure
<1>4. Total(exposure)' = Total(exposure')
  BY DEF exposure
<1>5. Total(hold)' = Total(hold')
  OBVIOUS
<1>6. QED
  BY <1>1, <1>3, <1>4, <1>5, TotalZero

LEMMA ReservedStep == TypeOK /\ ExposureReserved /\ [Next]_vars => ExposureReserved'
<1> SUFFICES ASSUME TypeOK, ExposureReserved, [Next]_vars PROVE ExposureReserved'
  OBVIOUS
<1>1. ASSUME NEW r \in Requests, Submit(r) PROVE ExposureReserved'
  <2>1. UNCHANGED <<hold, left, owed>>
    BY <1>1 DEF Submit, accounting
  <2>2. pc[r] \notin Reserved /\ \A q \in Requests \ {r} : pc'[q] = pc[q]
    BY <1>1 DEF Submit, Goto, Reserved, Recording, TypeOK
  <2>3. QED
    BY <2>1, <2>2, ReservedQuiet
<1>2. CASE NextHour \/ Midnight \/ UNCHANGED vars
  <2>1. UNCHANGED <<hold, left, owed, pc>>
    BY <1>2 DEF NextHour, Midnight, vars, accounting
  <2>2. QED
    BY <2>1, ReservedQuiet
<1>3. CASE Crash
  <2>1. \A q \in Requests : exposure'[q] = 0 /\ hold'[q] = 0
    BY <1>3, CrashMoves
  <2>2. \A q \in Requests : /\ exposure'[q] <= hold'[q]
                            /\ pc'[q] \notin Reserved => hold'[q] = 0
    BY <2>1
  <2>3. QED
    BY <2>2 DEF ExposureReserved
<1>4. QED
  BY <1>1, <1>2, <1>3, ReservedAdmission, ReservedAccounting DEF Next

-----------------------------------------------------------------------------
(* Estimates cover costs, and losses are latched *)

LEMMA EstimatedStep == TypeOK /\ OwedIsEstimated /\ [Next]_vars => OwedIsEstimated'
<1> SUFFICES ASSUME TypeOK, OwedIsEstimated, [Next]_vars PROVE OwedIsEstimated'
  OBVIOUS
<1>1. \A q \in Requests : Estimate[q] \in Nat
  BY ConstantsType
<1>2. ASSUME \A q \in Requests : owed'[q] = owed[q] \/ owed'[q] = 0
      PROVE  OwedIsEstimated'
  <2>1. \A q \in Requests : owed'[q] <= Estimate[q]
    BY <1>1, <1>2 DEF OwedIsEstimated
  <2>2. QED
    BY <2>1 DEF OwedIsEstimated
<1>3. ASSUME NEW r \in Requests, BeginCall(r) PROVE OwedIsEstimated'
  <2>1. owed'[r] <= Estimate[r] /\ \A q \in Requests \ {r} : owed'[q] = owed[q]
    BY <1>3, CallMoves DEF BeginCall, TypeOK
  <2>2. QED
    BY <2>1 DEF OwedIsEstimated
<1>4. ASSUME NEW r \in Requests, Admission(r)
      PROVE  \A q \in Requests : owed'[q] = owed[q] \/ owed'[q] = 0
  BY <1>4 DEF TypeOK, Admission, Authorize, Refuse, CheckQuota, DenyQuota, AdmitLocal, ReadBalance, AdmitRemote,
              DenyCost, CountUser, CountChat, CountFails, Release, Reserve, accounting
<1>5. ASSUME NEW r \in Requests, Accounting(r)
      PROVE  \A q \in Requests : owed'[q] = owed[q] \/ owed'[q] = 0
  BY <1>5 DEF TypeOK, Accounting, CallReturns, UnknownPrice, Recorded, RecordedWithError, RecordFails,
              Finish, Attribute, Release, accounting
<1>6. ASSUME NEW r \in Requests, Submit(r) PROVE owed' = owed
  BY <1>6 DEF Submit, accounting
<1>7. CASE NextHour \/ Midnight \/ Crash \/ UNCHANGED vars
  BY <1>2, <1>7 DEF NextHour, Midnight, Crash, vars, accounting
<1>8. QED
  BY <1>2, <1>3, <1>4, <1>5, <1>6, <1>7 DEF Next

\* The row written after a round covers what the round cost.
LEMMA AmountCovers ==
  ASSUME TypeOK, OwedIsEstimated, NEW r \in Requests
  PROVE  Amount(r) \in Nat /\ owed[r] \in Nat /\ owed[r] <= Amount(r)
BY ConstantsType DEF TypeOK, OwedIsEstimated, Amount

LEMMA LossStep == TypeOK /\ OwedIsEstimated /\ LossIsLatched /\ [Next]_vars => LossIsLatched'
<1> SUFFICES ASSUME TypeOK, OwedIsEstimated, LossIsLatched, [Next]_vars PROVE LossIsLatched'
  OBVIOUS
<1>1. /\ ledger \in Nat /\ charged \in Nat /\ lost \in Nat /\ orphaned \in Nat
      /\ charged <= ledger + lost /\ orphaned <= lost
      /\ books = "open" => lost = orphaned
  BY DEF TypeOK, LossIsLatched
<1>2. ASSUME UNCHANGED <<ledger, charged, lost, orphaned>>, books' = books \/ books' = "faulted"
      PROVE  LossIsLatched'
  BY <1>1, <1>2 DEF LossIsLatched
<1>3. ASSUME NEW r \in Requests, Submit(r) \/ Admission(r) \/ BeginCall(r)
      PROVE  LossIsLatched'
  <2>1. UNCHANGED <<ledger, charged, lost, orphaned, books>>
    BY <1>3 DEF Submit, Admission, BeginCall, Authorize, Refuse, CheckQuota, DenyQuota, AdmitLocal,
                ReadBalance, AdmitRemote, DenyCost, CountUser, CountChat, CountFails, Release,
                Reserve, accounting
  <2>2. QED
    BY <1>2, <2>1
<1>4. ASSUME NEW r \in Requests, CallReturns(r) \/ UnknownPrice(r) \/ Finish(r)
      PROVE  LossIsLatched'
  <2>1. UNCHANGED <<ledger, charged, lost, orphaned>> /\ (books' = books \/ books' = "faulted")
    BY <1>4 DEF CallReturns, UnknownPrice, Finish, Release, accounting
  <2>2. QED
    BY <1>2, <2>1
<1>5. ASSUME NEW r \in Requests, Recorded(r) \/ RecordedWithError(r)
      PROVE  LossIsLatched'
  <2>1. /\ ledger' = IF r \in late THEN ledger ELSE ledger + Amount(r)
        /\ charged' = IF r \in late THEN charged ELSE charged + owed[r]
        /\ UNCHANGED <<lost, orphaned>> /\ (books' = books \/ books' = "faulted")
    BY <1>5 DEF Recorded, RecordedWithError, Attribute
  <2>2. QED
    BY <1>1, <2>1, AmountCovers DEF LossIsLatched
<1>6. ASSUME NEW r \in Requests, RecordFails(r) PROVE LossIsLatched'
  <2>1. books' = "faulted" /\ ledger' = ledger /\ orphaned' = orphaned
    BY <1>6 DEF RecordFails
  <2>2. \/ charged' = charged /\ lost' = lost
        \/ charged' = charged + owed[r] /\ lost' = lost + owed[r]
    BY <1>6 DEF RecordFails
  <2>3. owed[r] \in Nat
    BY DEF TypeOK
  <2>4. QED
    BY <1>1, <2>1, <2>2, <2>3 DEF LossIsLatched
<1>7. CASE NextHour \/ UNCHANGED vars
  BY <1>2, <1>7 DEF NextHour, vars, accounting
<1>8. CASE Midnight
  BY <1>8 DEF Midnight, LossIsLatched
<1>9. CASE Crash
  <2>1. Total(owed) \in Nat
    BY TotalType, BudgetAssumption DEF TypeOK
  <2>2. /\ charged' = charged + Total(owed) /\ lost' = lost + Total(owed)
        /\ orphaned' = lost' /\ ledger' = ledger
    BY <1>9 DEF Crash
  <2>3. QED
    BY <1>1, <2>1, <2>2 DEF LossIsLatched
<1>10. QED
  BY <1>3, <1>4, <1>5, <1>6, <1>7, <1>8, <1>9 DEF Next, Accounting

-----------------------------------------------------------------------------
(* The cap *)

\* What the code reserves bounds what its requests may still spend.
LEMMA ExposureBelow ==
  ASSUME TypeOK, ExposureReserved
  PROVE  Total(exposure) <= Total(hold)
<1>1. exposure \in [Requests -> Nat] /\ hold \in [Requests -> Nat]
  BY ExposureType DEF TypeOK
<1>2. \A q \in Requests : exposure[q] <= hold[q]
  BY DEF ExposureReserved
<1>3. IsFiniteSet(Requests)
  BY BudgetAssumption
<1> HIDE DEF exposure
<1>4. QED
  BY <1>1, <1>2, <1>3, TotalMonotone

\* The money of the day, as numbers.
LEMMA MoneyType ==
  ASSUME TypeOK
  PROVE  /\ charged \in Nat /\ ledger \in Nat /\ seen \in Nat /\ lost \in Nat /\ orphaned \in Nat
         /\ Cap \in Nat
         /\ Total(exposure) \in Nat /\ Total(hold) \in Nat
         /\ \A r \in Requests : exposure[r] \in Nat /\ hold[r] \in Nat /\ owed[r] \in Nat
BY ExposureType, BudgetAssumption DEF TypeOK

\* A step that commits no new money keeps the cap.
LEMMA CapKeeps ==
  ASSUME TypeOK, CapInv, Total(hold)' \in Nat, Total(exposure)' \in Nat, charged' \in Nat,
         Total(hold)' <= Total(hold), charged' + Total(exposure)' <= charged + Total(exposure),
         UNCHANGED <<orphaned, seen>>, \A q \in Requests : pc'[q] = "reading" => pc[q] = "reading"
  PROVE  CapInv'
BY MoneyType DEF CapInv, activeReservations

\* While one link is at a step, no other waits for a balance.
LEMMA NoOtherReader ==
  ASSUME OneLinkRuns, NEW r \in Requests, NEW step, Running(r, step), NEW q \in Requests, pc[q] = "reading"
  PROVE  q = r /\ Store = "network"
BY DEF OneLinkRuns, Running, Link

\* A reservation from no account at all.
LEMMA ReserveFresh ==
  ASSUME TypeOK, ExposureReserved, NEW r \in Requests, Reserve(r), pc[r] \notin Reserved
  PROVE  /\ Total(exposure)' = Total(exposure) + Estimate[r] * Rounds[r]
         /\ Total(hold)' = Total(hold) + Estimate[r] * Rounds[r]
         /\ UNCHANGED <<charged, orphaned>>
         /\ pc' = [pc EXCEPT ![r] = "countUser"]
<1> DEFINE price == Estimate[r] * Rounds[r]
<1>1. price \in Nat
  BY ConstantsType
<1>2. /\ Total(exposure)' = Total(exposure) - exposure[r] + (owed[r] + price)
      /\ Total(hold)' = Total(hold) - hold[r] + price
  BY ReserveMoves
<1> HIDE DEF price
<1>3. hold[r] = 0 /\ exposure[r] <= 0
  BY DEF ExposureReserved
<1>4. owed[r] <= exposure[r]
  <2> DEFINE rest == Estimate[r] * left[r]
  <2>1. owed[r] \in Nat /\ rest \in Nat
    BY ProductType, ConstantsType DEF TypeOK
  <2>2. exposure[r] = owed[r] + rest
    BY ExposureType
  <2> HIDE DEF rest
  <2>3. QED
    BY <2>1, <2>2
<1>5. exposure[r] = 0 /\ owed[r] = 0
  BY <1>3, <1>4, MoneyType
<1>6. /\ Total(exposure)' = Total(exposure) + price
      /\ Total(hold)' = Total(hold) + price
  BY <1>1, <1>2, <1>3, <1>5, MoneyType
<1>7. UNCHANGED <<charged, orphaned>> /\ pc' = [pc EXCEPT ![r] = "countUser"]
  BY DEF Reserve, Goto
<1>8. QED
  BY <1>6, <1>7 DEF price

LEMMA CapAdmission ==
  ASSUME TypeOK, OneLinkRuns, ExposureReserved, LossIsLatched, CapInv,
         NEW r \in Requests, Admission(r)
  PROVE  CapInv'
<1>1. Total(exposure) <= Total(hold)
  BY ExposureBelow
<1>2. books = "open" => charged <= ledger + orphaned
  BY DEF LossIsLatched
<1>3. CASE Authorize(r) \/ Refuse(r) \/ CheckQuota(r) \/ DenyQuota(r) \/ DenyCost(r)
           \/ CountUser(r) \/ CountChat(r)
  <2>1. UNCHANGED <<hold, left, owed, charged, orphaned, seen>>
    BY <1>3 DEF Authorize, Refuse, CheckQuota, DenyQuota, DenyCost, CountUser, CountChat, accounting
  <2>2. \A q \in Requests : pc'[q] = "reading" => pc[q] = "reading"
    BY <1>3 DEF Authorize, Refuse, CheckQuota, DenyQuota, DenyCost, CountUser, CountChat, Deny, Goto, TypeOK
  <2>3. Total(exposure)' = Total(exposure) /\ Total(hold)' = Total(hold)
    BY <2>1, QuietMoves
  <2>4. QED
    BY <2>1, <2>2, <2>3, CapKeeps, MoneyType
<1>4. CASE CountFails(r)
  <2>1. Release(r) /\ UNCHANGED <<charged, orphaned, seen>>
    BY <1>4 DEF CountFails, Release
  <2>2. \A q \in Requests : pc'[q] = "reading" => pc[q] = "reading"
    BY <1>4 DEF CountFails, Deny, Goto, TypeOK
  <2>3. Total(exposure)' = Total(exposure) - exposure[r] /\ Total(hold)' = Total(hold) - hold[r]
    BY <2>1, ReleaseMoves
  <2>4. exposure[r] <= Total(exposure) /\ hold[r] <= Total(hold)
    BY ExposureType, TotalTerm, BudgetAssumption DEF TypeOK
  <2>5. QED
    BY <2>1, <2>2, <2>3, <2>4, CapKeeps, MoneyType
<1>5. CASE ReadBalance(r)
  <2>1. /\ UNCHANGED <<hold, left, owed, charged, orphaned>> /\ seen' = ledger
        /\ books = "open" /\ Running(r, "costing")
    BY <1>5 DEF ReadBalance, accounting
  <2>2. Total(exposure)' = Total(exposure) /\ Total(hold)' = Total(hold)
    BY <2>1, QuietMoves
  <2>3. QED
    BY <1>1, <1>2, <2>1, <2>2, MoneyType DEF CapInv, activeReservations
<1>6. ASSUME NEW step \in {"costing", "reading"}, Running(r, step), Reserve(r)
      PROVE  /\ pc[r] = step /\ pc[r] \notin Reserved
             /\ \A q \in Requests : pc'[q] # "reading"
  <2>1. pc[r] = step /\ pc[r] \notin Reserved
    BY <1>6 DEF Running, Reserved, Recording
  <2>2. \A q \in Requests \ {r} : pc[q] # "reading"
    BY <1>6, NoOtherReader
  <2>3. pc' = [pc EXCEPT ![r] = "countUser"]
    BY <1>6 DEF Reserve, Goto
  <2>4. QED
    BY <2>1, <2>2, <2>3 DEF TypeOK
<1>7. CASE AdmitLocal(r)
  <2> DEFINE price == Estimate[r] * Rounds[r]
  <2>1. Running(r, "costing") /\ Reserve(r) /\ books = "open"
    BY <1>7 DEF AdmitLocal
  <2>2. pc[r] \notin Reserved /\ \A q \in Requests : pc'[q] # "reading"
    BY <1>6, <2>1
  <2>3. /\ Total(exposure)' = Total(exposure) + price
        /\ Total(hold)' = Total(hold) + price
        /\ UNCHANGED <<charged, orphaned>>
    BY <2>1, <2>2, ReserveFresh
  <2>4. Cap > 0 => ledger + Total(hold) + price <= Cap
    BY <1>7, MoneyType DEF AdmitLocal, WithinCap, activeReservations
  <2>5. price \in Nat
    BY ConstantsType
  <2> HIDE DEF price
  <2>6. QED
    BY <1>1, <1>2, <2>1, <2>2, <2>3, <2>4, <2>5, MoneyType DEF CapInv, activeReservations
<1>8. CASE AdmitRemote(r)
  <2> DEFINE price == Estimate[r] * Rounds[r]
  <2>1. Running(r, "reading") /\ Reserve(r)
    BY <1>8 DEF AdmitRemote
  <2>2. pc[r] = "reading" /\ pc[r] \notin Reserved /\ \A q \in Requests : pc'[q] # "reading"
    BY <1>6, <2>1
  <2>3. Store = "network"
    BY <2>2 DEF OneLinkRuns
  <2>4. /\ Total(exposure)' = Total(exposure) + price
        /\ Total(hold)' = Total(hold) + price
        /\ UNCHANGED <<charged, orphaned>>
    BY <2>1, <2>2, ReserveFresh
  <2>5. Cap > 0 => seen + Total(hold) + price <= Cap
    BY <1>8, MoneyType DEF AdmitRemote, WithinCap, activeReservations
  <2>6. Cap > 0 => charged + Total(exposure) <= seen + Cap + orphaned
    BY <2>2 DEF CapInv
  <2>7. price \in Nat
    BY ConstantsType
  <2> HIDE DEF price
  <2>8. QED
    BY <2>2, <2>3, <2>4, <2>5, <2>6, <2>7, MoneyType DEF CapInv, activeReservations
<1>9. QED
  BY <1>3, <1>4, <1>5, <1>7, <1>8 DEF Admission

LEMMA CapAccounting ==
  ASSUME TypeOK, ExposureReserved, CapInv, NEW r \in Requests, BeginCall(r) \/ Accounting(r)
  PROVE  CapInv'
<1>1. /\ UNCHANGED <<orphaned, seen>>
      /\ \A q \in Requests : pc'[q] = "reading" => pc[q] = "reading"
  BY DEF BeginCall, Accounting, CallReturns, UnknownPrice, Recorded, RecordedWithError, RecordFails,
         Finish, Release, Goto, Recording, accounting, TypeOK
<1>2. owed[r] <= exposure[r] /\ exposure[r] <= Total(exposure) /\ hold[r] <= Total(hold)
  <2> DEFINE rest == Estimate[r] * left[r]
  <2>1. owed[r] \in Nat /\ rest \in Nat
    BY ProductType, ConstantsType DEF TypeOK
  <2>2. exposure[r] = owed[r] + rest
    BY ExposureType
  <2> HIDE DEF rest
  <2>3. exposure[r] <= Total(exposure) /\ hold[r] <= Total(hold)
    BY ExposureType, TotalTerm, BudgetAssumption DEF TypeOK
  <2>4. QED
    BY <2>1, <2>2, <2>3
<1>3. CASE BeginCall(r)
  <2>1. PICK v \in Nat : /\ v <= exposure[r]
                         /\ Total(exposure)' = Total(exposure) - exposure[r] + v
    BY <1>3, CallMoves
  <2>2. hold' = hold /\ charged' = charged
    BY <1>3 DEF BeginCall
  <2>3. Total(hold)' = Total(hold)
    <3>1. Total(hold)' = Total(hold')
      OBVIOUS
    <3>2. QED
      BY <2>2, <3>1
  <2>4. QED
    BY <1>1, <1>2, <2>1, <2>2, <2>3, CapKeeps, MoneyType
<1>4. CASE CallReturns(r) \/ UnknownPrice(r)
  <2>1. UNCHANGED <<hold, left, owed, charged>>
    BY <1>4 DEF CallReturns, UnknownPrice, accounting
  <2>2. Total(exposure)' = Total(exposure) /\ Total(hold)' = Total(hold)
    BY <2>1, QuietMoves
  <2>3. QED
    BY <1>1, <2>1, <2>2, CapKeeps, MoneyType
<1>5. ASSUME owed' = [owed EXCEPT ![r] = 0], UNCHANGED <<left, hold>>,
             charged' = charged \/ charged' = charged + owed[r]
      PROVE  CapInv'
  <2>1. Total(exposure)' = Total(exposure) - owed[r]
    BY <1>5, BookMoves
  <2>2. Total(hold)' = Total(hold)
    <3>1. Total(hold)' = Total(hold')
      OBVIOUS
    <3>2. QED
      BY <1>5, <3>1
  <2>3. Total(exposure)' \in Nat /\ charged' \in Nat /\ charged' + Total(exposure)' <= charged + Total(exposure)
    BY <1>2, <1>5, <2>1, MoneyType
  <2>4. QED
    BY <1>1, <2>2, <2>3, CapKeeps, MoneyType
<1>6. CASE Recorded(r) \/ RecordedWithError(r)
  <2>1. /\ owed' = [owed EXCEPT ![r] = 0] /\ UNCHANGED <<left, hold>>
        /\ charged' = charged \/ charged' = charged + owed[r]
    BY <1>6 DEF Recorded, RecordedWithError, Attribute
  <2>2. QED
    BY <1>5, <2>1
<1>7. CASE RecordFails(r)
  <2>1. /\ UNCHANGED <<left, hold>>
        /\ \/ UNCHANGED <<owed, charged>>
           \/ /\ owed' = [owed EXCEPT ![r] = 0]
              /\ charged' = charged \/ charged' = charged + owed[r]
    BY <1>7 DEF RecordFails
  <2>2. CASE UNCHANGED <<owed, charged>>
    <3>1. Total(exposure)' = Total(exposure) /\ Total(hold)' = Total(hold)
      BY <2>1, <2>2, QuietMoves
    <3>2. QED
      BY <1>1, <2>2, <3>1, CapKeeps, MoneyType
  <2>3. QED
    BY <1>5, <2>1, <2>2
<1>8. CASE Finish(r)
  <2>1. Release(r) /\ charged' = charged
    BY <1>8 DEF Finish, Release
  <2>2. Total(exposure)' = Total(exposure) - exposure[r] /\ Total(hold)' = Total(hold) - hold[r]
    BY <2>1, ReleaseMoves
  <2>3. QED
    BY <1>1, <1>2, <2>1, <2>2, CapKeeps, MoneyType
<1>9. QED
  BY <1>3, <1>4, <1>6, <1>7, <1>8 DEF Accounting

\* A crash forgets the reservations, and with them at most what was owed.
LEMMA CapCrash ==
  ASSUME TypeOK, LossIsLatched, CapInv, Crash
  PROVE  CapInv'
<1>1. Total(exposure)' = 0 /\ Total(hold)' = 0
  BY CrashMoves
<1>2. charged' = charged + Total(owed) /\ orphaned' = lost + Total(owed)
  BY DEF Crash
<1>3. Total(owed) <= Total(exposure)
  <2>1. IsFiniteSet(Requests) /\ owed \in [Requests -> Nat] /\ exposure \in [Requests -> Nat]
    BY ExposureType, BudgetAssumption DEF TypeOK
  <2>2. ASSUME NEW q \in Requests PROVE owed[q] <= exposure[q]
    <3> DEFINE rest == Estimate[q] * left[q]
    <3>1. owed[q] \in Nat /\ rest \in Nat
      BY ProductType, ConstantsType DEF TypeOK
    <3>2. exposure[q] = owed[q] + rest
      BY ExposureType
    <3> HIDE DEF rest
    <3>3. QED
      BY <3>1, <3>2
  <2> HIDE DEF exposure
  <2>3. QED
    BY <2>1, <2>2, TotalMonotone
<1>4. Total(owed) \in Nat
  BY TotalType, BudgetAssumption DEF TypeOK
<1>5. orphaned <= lost /\ \A q \in Requests : pc'[q] # "reading"
  BY DEF LossIsLatched, Crash
<1>6. QED
  BY <1>1, <1>2, <1>3, <1>4, <1>5, MoneyType DEF CapInv, activeReservations

\* A new day starts with the money that is still in flight.
LEMMA CapMidnight ==
  ASSUME TypeOK, ExposureReserved, CapInv, Midnight
  PROVE  CapInv'
<1>1. UNCHANGED <<hold, left, owed, seen, pc>> /\ charged' = 0 /\ orphaned' = 0
  BY DEF Midnight
<1>2. Total(exposure)' = Total(exposure) /\ Total(hold)' = Total(hold)
  BY <1>1, QuietMoves
<1>3. QED
  BY <1>1, <1>2, ExposureBelow, MoneyType DEF CapInv, activeReservations

LEMMA CapStep ==
  TypeOK /\ OneLinkRuns /\ ExposureReserved /\ LossIsLatched /\ CapInv /\ [Next]_vars => CapInv'
<1> SUFFICES ASSUME TypeOK, OneLinkRuns, ExposureReserved, LossIsLatched, CapInv, [Next]_vars PROVE CapInv'
  OBVIOUS
<1>1. ASSUME UNCHANGED <<hold, left, owed, charged, orphaned, seen>>,
             \A q \in Requests : pc'[q] = "reading" => pc[q] = "reading"
      PROVE  CapInv'
  <2>1. Total(exposure)' = Total(exposure) /\ Total(hold)' = Total(hold)
    BY <1>1, QuietMoves
  <2>2. QED
    BY <1>1, <2>1, CapKeeps, MoneyType
<1>2. ASSUME NEW r \in Requests, Submit(r) PROVE CapInv'
  BY <1>1, <1>2 DEF Submit, Goto, accounting, TypeOK
<1>3. CASE NextHour \/ UNCHANGED vars
  BY <1>1, <1>3 DEF NextHour, vars, accounting
<1>4. QED
  BY <1>2, <1>3, CapAdmission, CapAccounting, CapCrash, CapMidnight DEF Next

-----------------------------------------------------------------------------
(* Theorems *)

LEMMA MoneyInit == Init => MoneyInv
<1> SUFFICES ASSUME Init PROVE MoneyInv
  OBVIOUS
<1>1. \A q \in Requests : pc[q] = "idle" /\ hold[q] = 0 /\ owed[q] = 0 /\ left[q] = 0
  BY DEF Init
<1>2. charged = 0 /\ ledger = 0 /\ lost = 0 /\ orphaned = 0
  BY DEF Init
<1>3. \A q \in Requests : Estimate[q] \in Nat /\ Estimate[q] * 0 = 0
  BY BudgetAssumption
<1>4. exposure = [q \in Requests |-> 0] /\ hold = [q \in Requests |-> 0]
  BY <1>1, <1>3 DEF exposure, Init
<1>5. Total(exposure) = 0 /\ Total(hold) = 0
  BY <1>4, TotalZero
<1>6. OneLinkRuns
  BY <1>1 DEF OneLinkRuns, Link
<1>7. ExposureReserved /\ OwedIsEstimated
  BY <1>1, <1>3, <1>4 DEF ExposureReserved, OwedIsEstimated
<1>8. LossIsLatched
  BY <1>2 DEF LossIsLatched
<1>9. CapInv
  BY <1>1, <1>2, <1>5, BudgetAssumption DEF CapInv, activeReservations
<1>10. QED
  BY <1>6, <1>7, <1>8, <1>9, InitType DEF MoneyInv

LEMMA MoneyStep == MoneyInv /\ [Next]_vars => MoneyInv'
BY StepType, OneLinkStep, ReservedStep, EstimatedStep, LossStep, CapStep DEF MoneyInv

\* The inductive invariant: none of the properties below is preserved by every
\* step on its own.
THEOREM MoneyInvariant == Spec => []MoneyInv
<1>1. QED
  BY MoneyInit, MoneyStep, PTL DEF Spec

\* Whatever the cap, the estimates, the number of concurrent requests and the
\* failures: with a store that answers in place the daily cap is never crossed.
THEOREM CapIsHeld ==
  ASSUME Store = "local"
  PROVE  Spec => []CapHeld
<1>1. MoneyInv => CapHeld
  BY DEF MoneyInv, CapInv, CapHeld
<1>2. QED
  BY <1>1, MoneyInvariant, PTL

\* With a store across the network the day overshoots by less than another cap.
THEOREM OvershootIsBounded == Spec => []OvershootBounded
<1>1. MoneyInv => OvershootBounded
  BY DEF MoneyInv, CapInv, OvershootBounded
<1>2. QED
  BY <1>1, MoneyInvariant, PTL

\* While paid requests are admitted, nothing that was charged is missing from the
\* ledger but what a crash forgot; and every request reserves what it spent in its
\* round and may still spend, and nothing after it is over.
THEOREM SpendingIsTrue == Spec => []SpendingInv
<1>1. MoneyInv => SpentIsOnLedger
  BY MoneyType DEF MoneyInv, LossIsLatched, SpentIsOnLedger
<1>2. MoneyInv => ExposureReserved
  BY DEF MoneyInv
<1>3. MoneyInv => SpendingInv
  BY <1>1, <1>2 DEF SpendingInv
<1>4. QED
  BY <1>3, MoneyInvariant, PTL

-----------------------------------------------------------------------------
(* The quotas *)

\* While one link is at a step, no other request is in the link.
LEMMA LinkIsAlone ==
  ASSUME OneLinkRuns, NEW r \in Requests, NEW step, Running(r, step),
         NEW q \in Requests, q # r
  PROVE  pc[q] \notin Link
BY DEF OneLinkRuns, Running

\* What keeps the counters and takes no request past the counting it has room
\* for keeps both quotas.
Advances ==
  \A q \in Requests :
    \/ pc'[q] \notin Link
    \/ pc'[q] = pc[q]
    \/ pc[q] \in {"costing", "reading"} /\ pc'[q] \in {"costing", "reading", "countUser"}

LEMMA UserQuiet ==
  ASSUME UserInv, UNCHANGED <<bucket, userUsed, userAdmitted>>, Advances
  PROVE  UserInv'
BY DEF UserInv, Advances, Link

LEMMA ChatQuiet ==
  ASSUME ChatInv, UNCHANGED <<bucket, chatUsed, chatAdmitted>>, Advances
  PROVE  ChatInv'
BY DEF ChatInv, Advances, Link

\* The steps that leave the counters alone.
LEMMA QuotaQuiet ==
  ASSUME TypeOK, NEW r \in Requests,
         \/ Submit(r) \/ Refuse(r) \/ DenyQuota(r) \/ AdmitLocal(r) \/ AdmitRemote(r)
         \/ ReadBalance(r) \/ DenyCost(r) \/ BeginCall(r) \/ Accounting(r)
  PROVE  UNCHANGED quota /\ Advances
<1> USE DEF TypeOK, Goto, Advances, Link
<1>1. CASE Submit(r) \/ Refuse(r) \/ DenyQuota(r) \/ DenyCost(r)
  BY <1>1 DEF Submit, Refuse, DenyQuota, DenyCost, Deny
<1>2. CASE AdmitLocal(r) \/ AdmitRemote(r) \/ ReadBalance(r)
  BY <1>2 DEF AdmitLocal, AdmitRemote, ReadBalance, Reserve, Running
<1>3. CASE BeginCall(r) \/ Accounting(r)
  BY <1>3 DEF BeginCall, Accounting, CallReturns, Recording, UnknownPrice, Recorded,
              RecordedWithError, RecordFails, Finish
<1>4. QED
  BY <1>1, <1>2, <1>3

\* The counters as numbers.
LEMMA QuotaType ==
  ASSUME TypeOK
  PROVE  /\ \A u \in Users : userUsed[u] \in Nat /\ userAdmitted[u] \in Nat
         /\ \A c \in Chats : chatUsed[c] \in Nat /\ chatAdmitted[c] \in Nat
         /\ \A r \in Requests : UserOf[r] \in Users /\ ChatOf[r] \in Chats
         /\ UserLimit \in Nat /\ ChatLimit \in Nat
BY BudgetAssumption DEF TypeOK

\* A link leaves the chain, or moves to another step, without touching others.
LEMMA LinkSteps ==
  ASSUME TypeOK, OneLinkRuns, NEW r \in Requests, NEW step, Running(r, step), NEW next, Goto(r, next)
  PROVE  /\ pc[r] = step /\ pc'[r] = next
         /\ \A q \in Requests : q # r => pc'[q] = pc[q] /\ pc[q] \notin Link
BY LinkIsAlone DEF Running, Goto, TypeOK

LEMMA UserAdmission ==
  ASSUME TypeOK, OneLinkRuns, UserInv, NEW r \in Requests,
         Authorize(r) \/ CheckQuota(r) \/ CountUser(r) \/ CountChat(r) \/ CountFails(r)
  PROVE  UserInv'
<1> USE DEF UserInv, Link
<1>1. CASE Authorize(r)
  BY <1>1, LinkSteps DEF Authorize
<1>2. CASE CheckQuota(r)
  <2>1. pc'[r] = "costing" /\ \A q \in Requests : q # r => pc'[q] = pc[q] /\ pc[q] \notin Link
    BY <1>2, LinkSteps DEF CheckQuota
  <2>2. UserRoom(r) /\ UNCHANGED <<bucket, userUsed, userAdmitted>>
    BY <1>2 DEF CheckQuota, quota
  <2>3. QED
    BY <2>1, <2>2, QuotaType DEF UserRoom
<1>3. ASSUME UserLimit > 0, pc[r] = "countUser", BumpUser(r), userAdmitted' = userAdmitted
      PROVE  /\ \A u \in Users : userAdmitted'[u] <= userUsed'[u] /\ userUsed'[u] <= UserLimit
             /\ "hour" \in bucket => userAdmitted'[UserOf[r]] < userUsed'[UserOf[r]]
  <2>1. CASE "hour" \in bucket
    <3>1. userUsed' = [userUsed EXCEPT ![UserOf[r]] = @ + 1] /\ userUsed[UserOf[r]] < UserLimit
      BY <1>3, <2>1 DEF BumpUser
    <3>2. userUsed \in [Users -> Nat]
      BY DEF TypeOK
    <3>3. QED
      BY <1>3, <3>1, <3>2, QuotaType
  <2>2. CASE "hour" \notin bucket
    BY <1>3, <2>2 DEF BumpUser
  <2>3. QED
    BY <2>1, <2>2
<1>4. CASE CountUser(r)
  <2>1. /\ pc[r] = "countUser" /\ pc'[r] = "countChat"
        /\ \A q \in Requests : q # r => pc'[q] = pc[q] /\ pc[q] \notin Link
    BY <1>4, LinkSteps DEF CountUser
  <2>2. BumpUser(r) /\ UNCHANGED <<bucket, userAdmitted>>
    BY <1>4 DEF CountUser
  <2>3. QED
    BY <1>3, <2>1, <2>2
<1>5. CASE CountChat(r)
  <2>1. /\ pc[r] = "countChat" /\ pc'[r] = "held"
        /\ \A q \in Requests : q # r => pc'[q] = pc[q] /\ pc[q] \notin Link
    BY <1>5, LinkSteps DEF CountChat
  <2>2. UNCHANGED <<bucket, userUsed>>
    BY <1>5 DEF CountChat
  <2>3. ASSUME UserLimit > 0, NEW u \in Users PROVE userAdmitted'[u] <= userUsed[u]
    <3>1. userAdmitted \in [Users -> Nat]
      BY DEF TypeOK
    <3>2. CASE "hour" \in bucket
      <4>1. userAdmitted' = [userAdmitted EXCEPT ![UserOf[r]] = @ + 1]
        BY <1>5, <3>2 DEF CountChat
      <4>2. userAdmitted[UserOf[r]] < userUsed[UserOf[r]]
        BY <2>1, <2>3, <3>2
      <4>3. QED
        BY <2>3, <3>1, <4>1, <4>2, QuotaType
    <3>3. CASE "hour" \notin bucket
      BY <1>5, <2>3, <3>3 DEF CountChat
    <3>4. QED
      BY <3>2, <3>3
  <2>4. QED
    BY <2>1, <2>2, <2>3
<1>6. CASE CountFails(r)
  <2>1. \E step : Running(r, step)
    BY <1>6 DEF CountFails
  <2>2. pc'[r] = "idle" /\ \A q \in Requests : q # r => pc'[q] = pc[q] /\ pc[q] \notin Link
    BY <1>6, <2>1, LinkSteps DEF CountFails, Deny
  <2>3. /\ UNCHANGED <<bucket, userAdmitted>>
        /\ userUsed' = userUsed \/ (pc[r] = "countUser" /\ BumpUser(r))
    BY <1>6 DEF CountFails, Running
  <2>4. QED
    BY <1>3, <2>2, <2>3
<1>7. QED
  BY <1>1, <1>2, <1>4, <1>5, <1>6

LEMMA ChatAdmission ==
  ASSUME TypeOK, OneLinkRuns, ChatInv, NEW r \in Requests,
         Authorize(r) \/ CheckQuota(r) \/ CountUser(r) \/ CountChat(r) \/ CountFails(r)
  PROVE  ChatInv'
<1> USE DEF ChatInv, Link
<1>1. CASE Authorize(r)
  BY <1>1, LinkSteps DEF Authorize
<1>2. CASE CheckQuota(r)
  <2>1. pc'[r] = "costing" /\ \A q \in Requests : q # r => pc'[q] = pc[q] /\ pc[q] \notin Link
    BY <1>2, LinkSteps DEF CheckQuota
  <2>2. ChatRoom(r) /\ UNCHANGED <<bucket, chatUsed, chatAdmitted>>
    BY <1>2 DEF CheckQuota, quota
  <2>3. QED
    BY <2>1, <2>2, QuotaType DEF ChatRoom
<1>3. CASE CountUser(r)
  BY <1>3, LinkSteps DEF CountUser
<1>4. ASSUME ChatLimit > 0, pc[r] = "countChat", BumpChat(r),
             \/ chatAdmitted' = chatAdmitted
             \/ chatAdmitted' = IF "day" \in bucket THEN [chatAdmitted EXCEPT ![ChatOf[r]] = @ + 1]
                                                    ELSE chatAdmitted
      PROVE  \A c \in Chats : chatAdmitted'[c] <= chatUsed'[c] /\ chatUsed'[c] <= ChatLimit
  <2>1. CASE "day" \in bucket
    <3>1. chatUsed' = [chatUsed EXCEPT ![ChatOf[r]] = @ + 1] /\ chatUsed[ChatOf[r]] < ChatLimit
      BY <1>4, <2>1 DEF BumpChat
    <3>2. chatUsed \in [Chats -> Nat] /\ chatAdmitted \in [Chats -> Nat]
      BY DEF TypeOK
    <3>3. \A c \in Chats : chatUsed'[c] <= ChatLimit
      BY <1>4, <3>1, <3>2, QuotaType
    <3>4. \A c \in Chats : chatAdmitted'[c] <= chatUsed'[c]
      BY <1>4, <2>1, <3>1, <3>2, QuotaType
    <3>5. QED
      BY <3>3, <3>4
  <2>2. CASE "day" \notin bucket
    BY <1>4, <2>2 DEF BumpChat
  <2>3. QED
    BY <2>1, <2>2
<1>5. CASE CountChat(r)
  <2>1. /\ pc[r] = "countChat" /\ pc'[r] = "held"
        /\ \A q \in Requests : q # r => pc'[q] = pc[q] /\ pc[q] \notin Link
    BY <1>5, LinkSteps DEF CountChat
  <2>2. /\ BumpChat(r) /\ UNCHANGED bucket
        /\ chatAdmitted' = IF "day" \in bucket THEN [chatAdmitted EXCEPT ![ChatOf[r]] = @ + 1]
                                               ELSE chatAdmitted
    BY <1>5 DEF CountChat
  <2>3. QED
    BY <1>4, <2>1, <2>2
<1>6. CASE CountFails(r)
  <2>1. \E step : Running(r, step)
    BY <1>6 DEF CountFails
  <2>2. pc'[r] = "idle" /\ \A q \in Requests : q # r => pc'[q] = pc[q] /\ pc[q] \notin Link
    BY <1>6, <2>1, LinkSteps DEF CountFails, Deny
  <2>3. /\ UNCHANGED <<bucket, chatAdmitted>>
        /\ chatUsed' = chatUsed \/ (pc[r] = "countChat" /\ BumpChat(r))
    BY <1>6 DEF CountFails, Running
  <2>4. QED
    BY <1>4, <2>2, <2>3
<1>7. QED
  BY <1>1, <1>2, <1>3, <1>5, <1>6

LEMMA QuotaStep == QuotaInv /\ [Next]_vars => QuotaInv'
<1> SUFFICES ASSUME TypeOK, OneLinkRuns, UserInv, ChatInv, [Next]_vars
             PROVE  UserInv' /\ ChatInv'
  BY StepType, OneLinkStep DEF QuotaInv
<1>1. ASSUME UNCHANGED quota, Advances PROVE UserInv' /\ ChatInv'
  BY <1>1, UserQuiet, ChatQuiet DEF quota
<1>2. ASSUME NEW r \in Requests, Submit(r) \/ Admission(r) \/ BeginCall(r) \/ Accounting(r)
      PROVE  UserInv' /\ ChatInv'
  BY <1>1, <1>2, QuotaQuiet, UserAdmission, ChatAdmission DEF Admission
<1>3. CASE NextHour
  <2>1. UserInv'
    BY <1>3, QuotaType DEF NextHour, UserInv
  <2>2. ChatInv'
    BY <1>3 DEF NextHour, ChatInv
  <2>3. QED
    BY <2>1, <2>2
<1>4. CASE Midnight
  <2>1. UserInv'
    BY <1>4, QuotaType DEF Midnight, UserInv
  <2>2. ChatInv'
    BY <1>4, QuotaType DEF Midnight, ChatInv
  <2>3. QED
    BY <2>1, <2>2
<1>5. CASE Crash
  BY <1>1, <1>5 DEF Crash, Advances, Link
<1>6. CASE UNCHANGED vars
  BY <1>1, <1>6 DEF vars, Advances
<1>7. QED
  BY <1>2, <1>3, <1>4, <1>5, <1>6 DEF Next

LEMMA QuotaInit == Init => QuotaInv
<1> SUFFICES ASSUME Init PROVE QuotaInv
  OBVIOUS
<1>1. OneLinkRuns
  BY DEF Init, OneLinkRuns, Link
<1>2. UserInv /\ ChatInv
  BY BudgetAssumption DEF Init, UserInv, ChatInv
<1>3. QED
  BY <1>1, <1>2, InitType DEF QuotaInv

\* Whatever the limits and the interleaving of requests, buckets that end,
\* increments that fail and restarts: nobody is admitted beyond the limit of
\* the hour or the day.
THEOREM QuotaIsHeld == Spec => []QuotaHeld
<1>1. QuotaInv => QuotaHeld
  BY DEF QuotaInv, UserInv, ChatInv, QuotaHeld
<1>2. QED
  BY <1>1, QuotaInit, QuotaStep, PTL DEF Spec

=============================================================================

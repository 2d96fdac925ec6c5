--------------------------- MODULE Journals_proofs ---------------------------
(***************************************************************************)
(* Proofs about the journals: any number of entries, days, failures and    *)
(* prunes, and every store.                                                *)
(*                                                                         *)
(* What a list of redis has is known from the entries alone: those whose   *)
(* push has been made and was not lost (Pushed), of which it has the       *)
(* newest, newest first, down to its length (KeyKnown).  A prune that has  *)
(* read the list has found a length to which it is right to cut it, but    *)
(* for the pushes in between (CutKnown).  Methods take turns, so that a    *)
(* push never comes before that of an older entry (InTurn).  A table has   *)
(* every row that is neither under way, lost nor pruned (TableKnown).      *)
(* Each call of each method keeps these; the lemmas that say so are about  *)
(* one list, or the table, before the call and after it.                   *)
(***************************************************************************)
EXTENDS Journals, FiniteSetTheorems, FunctionTheorems, SequenceTheorems, WellFoundedInduction,
        TLAPS

-----------------------------------------------------------------------------
(* Sorting *)

\* R is a strict total order of S; the elements of S that are before x in it.
StrictOrder(S, R) ==
  /\ \A x \in S : <<x, x>> \notin R
  /\ \A x, y, z \in S : <<x, y>> \in R /\ <<y, z>> \in R => <<x, z>> \in R
  /\ \A x, y \in S : x # y => <<x, y>> \in R \/ <<y, x>> \in R
Before(x, S, R) == {y \in S : <<y, x>> \in R}

\* Who comes later has more before it.
LEMMA BeforeIs ==
  ASSUME NEW S, IsFiniteSet(S), NEW R, StrictOrder(S, R)
  PROVE  /\ Cardinality(S) \in Nat
         /\ \A x \in S : Cardinality(Before(x, S, R)) \in 0 .. Cardinality(S) - 1
         /\ \A x, y \in S : <<x, y>> \in R => Cardinality(Before(x, S, R)) < Cardinality(Before(y, S, R))
<1>1. \A x \in S : /\ IsFiniteSet(Before(x, S, R)) /\ Cardinality(Before(x, S, R)) \in Nat
                   /\ Cardinality(Before(x, S, R)) < Cardinality(S)
  <2> TAKE x \in S
  <2>1. Before(x, S, R) \in SUBSET S /\ x \notin Before(x, S, R)
    BY DEF Before, StrictOrder
  <2>2. IsFiniteSet(Before(x, S, R)) /\ Cardinality(Before(x, S, R)) <= Cardinality(S)
        /\ Cardinality(S) # Cardinality(Before(x, S, R))
    BY <2>1, FS_Subset
  <2> QED
    BY <2>2, FS_CardinalityType
<1>2. Cardinality(S) \in Nat
  BY FS_CardinalityType
<1>3. ASSUME NEW x \in S, NEW y \in S, <<x, y>> \in R
      PROVE  Cardinality(Before(x, S, R)) < Cardinality(Before(y, S, R))
  <2>1. Before(x, S, R) \in SUBSET Before(y, S, R) /\ x \notin Before(x, S, R) /\ x \in Before(y, S, R)
    BY <1>3 DEF Before, StrictOrder
  <2>2. /\ Cardinality(Before(x, S, R)) <= Cardinality(Before(y, S, R))
        /\ Cardinality(Before(x, S, R)) # Cardinality(Before(y, S, R))
    BY <1>1, <2>1, FS_Subset
  <2> QED
    BY <1>1, <2>2
<1> QED
  BY <1>1, <1>2, <1>3

\* s lists S in the order of R.
Enumerates(s, S, R) ==
  /\ s \in [1 .. Cardinality(S) -> S]
  /\ \A i, j \in 1 .. Cardinality(S) : i < j => <<s[i], s[j]>> \in R
  /\ \A x \in S : \E i \in 1 .. Cardinality(S) : s[i] = x

LEMMA OneToN == ASSUME NEW n \in Nat PROVE IsFiniteSet(1 .. n) /\ Cardinality(1 .. n) = n
<1>1. Cardinality(1 .. n) = IF 1 > n THEN 0 ELSE n - 1 + 1
  BY FS_Interval
<1> QED
  BY <1>1, FS_Interval

\* There is such an element for each place.
LEMMA SortedFits ==
  ASSUME NEW S, IsFiniteSet(S), NEW R, StrictOrder(S, R), NEW s, s = Sorted(S, R)
  PROVE  s \in [1 .. Cardinality(S) -> S] /\ \A i, j \in 1 .. Cardinality(S) : i < j => <<s[i], s[j]>> \in R
<1> DEFINE n == Cardinality(S)
           f == [x \in S |-> Cardinality(Before(x, S, R)) + 1]
<1>1. n \in Nat /\ f \in [S -> 1 .. n] /\ \A x, y \in S : <<x, y>> \in R => f[x] < f[y]
  BY BeforeIs
<1>2. \A x, y \in S : f[x] = f[y] => x = y
  <2> SUFFICES ASSUME NEW x \in S, NEW y \in S, f[x] = f[y], x # y PROVE FALSE
    OBVIOUS
  <2>1. f[x] \in Int /\ f[y] \in Int
    BY <1>1
  <2>2. f[x] < f[y] \/ f[y] < f[x]
    BY <1>1 DEF StrictOrder
  <2> QED
    BY <2>1, <2>2
<1>3. f \in Injection(S, 1 .. n)
  BY <1>1, <1>2 DEF Injection, IsInjective
<1>4. IsFiniteSet(1 .. n) /\ Cardinality(1 .. n) = n
  BY <1>1, OneToN
<1>5. f \in Surjection(S, 1 .. n)
  BY <1>3, <1>4, FS_Injection
<1>6. \A i \in 1 .. n : \E x \in S : f[x] = i
  BY <1>5 DEF Surjection
<1>7. s \in [1 .. n -> S] /\ \A i \in 1 .. n : f[s[i]] = i
  <2>1. ASSUME NEW i \in 1 .. n PROVE \E x \in S : Cardinality({y \in S : <<y, x>> \in R}) = i - 1
    <3>1. PICK x \in S : f[x] = i
      BY <1>6
    <3>2. Cardinality(Before(x, S, R)) \in Nat /\ Cardinality(Before(x, S, R)) + 1 = i
      BY <3>1, BeforeIs
    <3>3. Cardinality(Before(x, S, R)) = i - 1
      BY <3>2
    <3> QED
      BY <3>3 DEF Before
  <2>2. s = [i \in 1 .. n |-> CHOOSE x \in S : Cardinality({y \in S : <<y, x>> \in R}) = i - 1]
    BY DEF Sorted
  <2>3. ASSUME NEW i \in 1 .. n PROVE s[i] \in S /\ Cardinality({y \in S : <<y, s[i]>> \in R}) = i - 1
    BY <2>1, <2>2
  <2>4. ASSUME NEW i \in 1 .. n PROVE f[s[i]] = i
    <3>1. f[s[i]] = Cardinality({y \in S : <<y, s[i]>> \in R}) + 1
      BY <2>3 DEF Before
    <3>2. i - 1 + 1 = i
      BY <1>1
    <3> QED
      BY <2>3, <3>1, <3>2
  <2> QED
    BY <2>2, <2>3, <2>4
<1> HIDE DEF f
<1>8. ASSUME NEW i \in 1 .. n, NEW j \in 1 .. n, i < j PROVE <<s[i], s[j]>> \in R
  <2>1. s[i] \in S /\ s[j] \in S /\ f[s[i]] = i /\ f[s[j]] = j
    BY <1>7
  <2>2. i \in Int /\ j \in Int
    BY <1>1
  <2>3. ~(<<s[j], s[i]>> \in R)
    BY <1>1, <1>8, <2>1, <2>2
  <2>4. s[i] # s[j]
    BY <1>8, <2>1, <2>2
  <2> QED
    BY <2>1, <2>3, <2>4 DEF StrictOrder
<1> QED
  BY <1>7, <1>8

LEMMA ListsAll ==
  ASSUME NEW S, IsFiniteSet(S), NEW R, StrictOrder(S, R), NEW s \in [1 .. Cardinality(S) -> S],
         \A i, j \in 1 .. Cardinality(S) : i < j => <<s[i], s[j]>> \in R
  PROVE  Enumerates(s, S, R) /\ \A i, j \in 1 .. Cardinality(S) : s[i] = s[j] => i = j
<1> DEFINE n == Cardinality(S)
<1>1. n \in Nat
  BY FS_CardinalityType
<1>2. \A i, j \in 1 .. n : s[i] = s[j] => i = j
  <2> SUFFICES ASSUME NEW i \in 1 .. n, NEW j \in 1 .. n, s[i] = s[j], i # j PROVE FALSE
    OBVIOUS
  <2>1. i < j \/ j < i
    BY <1>1
  <2> QED
    BY <2>1 DEF StrictOrder
<1>3. s \in Injection(1 .. n, S)
  BY <1>2 DEF Injection, IsInjective
<1>4. IsFiniteSet(1 .. n) /\ Cardinality(1 .. n) = n
  BY <1>1, OneToN
<1>5. s \in Surjection(1 .. n, S)
  BY <1>3, <1>4, FS_Injection
<1> QED
  BY <1>2, <1>5 DEF Surjection, Enumerates

LEMMA SortedIs ==
  ASSUME NEW S, IsFiniteSet(S), NEW R, StrictOrder(S, R)
  PROVE  /\ Enumerates(Sorted(S, R), S, R) /\ Cardinality(S) \in Nat
         /\ \A i, j \in 1 .. Cardinality(S) : Sorted(S, R)[i] = Sorted(S, R)[j] => i = j
<1> DEFINE n == Cardinality(S)
           s == Sorted(S, R)
<1>2. s \in [1 .. n -> S] /\ \A i, j \in 1 .. n : i < j => <<s[i], s[j]>> \in R
  BY SortedFits
<1> HIDE DEF s
<1>4. Enumerates(s, S, R) /\ \A i, j \in 1 .. n : s[i] = s[j] => i = j
  BY <1>2, ListsAll
<1> QED
  BY <1>4, FS_CardinalityType DEF s

\* There is only one such list.
LEMMA SortedOnly ==
  ASSUME NEW S, IsFiniteSet(S), NEW R, StrictOrder(S, R), NEW s, Enumerates(s, S, R)
  PROVE  s = Sorted(S, R)
<1> DEFINE n == Cardinality(S)
<1>1. n \in Nat
  BY FS_CardinalityType
<1>2. ASSUME NEW t, Enumerates(t, S, R), NEW i \in 1 .. n PROVE Cardinality(Before(t[i], S, R)) = i - 1
  <2>1. t \in [1 .. n -> S] /\ \A j, k \in 1 .. n : j < k => <<t[j], t[k]>> \in R
    BY <1>2 DEF Enumerates
  <2>2. \A j, k \in 1 .. n : t[j] = t[k] => j = k
    BY <2>1, ListsAll
  <2>3. \A j \in 1 .. n : <<t[j], t[i]>> \in R <=> j < i
    <3> TAKE j \in 1 .. n
    <3>1. t[i] \in S /\ t[j] \in S
      BY <2>1
    <3>2. j < i => <<t[j], t[i]>> \in R
      BY <2>1
    <3>3. j = i => ~(<<t[j], t[i]>> \in R)
      BY <3>1 DEF StrictOrder
    <3>4. i < j => ~(<<t[j], t[i]>> \in R)
      BY <2>1, <3>1 DEF StrictOrder
    <3>5. j < i \/ j = i \/ i < j
      BY <1>1
    <3> QED
      BY <1>1, <3>2, <3>3, <3>4, <3>5
  <2> DEFINE g == [j \in 1 .. i - 1 |-> t[j]]
             B == Before(t[i], S, R)
  <2>4. \A j \in 1 .. i - 1 : j \in 1 .. n /\ j < i
    BY <1>1
  <2>5. g \in [1 .. i - 1 -> B]
    BY <2>1, <2>3, <2>4 DEF Before
  <2>6. \A x \in B : \E j \in 1 .. i - 1 : g[j] = x
    <3> TAKE x \in B
    <3>1. PICK j \in 1 .. n : t[j] = x
      BY <1>2 DEF Enumerates, Before
    <3>2. j < i
      BY <2>3, <3>1 DEF Before
    <3>3. j \in 1 .. i - 1
      BY <1>1, <3>2
    <3> QED
      BY <3>1, <3>3
  <2>7. \A j, k \in 1 .. i - 1 : g[j] = g[k] => j = k
    BY <2>2, <2>4
  <2>8. g \in Bijection(1 .. i - 1, B)
    BY <2>5, <2>6, <2>7 DEF Bijection, Injection, Surjection, IsInjective
  <2>9. i - 1 \in Nat
    BY <1>1
  <2>10. ExistsBijection(1 .. i - 1, B)
    BY <2>8 DEF ExistsBijection
  <2> HIDE DEF B
  <2>11. Cardinality(B) = i - 1
    BY <2>9, <2>10, FS_CountingElements
  <2> QED
    BY <2>11 DEF B
<1> DEFINE t == Sorted(S, R)
<1>3. Enumerates(t, S, R)
  BY SortedIs
<1> HIDE DEF t
<1>4. ASSUME NEW i \in 1 .. n PROVE s[i] = t[i]
  <2>1. s[i] \in S /\ t[i] \in S
    BY <1>3 DEF Enumerates
  <2>2. Cardinality(Before(s[i], S, R)) = i - 1 /\ Cardinality(Before(t[i], S, R)) = i - 1
    BY <1>2, <1>3
  <2>3. i - 1 \in Int
    BY <1>1
  <2>4. ~(<<s[i], t[i]>> \in R) /\ ~(<<t[i], s[i]>> \in R)
    BY <2>1, <2>2, <2>3, BeforeIs
  <2> QED
    BY <2>1, <2>4 DEF StrictOrder
<1>5. s \in [1 .. n -> S] /\ t \in [1 .. n -> S]
  BY <1>3 DEF Enumerates
<1> HIDE DEF n
<1>6. s = [i \in 1 .. n |-> s[i]] /\ t = [i \in 1 .. n |-> t[i]]
  BY <1>5
<1>7. [i \in 1 .. n |-> s[i]] = [i \in 1 .. n |-> t[i]]
  BY <1>4
<1>8. s = t
  BY <1>6, <1>7
<1> QED
  BY <1>8 DEF t

\* The finite set S of numbers in their order, which are a set in an order.
Ascending(S) == [k \in 1 .. Cardinality(S) |-> CHOOSE x \in S : Cardinality({y \in S : y < x}) = k - 1]

LEMMA OnlyAscends ==
  ASSUME NEW s, NEW kept, NEW places, places = {i \in DOMAIN s : s[i] \in kept}
  PROVE  Only(s, kept) = [k \in DOMAIN Ascending(places) |-> s[Ascending(places)[k]]]
<1>1. Only(s, kept) =
        [k \in 1 .. Cardinality(places) |-> s[CHOOSE p \in places : Cardinality({q \in places : q < p}) = k - 1]]
  BY DEF Only
<1>2. /\ DOMAIN Ascending(places) = 1 .. Cardinality(places)
      /\ \A k \in 1 .. Cardinality(places) :
           Ascending(places)[k] = CHOOSE p \in places : Cardinality({q \in places : q < p}) = k - 1
  BY DEF Ascending
<1> QED
  BY <1>1, <1>2

LEMMA AscendingIs ==
  ASSUME NEW S, IsFiniteSet(S), NEW R, StrictOrder(S, R), \A x, y \in S : <<x, y>> \in R <=> x < y
  PROVE  Ascending(S) = Sorted(S, R)
<1> DEFINE n == Cardinality(S)
           A(k, x) == Cardinality({y \in S : y < x}) = k - 1
           B(k, x) == Cardinality({y \in S : <<y, x>> \in R}) = k - 1
<1>1. ASSUME NEW x \in S PROVE {y \in S : y < x} = {y \in S : <<y, x>> \in R}
  OBVIOUS
<1>2. \A k, x : x \in S => (A(k, x) <=> B(k, x))
  BY <1>1
<1> HIDE DEF A, B
<1>3. ASSUME NEW k \in 1 .. n PROVE (CHOOSE x \in S : A(k, x)) = CHOOSE x \in S : B(k, x)
  <2>1. \A x : (x \in S /\ A(k, x)) <=> (x \in S /\ B(k, x))
    BY <1>2
  <2> QED
    BY <2>1, Zenon
<1>4. [k \in 1 .. n |-> CHOOSE x \in S : A(k, x)] = [k \in 1 .. n |-> CHOOSE x \in S : B(k, x)]
  BY <1>3
<1> QED
  BY <1>4, Zenon DEF Ascending, Sorted, A, B

-----------------------------------------------------------------------------
(* Pages *)

\* How many of n elements are on a page.
PageLen(n, limit, offset) == IF offset + limit <= n THEN limit ELSE IF offset < n THEN n - offset ELSE 0

\* p is that page of s.
IsPage(p, s, limit, offset, S) ==
  /\ p \in Seq(S) /\ Len(p) = PageLen(Len(s), limit, offset) /\ Len(p) \in 0 .. Len(s)
  /\ \A i \in 1 .. Len(p) : offset + i \in 1 .. Len(s) /\ p[i] = s[offset + i]

LEMMA PageIs ==
  ASSUME NEW S, NEW s \in Seq(S), NEW limit \in Nat, NEW offset \in Nat
  PROVE  IsPage(Page(s, limit, offset), s, limit, offset, S)
<1> DEFINE m == offset + 1
           n == IF offset + limit < Len(s) THEN offset + limit ELSE Len(s)
<1>1. m \in Int /\ n \in Int /\ Len(s) \in Nat
  OBVIOUS
<1>2. \A i \in m .. n : i \in 1 .. Len(s)
  BY <1>1
<1>3. \A i \in m .. n : s[i] \in S
  BY <1>2, ElementOfSeq
<1>4. Page(s, limit, offset) = SubSeq(s, m, n)
  BY DEF Page
<1> HIDE DEF m, n
<1>5. /\ SubSeq(s, m, n) \in Seq(S) /\ Len(SubSeq(s, m, n)) = (IF m <= n THEN n - m + 1 ELSE 0)
      /\ \A i \in 1 .. n - m + 1 : SubSeq(s, m, n)[i] = s[m + i - 1]
  BY <1>1, <1>3, SubSeqProperties
<1>6. (IF m <= n THEN n - m + 1 ELSE 0) = PageLen(Len(s), limit, offset)
      /\ PageLen(Len(s), limit, offset) \in 0 .. Len(s)
  BY <1>1 DEF m, n, PageLen
<1>7. \A i \in 1 .. PageLen(Len(s), limit, offset) :
        i \in 1 .. n - m + 1 /\ m + i - 1 = offset + i /\ offset + i \in 1 .. Len(s)
  BY <1>1 DEF m, n, PageLen
<1> DEFINE p == SubSeq(s, m, n)
<1>8. Len(p) = PageLen(Len(s), limit, offset)
  BY <1>5, <1>6
<1>9. \A i \in 1 .. Len(p) : offset + i \in 1 .. Len(s) /\ p[i] = s[offset + i]
  BY <1>5, <1>7, <1>8
<1> HIDE DEF p
<1>10. IsPage(p, s, limit, offset, S)
  BY <1>5, <1>6, <1>8, <1>9 DEF p, IsPage
<1> QED
  BY <1>4, <1>10 DEF p

\* The first k of s.
LEMMA HeadIs ==
  ASSUME NEW S, NEW s \in Seq(S), NEW k \in 0 .. Len(s)
  PROVE  /\ SubSeq(s, 1, k) \in Seq(S) /\ Len(SubSeq(s, 1, k)) = k
         /\ \A i \in 1 .. k : i \in 1 .. Len(s) /\ SubSeq(s, 1, k)[i] = s[i]
<1>1. k \in Int /\ \A i \in 1 .. k : i \in 1 .. Len(s)
  OBVIOUS
<1>2. \A i \in 1 .. k : s[i] \in S
  BY <1>1, ElementOfSeq
<1>3. /\ SubSeq(s, 1, k) \in Seq(S) /\ Len(SubSeq(s, 1, k)) = (IF 1 <= k THEN k - 1 + 1 ELSE 0)
      /\ \A i \in 1 .. k - 1 + 1 : SubSeq(s, 1, k)[i] = s[1 + i - 1]
  BY <1>1, <1>2, SubSeqProperties
<1>4. (IF 1 <= k THEN k - 1 + 1 ELSE 0) = k /\ k - 1 + 1 = k /\ \A i \in 1 .. k : 1 + i - 1 = i
  BY <1>1
<1>5. Len(SubSeq(s, 1, k)) = k
  BY <1>3, <1>4
<1>6. \A i \in 1 .. k : SubSeq(s, 1, k)[i] = s[i]
  BY <1>3, <1>4
<1> QED
  BY <1>1, <1>3, <1>5, <1>6

LEMMA PageFirst ==
  ASSUME NEW S, NEW s \in Seq(S), NEW limit \in Nat
  PROVE  /\ Page(s, limit, 0) \in Seq(S)
         /\ Len(Page(s, limit, 0)) = IF limit <= Len(s) THEN limit ELSE Len(s)
         /\ \A i \in 1 .. Len(Page(s, limit, 0)) : i \in 1 .. Len(s) /\ Page(s, limit, 0)[i] = s[i]
<1> SUFFICES ASSUME NEW o \in Nat, o = 0
             PROVE  /\ Page(s, limit, o) \in Seq(S)
                    /\ Len(Page(s, limit, o)) = IF limit <= Len(s) THEN limit ELSE Len(s)
                    /\ \A i \in 1 .. Len(Page(s, limit, o)) : i \in 1 .. Len(s) /\ Page(s, limit, o)[i] = s[i]
  OBVIOUS
<1> DEFINE p == Page(s, limit, o)
<1>0. IsPage(p, s, limit, o, S)
  BY PageIs
<1> HIDE DEF p
<1>1. /\ p \in Seq(S) /\ Len(p) = PageLen(Len(s), limit, o)
      /\ \A i \in 1 .. Len(p) : o + i \in 1 .. Len(s) /\ p[i] = s[o + i]
  BY <1>0 DEF IsPage
<1>2. Len(s) \in Nat
  OBVIOUS
<1>3. PageLen(Len(s), limit, o) = IF limit <= Len(s) THEN limit ELSE Len(s)
  BY <1>2 DEF PageLen
<1>4. \A i \in 1 .. Len(p) : o + i = i
  OBVIOUS
<1>5. \A i \in 1 .. Len(p) : i \in 1 .. Len(s) /\ p[i] = s[i]
  BY <1>1, <1>4
<1> QED
  BY <1>1, <1>3, <1>5 DEF p

LEMMA PageWhole ==
  ASSUME NEW S, NEW s \in Seq(S), NEW limit \in Nat, Len(s) <= limit
  PROVE  Page(s, limit, 0) = s
<1> DEFINE p == Page(s, limit, 0)
<1>1. /\ p \in Seq(S) /\ Len(p) = IF limit <= Len(s) THEN limit ELSE Len(s)
      /\ \A i \in 1 .. Len(p) : p[i] = s[i]
  BY PageFirst
<1> HIDE DEF p
<1>2. Len(s) \in Nat
  OBVIOUS
<1>3. Len(p) = Len(s)
  BY <1>1, <1>2
<1>5. p = s
  BY <1>1, <1>3, SeqEqual
<1> QED
  BY <1>5 DEF p

LEMMA PageOfPage ==
  ASSUME NEW S, NEW s \in Seq(S), NEW limit \in Nat, NEW offset \in Nat, NEW long \in Nat, offset + limit <= long
  PROVE  Page(Page(s, long, 0), limit, offset) = Page(s, limit, offset)
<1> DEFINE h == Page(s, long, 0)
           p == Page(h, limit, offset)
           q == Page(s, limit, offset)
<1>0. 0 \in Nat /\ Len(s) \in Nat
  OBVIOUS
<1>1. /\ h \in Seq(S) /\ Len(h) = IF long <= Len(s) THEN long ELSE Len(s)
      /\ \A i \in 1 .. Len(h) : h[i] = s[i]
  BY PageFirst
<1> HIDE DEF h
<1>2. IsPage(p, h, limit, offset, S) /\ IsPage(q, s, limit, offset, S)
  BY <1>1, PageIs
<1> HIDE DEF p, q
<1>3. /\ p \in Seq(S) /\ Len(p) = PageLen(Len(h), limit, offset)
      /\ \A i \in 1 .. Len(p) : offset + i \in 1 .. Len(h) /\ p[i] = h[offset + i]
      /\ q \in Seq(S) /\ Len(q) = PageLen(Len(s), limit, offset)
      /\ \A i \in 1 .. Len(q) : q[i] = s[offset + i]
  BY <1>2 DEF IsPage
<1>4. PageLen(Len(h), limit, offset) = PageLen(Len(s), limit, offset)
  BY <1>0, <1>1 DEF PageLen
<1>5. Len(p) = Len(q)
  BY <1>3, <1>4
<1>6. ASSUME NEW i \in 1 .. Len(p) PROVE p[i] = q[i]
  <2>1. offset + i \in 1 .. Len(h) /\ p[i] = h[offset + i]
    BY <1>3
  <2>2. h[offset + i] = s[offset + i]
    BY <1>1, <2>1
  <2>4. q[i] = s[offset + i]
    BY <1>3, <1>5
  <2> QED
    BY <2>1, <2>2, <2>4
<1>7. p = q
  BY <1>3, <1>5, <1>6, SeqEqual
<1> QED
  BY <1>7 DEF h, p, q

-----------------------------------------------------------------------------
(* Entries since a day *)

\* Of a sequence of which the first k are kept, the first k are kept.
LEMMA OnlyHead ==
  ASSUME NEW S, NEW s \in Seq(S), NEW kept, NEW k \in 0 .. Len(s), \A i \in 1 .. Len(s) : s[i] \in kept <=> i <= k
  PROVE  Only(s, kept) = SubSeq(s, 1, k)
<1> DEFINE places == {i \in DOMAIN s : s[i] \in kept}
           R == {p \in places \X places : p[1] < p[2]}
           id == [i \in 1 .. k |-> i]
<1>1. DOMAIN s = 1 .. Len(s) /\ Len(s) \in Nat /\ k \in Nat
  OBVIOUS
<1>2. places = 1 .. k
  BY <1>1
<1>3. \A i, j : <<i, j>> \in R <=> i \in 1 .. k /\ j \in 1 .. k /\ i < j
  BY <1>2
<1> HIDE DEF places, R
<1>4. IsFiniteSet(places) /\ Cardinality(places) = k
  BY <1>1, <1>2, OneToN
<1>5. StrictOrder(places, R)
  <2>1. \A x \in 1 .. k : ~(x < x)
    BY <1>1
  <2>2. \A x, y, z \in 1 .. k : x < y /\ y < z => x < z
    BY <1>1
  <2>3. \A x, y \in 1 .. k : x # y => x < y \/ y < x
    BY <1>1
  <2>4. \A x \in 1 .. k : <<x, x>> \notin R
    BY <1>3, <2>1
  <2>5. \A x, y, z \in 1 .. k : <<x, y>> \in R /\ <<y, z>> \in R => <<x, z>> \in R
    BY <1>3, <2>2
  <2>6. \A x, y \in 1 .. k : x # y => <<x, y>> \in R \/ <<y, x>> \in R
    BY <1>3, <2>3
  <2> QED
    BY <1>2, <2>4, <2>5, <2>6 DEF StrictOrder
<1>6. Enumerates(id, places, R)
  <2>1. \A i, j \in 1 .. k : i < j => <<id[i], id[j]>> \in R
    BY <1>3
  <2> QED
    BY <1>2, <1>4, <2>1 DEF Enumerates
<1> HIDE DEF id
<1>7. Sorted(places, R) = id
  BY <1>4, <1>5, <1>6, SortedOnly
<1>8. Only(s, kept) = [j \in DOMAIN Sorted(places, R) |-> s[Sorted(places, R)[j]]]
  <2>1. Only(s, kept) = [j \in DOMAIN Ascending(places) |-> s[Ascending(places)[j]]]
    BY OnlyAscends DEF places
  <2>2. \A i, j \in places : <<i, j>> \in R <=> i < j
    BY <1>2, <1>3
  <2> QED
    BY <1>4, <1>5, <2>1, <2>2, AscendingIs
<1>9. [j \in DOMAIN id |-> s[id[j]]] = [j \in 1 .. k |-> s[j]]
  BY DEF id
<1>10. Only(s, kept) = [j \in 1 .. k |-> s[j]]
  BY <1>7, <1>8, <1>9
<1> DEFINE t == SubSeq(s, 1, k)
<1>11. t \in Seq(S) /\ Len(t) = k /\ \A i \in 1 .. k : t[i] = s[i]
  BY HeadIs
<1> HIDE DEF t
<1>12. t = [j \in 1 .. k |-> t[j]]
  BY <1>11
<1>13. [j \in 1 .. k |-> t[j]] = [j \in 1 .. k |-> s[j]]
  BY <1>11
<1> QED
  BY <1>10, <1>12, <1>13 DEF t

\* The types of the entries, of the table and of the journal; entries are in the order of their days.
EntriesOK == entries \in Seq([ts : 0 .. MaxDay, who : Whos \union {NoEntity}, what : Whats])

\* Newest first.
Falls(s) == \A i, j \in 1 .. Len(s) : i < j => entries[s[i]].ts >= entries[s[j]].ts

LEMMA TimesAre == ASSUME EntriesOK PROVE \A n \in DOMAIN entries : n \in Nat \ {0} /\ n <= Len(entries) /\ entries[n].ts \in 0 .. MaxDay /\ entries[n].ts \in Nat
<1>1. DOMAIN entries = 1 .. Len(entries) /\ Len(entries) \in Nat
  BY DEF EntriesOK
<1>2. \A n \in 1 .. Len(entries) : entries[n] \in [ts : 0 .. MaxDay, who : Whos \union {NoEntity}, what : Whats]
  BY ElementOfSeq DEF EntriesOK
<1> QED
  BY <1>1, <1>2, JournalAssumption DEF JournalAssumption

\* What is not older than from are the first of them.
Heads(s, from, k) == k \in 0 .. Len(s) /\ \A i \in 1 .. Len(s) : entries[s[i]].ts >= from <=> i <= k

LEMMA HeadsExist ==
  ASSUME EntriesOK, NEW s \in Seq(DOMAIN entries), Falls(s), NEW from \in Int
  PROVE  \E k : Heads(s, from, k)
<1> DEFINE T == {i \in Nat : i = Len(s) + 1 \/ (i \in 1 .. Len(s) /\ entries[s[i]].ts < from)}
<1>1. Len(s) \in Nat /\ \A i \in 1 .. Len(s) : s[i] \in DOMAIN entries
  BY ElementOfSeq
<1>2. T \subseteq Nat /\ T # {}
  BY <1>1
<1>3. \E k \in T : \A y \in T : ~(<<y, k>> \in OpToRel(<, Nat))
  <2> HIDE DEF T
  <2> QED
    BY <1>2, NatLessThanWellFounded, WFMin
<1>4. PICK k \in T : \A y \in T : ~(<<y, k>> \in OpToRel(<, Nat))
  BY <1>3
<1>5. \A y \in T : ~(y < k)
  BY <1>2, <1>4 DEF OpToRel
<1>6. k - 1 \in 0 .. Len(s)
  BY <1>1
<1>7. ASSUME NEW i \in 1 .. Len(s) PROVE entries[s[i]].ts >= from <=> i <= k - 1
  <2>0. i \in Nat /\ k \in Nat /\ s[i] \in DOMAIN entries /\ entries[s[i]].ts \in Int
    BY <1>1, TimesAre
  <2>1. CASE i <= k - 1
    <3>1. i \notin T
      BY <1>5, <2>0, <2>1
    <3> QED
      BY <2>0, <2>1, <3>1
  <2>2. CASE ~(i <= k - 1)
    <3>1. k <= i /\ k # Len(s) + 1
      BY <1>1, <2>0, <2>2
    <3>2. k \in 1 .. Len(s) /\ entries[s[k]].ts < from
      BY <3>1
    <3>3. entries[s[k]].ts >= entries[s[i]].ts
      <4>1. CASE k = i BY <2>0, <4>1
      <4>2. CASE k # i
        <5>1. k < i
          BY <2>0, <3>1, <4>2
        <5> QED
          BY <3>2, <5>1 DEF Falls
      <4> QED
        BY <4>1, <4>2
    <3>4. s[k] \in DOMAIN entries
      BY <1>1, <3>2, ElementOfSeq
    <3>5. entries[s[k]].ts \in Int
      BY <3>4, TimesAre
    <3> QED
      BY <2>0, <2>2, <3>2, <3>3, <3>5
  <2> QED
    BY <2>1, <2>2
<1>8. Heads(s, from, k - 1)
  BY <1>6, <1>7 DEF Heads
<1> QED
  BY <1>8

LEMMA SinceIs ==
  ASSUME EntriesOK, NEW s \in Seq(DOMAIN entries), NEW from \in Int, NEW k, Heads(s, from, k)
  PROVE  Since(s, from) = SubSeq(s, 1, k)
<1> DEFINE kept == {n \in DOMAIN entries : entries[n].ts >= from}
<1>1. \A i \in 1 .. Len(s) : s[i] \in DOMAIN entries
  BY ElementOfSeq
<1>2. k \in 0 .. Len(s) /\ \A i \in 1 .. Len(s) : s[i] \in kept <=> i <= k
  BY <1>1 DEF Heads
<1>3. Since(s, from) = Only(s, kept)
  BY DEF Since
<1> HIDE DEF kept
<1> QED
  BY <1>2, <1>3, OnlyHead

LEMMA SincePage ==
  ASSUME EntriesOK, NEW s \in Seq(DOMAIN entries), Falls(s), NEW from \in Int, NEW limit \in Nat, NEW offset \in Nat
  PROVE  /\ Since(s, from) \in Seq(DOMAIN entries)
         /\ Since(Page(s, limit, offset), from) = Page(Since(s, from), limit, offset)
<1> DEFINE p == Page(s, limit, offset)
           t == Since(s, from)
           q == Page(t, limit, offset)
<1>1. PICK k : Heads(s, from, k)
  BY HeadsExist
<1>2. k \in 0 .. Len(s) /\ Len(s) \in Nat
  BY <1>1 DEF Heads
<1>3. t = SubSeq(s, 1, k)
  BY <1>1, SinceIs
<1>4. t \in Seq(DOMAIN entries) /\ Len(t) = k /\ \A i \in 1 .. k : t[i] = s[i]
  BY <1>2, <1>3, HeadIs
<1> HIDE DEF t
<1>a. IsPage(p, s, limit, offset, DOMAIN entries)
  BY PageIs
<1>b. IsPage(q, t, limit, offset, DOMAIN entries)
  BY <1>4, PageIs
<1> HIDE DEF p, q
<1>5. /\ p \in Seq(DOMAIN entries) /\ Len(p) = PageLen(Len(s), limit, offset)
      /\ \A i \in 1 .. Len(p) : offset + i \in 1 .. Len(s) /\ p[i] = s[offset + i]
  BY <1>a DEF IsPage
<1>6. /\ q \in Seq(DOMAIN entries) /\ Len(q) = PageLen(k, limit, offset)
      /\ \A i \in 1 .. Len(q) : offset + i \in 1 .. k /\ q[i] = t[offset + i]
  BY <1>4, <1>b DEF IsPage
<1> DEFINE m == PageLen(k, limit, offset)
<1>7. m \in 0 .. Len(p) /\ \A i \in 1 .. Len(p) : offset + i <= k <=> i <= m
  BY <1>2, <1>5 DEF PageLen
<1> HIDE DEF m
<1>8. \A i \in 1 .. Len(p) : entries[p[i]].ts >= from <=> i <= m
  BY <1>1, <1>5, <1>7 DEF Heads
<1>9. Since(p, from) = SubSeq(p, 1, m)
  BY <1>5, <1>7, <1>8, SinceIs DEF Heads
<1> DEFINE r == SubSeq(p, 1, m)
<1>10. r \in Seq(DOMAIN entries) /\ Len(r) = m /\ \A i \in 1 .. m : i \in 1 .. Len(p) /\ r[i] = p[i]
  BY <1>5, <1>7, HeadIs
<1> HIDE DEF r
<1>11. \A i \in 1 .. m : r[i] = q[i]
  BY <1>4, <1>5, <1>6, <1>10 DEF m
<1>12. r = q
  BY <1>6, <1>10, <1>11, SeqEqual DEF m
<1> QED
  BY <1>4, <1>9, <1>12 DEF r, p, q, t

-----------------------------------------------------------------------------
(* What the dashboard reads *)

\* The stores that keep a table.
Sql == journalStore \in {"sqlite", "postgres", "mongo"}

EntriesShape ==
  /\ EntriesOK /\ Len(entries) <= MaxEntries
  /\ day \in 0 .. MaxDay /\ \A n \in DOMAIN entries : entries[n].ts <= day
  /\ \A m, n \in DOMAIN entries : m <= n => entries[m].ts <= entries[n].ts
  /\ journal \in {"audit", "timeline", "settings"} /\ (Sql \/ journalStore = "redis")

\* The table has an entry once.
TableShape ==
  /\ table \in Seq(DOMAIN entries)
  /\ \A i, j \in 1 .. Len(table) : table[i] = table[j] => i = j

\* A list has an entry of its filter once, the newest first.
ListShape(key) ==
  /\ lists[key] \in Seq(DOMAIN entries)
  /\ \A i, j \in 1 .. Len(lists[key]) : i < j => lists[key][i] > lists[key][j]
  /\ \A i \in 1 .. Len(lists[key]) : Matches(lists[key][i], key)

\* What the dashboard shows under a filter, whichever the store.
Shows(s, filter) ==
  /\ s \in Seq(DOMAIN entries) /\ Len(s) <= MaxEntries
  /\ \A i, j \in 1 .. Len(s) : s[i] = s[j] => i = j
  /\ \A i \in 1 .. Len(s) : Matches(s[i], filter)
  /\ Falls(s)

\* The rows of the table that a filter finds, and their order.
Found(filter, from) == {n \in ToSet(table) : Matches(n, filter) /\ entries[n].ts >= from}
NewerIn(S) == {p \in S \X S : Newer(p[1], p[2])}

LEMMA NewerIs ==
  ASSUME EntriesShape, TableShape, NEW S \in SUBSET ToSet(table)
  PROVE  /\ IsFiniteSet(S) /\ S \subseteq DOMAIN entries /\ Cardinality(S) <= Len(entries)
         /\ StrictOrder(S, NewerIn(S))
<1>1. EntriesOK /\ DOMAIN entries = 1 .. Len(entries) /\ Len(entries) \in Nat /\ DOMAIN table = 1 .. Len(table) /\ Len(table) \in Nat
  BY DEF EntriesShape, EntriesOK, TableShape
<1>2. \A i \in 1 .. Len(table) : table[i] \in DOMAIN entries
  BY ElementOfSeq DEF TableShape
<1>3. S \subseteq DOMAIN entries /\ \A n \in S : \E i \in DOMAIN table : table[i] = n
  BY <1>1, <1>2 DEF ToSet
<1>4. IsFiniteSet(S) /\ Cardinality(S) <= Len(entries)
  BY <1>1, <1>3, OneToN, FS_Subset
<1>5. \A n \in S : n \in Int /\ entries[n].ts \in Int
  BY <1>1, <1>3, TimesAre
<1>6. \A n \in S : Id(n) \in Int
  <2> TAKE n \in S
  <2>1. CASE journalStore = "mongo" BY <1>5, <2>1 DEF Id
  <2>2. CASE journalStore # "mongo"
    <3>1. Id(n) \in DOMAIN table
      BY <1>3, <2>2 DEF Id
    <3> QED
      BY <1>1, <3>1
  <2> QED
    BY <2>1, <2>2
<1>7. \A m, n \in S : Id(m) = Id(n) => m = n
  <2> TAKE m, n \in S
  <2>1. CASE journalStore = "mongo" BY <2>1 DEF Id
  <2>2. CASE journalStore # "mongo"
    <3>1. table[Id(m)] = m /\ table[Id(n)] = n
      BY <1>3, <2>2 DEF Id
    <3> QED
      BY <3>1
  <2> QED
    BY <2>1, <2>2
<1>8. \A m, n : <<m, n>> \in NewerIn(S) <=> m \in S /\ n \in S /\ Newer(m, n)
  BY DEF NewerIn
<1>9. \A m \in S : ~Newer(m, m)
  BY <1>5, <1>6 DEF Newer
<1>10. \A l, m, n \in S : Newer(l, m) /\ Newer(m, n) => Newer(l, n)
  BY <1>5, <1>6 DEF Newer
<1>11. \A m, n \in S : m # n => Newer(m, n) \/ Newer(n, m)
  BY <1>5, <1>6, <1>7 DEF Newer
<1>12. StrictOrder(S, NewerIn(S))
  BY <1>8, <1>9, <1>10, <1>11 DEF StrictOrder
<1> QED
  BY <1>3, <1>4, <1>12

LEMMA RowsIs ==
  ASSUME EntriesShape, TableShape, NEW filter, NEW from \in Nat
  PROVE  /\ Shows(Rows(filter, from), filter) /\ Len(Rows(filter, from)) = Cardinality(Found(filter, from))
         /\ Enumerates(Rows(filter, from), Found(filter, from), NewerIn(Found(filter, from)))
<1> DEFINE S == Found(filter, from)
           R == NewerIn(S)
           s == Rows(filter, from)
           n == Cardinality(S)
<1>1. S \in SUBSET ToSet(table)
  BY DEF Found
<1>2. IsFiniteSet(S) /\ S \subseteq DOMAIN entries /\ n <= Len(entries) /\ StrictOrder(S, R)
  BY <1>1, NewerIs
<1>3. s = Sorted(S, R)
  BY DEF Rows, Found, NewerIn
<1>4. Enumerates(s, S, R) /\ n \in Nat /\ \A i, j \in 1 .. n : s[i] = s[j] => i = j
  BY <1>2, <1>3, SortedIs
<1>5. s \in [1 .. n -> S] /\ \A i, j \in 1 .. n : i < j => <<s[i], s[j]>> \in R
  BY <1>4 DEF Enumerates
<1>6. \A m \in S : Matches(m, filter) /\ m \in DOMAIN entries /\ entries[m].ts \in Int
  BY <1>2, TimesAre DEF Found, EntriesShape
<1>7. \A l, m \in S : <<l, m>> \in R => entries[l].ts >= entries[m].ts
  BY <1>6 DEF NewerIn, Newer
<1> HIDE DEF S, R, s
<1>8. s \in Seq(DOMAIN entries) /\ Len(s) = n
  BY <1>2, <1>4, <1>5
<1>9. Falls(s)
  BY <1>5, <1>7, <1>8 DEF Falls
<1>10. n <= MaxEntries
  <2>1. Len(entries) \in Nat /\ Len(entries) <= MaxEntries
    BY DEF EntriesShape, EntriesOK
  <2> QED
    BY <1>2, <1>4, <2>1, JournalAssumption DEF JournalAssumption
<1>11. \A i \in 1 .. n : Matches(s[i], filter)
  BY <1>5, <1>6
<1>12. Shows(s, filter)
  BY <1>4, <1>8, <1>9, <1>10, <1>11 DEF Shows
<1> QED
  BY <1>4, <1>8, <1>12 DEF S, R, s

LEMMA RowsSince ==
  ASSUME EntriesShape, TableShape, NEW filter, NEW from \in Nat
  PROVE  Since(Rows(filter, 0), from) = Rows(filter, from)
<1> DEFINE s == Rows(filter, 0)
           S == Found(filter, 0)
           T == Found(filter, from)
           n == Cardinality(S)
<1>0. 0 \in Nat /\ EntriesOK /\ from \in Int
  BY DEF EntriesShape
<1>1. Shows(s, filter) /\ Len(s) = n /\ Enumerates(s, S, NewerIn(S))
  BY <1>0, RowsIs
<1>2. T \in SUBSET S /\ S \in SUBSET ToSet(table)
  <2>1. \A m \in T : entries[m].ts >= 0
    <3>1. T \in SUBSET ToSet(table)
      BY DEF Found
    <3>2. T \subseteq DOMAIN entries
      BY <3>1, NewerIs
    <3> QED
      BY <1>0, <3>2, TimesAre
  <2> QED
    BY <2>1 DEF Found
<1>3. \A m \in S : m \in T <=> entries[m].ts >= from
  BY DEF Found
<1>4. IsFiniteSet(T) /\ StrictOrder(T, NewerIn(T)) /\ S \subseteq DOMAIN entries
  BY <1>2, NewerIs
<1>5. \A l, m \in T : <<l, m>> \in NewerIn(S) => <<l, m>> \in NewerIn(T)
  BY <1>2 DEF NewerIn
<1>11. Rows(filter, from) = Sorted(T, NewerIn(T))
  BY DEF Rows, Found, NewerIn
<1> HIDE DEF s, S, T
<1>6. s \in Seq(DOMAIN entries) /\ Falls(s) /\ \A i, j \in 1 .. Len(s) : s[i] = s[j] => i = j
  BY <1>1 DEF Shows
<1>7. /\ s \in [1 .. n -> S] /\ \A i, j \in 1 .. n : i < j => <<s[i], s[j]>> \in NewerIn(S)
      /\ \A x \in S : \E i \in 1 .. n : s[i] = x
  BY <1>1 DEF Enumerates
<1>8. PICK k : Heads(s, from, k)
  BY <1>0, <1>6, HeadsExist
<1>9. k \in 0 .. n /\ k \in Nat /\ n \in Nat /\ \A i \in 1 .. n : s[i] \in T <=> i <= k
  BY <1>1, <1>3, <1>6, <1>7, <1>8 DEF Heads
<1> DEFINE t == SubSeq(s, 1, k)
<1>10. Since(s, from) = t /\ t \in Seq(DOMAIN entries) /\ Len(t) = k /\ \A i \in 1 .. k : i \in 1 .. n /\ t[i] = s[i]
  BY <1>0, <1>1, <1>6, <1>8, <1>9, SinceIs, HeadIs
<1> HIDE DEF t
<1>12. t \in [1 .. k -> T]
  <2>1. DOMAIN t = 1 .. k /\ t = [i \in DOMAIN t |-> t[i]]
    BY <1>10
  <2>2. \A i \in 1 .. k : t[i] \in T
    BY <1>9, <1>10
  <2> QED
    BY <2>1, <2>2
<1>13. \A i, j \in 1 .. k : t[i] = t[j] => i = j
  BY <1>1, <1>6, <1>10
<1>14. \A x \in T : \E i \in 1 .. k : t[i] = x
  <2> TAKE x \in T
  <2>1. PICK i \in 1 .. n : s[i] = x
    BY <1>2, <1>7
  <2>2. i \in 1 .. k
    BY <1>9, <2>1
  <2> QED
    BY <1>10, <2>1, <2>2
<1>15. t \in Bijection(1 .. k, T)
  BY <1>12, <1>13, <1>14 DEF Bijection, Injection, Surjection, IsInjective
<1>16. ExistsBijection(1 .. k, T)
  BY <1>15 DEF ExistsBijection
<1>17. Cardinality(T) = k
  BY <1>9, <1>16, FS_CountingElements
<1>18. \A i, j \in 1 .. k : i < j => <<t[i], t[j]>> \in NewerIn(T)
  BY <1>5, <1>7, <1>10, <1>12
<1>19. Enumerates(t, T, NewerIn(T))
  BY <1>12, <1>14, <1>17, <1>18 DEF Enumerates
<1>20. t = Sorted(T, NewerIn(T))
  BY <1>4, <1>19, SortedOnly
<1> QED
  BY <1>10, <1>11, <1>20 DEF s

\* A list of redis.
LEMMA ListIs ==
  ASSUME EntriesShape, NEW key, ListShape(key)
  PROVE  Shows(lists[key], key)
<1> DEFINE s == lists[key]
<1>1. /\ s \in Seq(DOMAIN entries) /\ \A i, j \in 1 .. Len(s) : i < j => s[i] > s[j]
      /\ \A i \in 1 .. Len(s) : Matches(s[i], key)
  BY DEF ListShape
<1>2. EntriesOK /\ DOMAIN entries = 1 .. Len(entries) /\ Len(entries) \in Nat /\ Len(entries) <= MaxEntries
  BY DEF EntriesShape, EntriesOK
<1> HIDE DEF s
<1>3. Len(s) \in Nat /\ DOMAIN s = 1 .. Len(s) /\ \A i \in 1 .. Len(s) : s[i] \in DOMAIN entries /\ s[i] \in Int
  BY <1>1, <1>2, ElementOfSeq
<1>4. \A i, j \in 1 .. Len(s) : s[i] = s[j] => i = j
  <2> SUFFICES ASSUME NEW i \in 1 .. Len(s), NEW j \in 1 .. Len(s), s[i] = s[j], i # j PROVE FALSE
    OBVIOUS
  <2>1. i < j \/ j < i
    BY <1>3
  <2> QED
    BY <1>1, <1>3, <2>1
<1>5. \A i, j \in 1 .. Len(s) : i < j => entries[s[i]].ts >= entries[s[j]].ts
  <2> SUFFICES ASSUME NEW i \in 1 .. Len(s), NEW j \in 1 .. Len(s), i < j PROVE entries[s[i]].ts >= entries[s[j]].ts
    OBVIOUS
  <2>1. s[j] <= s[i] /\ s[i] \in DOMAIN entries /\ s[j] \in DOMAIN entries
    BY <1>1, <1>3
  <2>2. entries[s[j]].ts <= entries[s[i]].ts
    BY <2>1 DEF EntriesShape
  <2>3. entries[s[i]].ts \in Int /\ entries[s[j]].ts \in Int
    BY <1>2, <2>1, TimesAre
  <2> QED
    BY <2>2, <2>3
<1>6. Len(s) <= MaxEntries
  <2>1. s \in [1 .. Len(s) -> 1 .. Len(entries)]
    BY <1>1, <1>2
  <2>2. s \in Injection(1 .. Len(s), 1 .. Len(entries))
    BY <1>4, <2>1 DEF Injection, IsInjective
  <2>3. Len(s) <= Len(entries)
    BY <1>2, <1>3, <2>2, OneToN, FS_Injection
  <2> QED
    BY <1>2, <1>3, <2>3, JournalAssumption DEF JournalAssumption
<1> QED
  BY <1>1, <1>4, <1>5, <1>6 DEF s, Shows, Falls

\* The table or the lists, whichever the store has.
StoreShape ==
  /\ EntriesShape
  /\ Sql => TableShape
  /\ journalStore = "redis" => \A key \in Filtered : ListShape(key)

\* What a filter shows, before it is cut into pages.
Source(filter) == IF journalStore = "redis" THEN lists[filter] ELSE Rows(filter, 0)

LEMMA SourceShows ==
  ASSUME StoreShape, NEW filter \in Filtered
  PROVE  Shows(Source(filter), filter)
<1>1. CASE journalStore = "redis" BY <1>1, ListIs DEF StoreShape, Source
<1>2. CASE journalStore # "redis"
  <2>1. EntriesShape /\ TableShape /\ 0 \in Nat
    BY <1>2 DEF StoreShape, EntriesShape
  <2>2. Shows(Rows(filter, 0), filter)
    BY <2>1, RowsIs
  <2> QED
    BY <1>2, <2>2 DEF Source
<1> QED
  BY <1>1, <1>2

LEMMA SinceAll ==
  ASSUME EntriesOK, NEW s \in Seq(DOMAIN entries)
  PROVE  Since(s, 0) = s
<1>1. Len(s) \in Nat /\ \A i \in 1 .. Len(s) : s[i] \in DOMAIN entries
  BY ElementOfSeq
<1>2. \A i \in 1 .. Len(s) : entries[s[i]].ts >= 0
  BY <1>1, TimesAre
<1>3. Heads(s, 0, Len(s))
  BY <1>1, <1>2 DEF Heads
<1>4. Since(s, 0) = SubSeq(s, 1, Len(s))
  BY <1>1, <1>3, SinceIs
<1> QED
  BY <1>4, SubSeqFull

LEMMA FilteredIs ==
  ASSUME EntriesShape, NEW filter \in Filtered
  PROVE  filter \in Filters /\ filter \in Lists /\ (journal = "settings" => filter = <<"who", filter[2]>>)
BY DEF Filtered, Filters, Lists, EntriesShape

\* The pages of the audit, but for those of a filter, which are the first.
LEMMA AuditPages ==
  ASSUME StoreShape, NEW filter \in Filtered, NEW from \in Nat, NEW limit \in Nat, NEW offset \in Nat,
         filter = All \/ offset = 0
  PROVE  /\ ApiAudit(filter, from, limit, offset) = Page(Since(Source(filter), from), limit, offset)
         /\ ApiAuditTotal(filter, from) = Len(Since(Source(filter), from))
<1>1. EntriesShape /\ EntriesOK
  BY DEF StoreShape, EntriesShape
<1>2. Offset(filter, offset) = offset
  BY DEF Offset
<1>3. CASE journalStore = "redis"
  <2> DEFINE s == lists[filter]
  <2>1. s \in Seq(DOMAIN entries) /\ Falls(s)
    BY <1>3, SourceShows DEF Source, Shows
  <2>2. /\ ApiAudit(filter, from, limit, offset) = Since(Page(s, limit, offset), from)
        /\ ApiAuditTotal(filter, from) = Len(Since(s, from))
    BY <1>2, <1>3 DEF ApiAudit, ApiAuditTotal, Of, RedisAudit, RedisAuditCount
  <2> HIDE DEF s
  <2>3. Since(Page(s, limit, offset), from) = Page(Since(s, from), limit, offset)
    BY <1>1, <2>1, SincePage
  <2> QED
    BY <1>3, <2>2, <2>3 DEF s, Source
<1>4. CASE Sql
  <2>1. ApiAudit(filter, from, limit, offset) = Page(Rows(filter, from), limit, offset) /\ ApiAuditTotal(filter, from) = Len(Rows(filter, from))
    BY <1>2, <1>4 DEF Sql, ApiAudit, ApiAuditTotal, Of, SqliteAudit, PostgresAudit, MongoAudit, SqliteAuditCount, PostgresAuditCount, MongoAuditCount
  <2>2. Since(Rows(filter, 0), from) = Rows(filter, from)
    BY <1>1, <1>4, RowsSince DEF StoreShape
  <2> QED
    BY <1>4, <2>1, <2>2 DEF Source, Sql
<1> QED
  BY <1>1, <1>3, <1>4 DEF EntriesShape

LEMMA HistoryPages ==
  ASSUME StoreShape, NEW filter \in Filtered, NEW from \in Nat, NEW limit \in Nat, NEW offset \in Nat
  PROVE  /\ ApiHistory(filter, from, limit, offset) = Page(Since(Source(filter), from), limit, offset)
         /\ (journalStore = "redis" => Len(Source(filter)) <= LogCap) =>
              ApiHistoryTotal(filter, from) = Len(Since(Source(filter), from))
<1>1. EntriesShape /\ EntriesOK
  BY DEF StoreShape, EntriesShape
<1>3. CASE journalStore = "redis"
  <2> DEFINE s == lists[filter]
             long == offset + limit + Slack
  <2>1. s \in Seq(DOMAIN entries) /\ Falls(s)
    BY <1>3, SourceShows DEF Source, Shows
  <2>2. /\ ApiHistory(filter, from, limit, offset) = Page(Since(Page(s, long, 0), from), limit, offset)
        /\ ApiHistoryTotal(filter, from) = Len(Since(Page(s, LogCap, 0), from))
    BY <1>3 DEF ApiHistory, ApiHistoryTotal, Of, RedisTimeline, RedisTimelineCount
  <2>3. long \in Nat /\ offset + limit <= long /\ LogCap \in Nat /\ 0 \in Nat
    BY JournalAssumption DEF JournalAssumption
  <2> HIDE DEF s, long
  <2>4. Since(Page(s, long, 0), from) = Page(Since(s, from), long, 0) /\ Since(s, from) \in Seq(DOMAIN entries)
    BY <1>1, <2>1, <2>3, SincePage
  <2>5. Page(Page(Since(s, from), long, 0), limit, offset) = Page(Since(s, from), limit, offset)
    BY <2>3, <2>4, PageOfPage
  <2>6. Len(s) <= LogCap => Page(s, LogCap, 0) = s
    BY <2>1, <2>3, PageWhole
  <2>7. Source(filter) = s
    BY <1>3 DEF s, Source
  <2> QED
    BY <1>3, <2>2, <2>4, <2>5, <2>6, <2>7
<1>4. CASE Sql
  <2>1. /\ ApiHistory(filter, from, limit, offset) = Page(Rows(filter, from), limit, offset)
        /\ ApiHistoryTotal(filter, from) = Len(Rows(filter, from))
    BY <1>4 DEF Sql, ApiHistory, ApiHistoryTotal, Of, SqliteTimeline, PostgresTimeline, MongoTimeline, SqliteTimelineCount, PostgresTimelineCount, MongoTimelineCount
  <2>2. Since(Rows(filter, 0), from) = Rows(filter, from)
    BY <1>1, <1>4, RowsSince DEF StoreShape
  <2> QED
    BY <1>4, <2>1, <2>2 DEF Source, Sql
<1> QED
  BY <1>1, <1>3, <1>4 DEF EntriesShape

LEMMA SettingsPages ==
  ASSUME StoreShape, NEW filter \in Filtered, journal = "settings", NEW from \in Nat, NEW limit \in Nat
  PROVE  /\ ApiSettings(filter[2], limit) = Page(Source(filter), limit, 0)
         /\ journalStore # "redis" =>
              /\ ApiChanges(filter[2], from) = Len(Since(Source(filter), from))
              /\ \A f \in Whats : ApiSettingsByField(filter[2], f, limit) = Page(OfField(Source(filter), f), limit, 0)
<1>1. EntriesShape /\ filter = <<"who", filter[2]>>
  BY FilteredIs DEF StoreShape
<1>2. CASE journalStore = "redis"
  <2>1. ApiSettings(filter[2], limit) = Page(lists[<<"who", filter[2]>>], limit, 0)
    BY <1>2 DEF ApiSettings, Of, RedisSettings
  <2>2. Source(filter) = lists[<<"who", filter[2]>>]
    BY <1>1, <1>2 DEF Source
  <2> QED
    BY <1>2, <2>1, <2>2
<1>3. CASE Sql
  <2> DEFINE g == filter[2]
             s == Rows(<<"who", g>>, 0)
  <2>1. ApiSettings(g, limit) = Page(s, limit, 0) /\ ApiChanges(g, from) = Len(Rows(<<"who", g>>, from))
    BY <1>3 DEF Sql, ApiSettings, ApiChanges, Of, SqliteSettings, PostgresSettings, MongoSettings, SqliteChanges, PostgresChanges, MongoChanges
  <2>2. \A f \in Whats : ApiSettingsByField(g, f, limit) = Page(OfField(s, f), limit, 0)
    BY <1>3 DEF Sql, ApiSettingsByField, Of, SqliteSettingsByField, PostgresSettingsByField, MongoSettingsByField
  <2>3. Since(s, from) = Rows(<<"who", g>>, from)
    BY <1>1, <1>3, RowsSince DEF StoreShape
  <2>4. Source(filter) = s
    <3>1. journalStore # "redis"
      BY <1>3 DEF Sql
    <3>2. Source(filter) = Rows(filter, 0)
      BY <3>1 DEF Source
    <3> QED
      BY <1>1, <3>2
  <2> HIDE DEF s
  <2> QED
    BY <2>1, <2>2, <2>3, <2>4
<1> QED
  BY <1>1, <1>2, <1>3 DEF EntriesShape

LEMMA WholeIs ==
  ASSUME StoreShape, NEW filter \in Filtered
  PROVE  Whole(filter) = Source(filter)
<1> DEFINE s == Source(filter)
<1>1. EntriesShape /\ EntriesOK /\ MaxEntries \in Nat /\ 0 \in Nat
  BY JournalAssumption DEF StoreShape, EntriesShape, JournalAssumption
<1>2. s \in Seq(DOMAIN entries) /\ Len(s) <= MaxEntries
  BY SourceShows DEF Shows
<1> HIDE DEF s
<1>3. Since(s, 0) = s /\ Page(s, MaxEntries, 0) = s
  BY <1>1, <1>2, SinceAll, PageWhole
<1>4. CASE journal = "audit"
  <2>1. ApiAudit(filter, 0, MaxEntries, 0) = Page(Since(s, 0), MaxEntries, 0)
    BY <1>1, AuditPages DEF s
  <2>2. Whole(filter) = ApiAudit(filter, 0, MaxEntries, 0)
    BY <1>4 DEF Whole
  <2> QED
    BY <1>3, <2>1, <2>2 DEF s
<1>5. CASE journal = "timeline"
  <2>1. ApiHistory(filter, 0, MaxEntries, 0) = Page(Since(s, 0), MaxEntries, 0)
    BY <1>1, HistoryPages DEF s
  <2>2. Whole(filter) = ApiHistory(filter, 0, MaxEntries, 0)
    BY <1>5 DEF Whole
  <2> QED
    BY <1>3, <2>1, <2>2 DEF s
<1>6. CASE journal = "settings"
  <2>1. ApiSettings(filter[2], MaxEntries) = Page(s, MaxEntries, 0)
    BY <1>1, <1>6, SettingsPages DEF s
  <2>2. Whole(filter) = ApiSettings(filter[2], MaxEntries)
    BY <1>6 DEF Whole
  <2> QED
    BY <1>3, <2>1, <2>2 DEF s
<1> QED
  BY <1>1, <1>4, <1>5, <1>6 DEF EntriesShape

LEMMA PagesDoFit == ASSUME StoreShape PROVE PagesFit
<1> SUFFICES ASSUME NEW filter \in Filtered
             PROVE  LET whole == Whole(filter)
                        exact == journalStore = "redis" => Len(whole) <= Cap(filter) IN
                    /\ IsInjective(whole)
                    /\ \A i \in DOMAIN whole : Matches(whole[i], filter)
                    /\ \A i, j \in DOMAIN whole : i < j => entries[whole[i]].ts >= entries[whole[j]].ts
                    /\ journal = "audit" =>
                         \A from \in {0, day} :
                           LET young == Since(whole, from) IN
                           /\ exact => ApiAuditTotal(filter, from) = Len(young)
                           /\ \A limit \in 1 .. 2 : \A offset \in {0, limit} :
                                filter = All \/ offset = 0 => ApiAudit(filter, from, limit, offset) = Page(young, limit, offset)
                    /\ journal = "timeline" =>
                         \A from \in {0, day} :
                           LET young == Since(whole, from) IN
                           /\ exact => ApiHistoryTotal(filter, from) = Len(young)
                           /\ \A limit \in 1 .. 2 : \A offset \in {0, limit} :
                                ApiHistory(filter, from, limit, offset) = Page(young, limit, offset)
                    /\ journal = "settings" =>
                         /\ \A limit \in 1 .. 2 : ApiSettings(filter[2], limit) = Page(whole, limit, 0)
                         /\ journalStore # "redis" =>
                              /\ \A from \in {0, day} : ApiChanges(filter[2], from) = Len(Since(whole, from))
                              /\ \A f \in Whats, limit \in 1 .. 2 :
                                   ApiSettingsByField(filter[2], f, limit) = Page(OfField(whole, f), limit, 0)
  BY DEF PagesFit
<1> DEFINE s == Source(filter)
           exact == journalStore = "redis" => Len(s) <= Cap(filter)
<1>1. Whole(filter) = s /\ EntriesShape /\ day \in Nat
  BY WholeIs DEF StoreShape, EntriesShape
<1>2. Shows(s, filter)
  BY SourceShows
<1>3. \A from \in {0, day}, limit \in 1 .. 2 : from \in Nat /\ limit \in Nat /\ 0 \in Nat /\ \A offset \in {0, limit} : offset \in Nat
  BY <1>1
<1>4. ASSUME NEW from \in {0, day}, NEW limit \in 1 .. 2, NEW offset \in {0, limit}, filter = All \/ offset = 0
      PROVE  ApiAudit(filter, from, limit, offset) = Page(Since(s, from), limit, offset)
  BY <1>3, <1>4, AuditPages DEF s
<1>5. ASSUME NEW from \in {0, day}
      PROVE  ApiAuditTotal(filter, from) = Len(Since(s, from))
  <2>1. from \in Nat /\ 1 \in Nat /\ 0 \in Nat
    BY <1>1
  <2> QED
    BY <2>1, AuditPages DEF s
<1>6. ASSUME NEW from \in {0, day}, NEW limit \in 1 .. 2, NEW offset \in {0, limit}
      PROVE  ApiHistory(filter, from, limit, offset) = Page(Since(s, from), limit, offset)
  BY <1>3, HistoryPages DEF s
<1>7. ASSUME NEW from \in {0, day}, exact
      PROVE  ApiHistoryTotal(filter, from) = Len(Since(s, from))
  <2>1. from \in Nat /\ 1 \in Nat /\ 0 \in Nat
    BY <1>1
  <2>2. Cap(filter) <= LogCap /\ Cap(filter) \in Nat /\ LogCap \in Nat
    BY JournalAssumption DEF JournalAssumption, Cap
  <2>3. Len(s) \in Nat
    BY <1>2 DEF Shows
  <2>4. journalStore = "redis" => Len(s) <= LogCap
    BY <1>7, <2>2, <2>3
  <2> QED
    BY <2>1, <2>4, HistoryPages DEF s
<1>8. ASSUME journal = "settings"
      PROVE  /\ \A limit \in 1 .. 2 : ApiSettings(filter[2], limit) = Page(s, limit, 0)
             /\ journalStore # "redis" =>
                  /\ \A from \in {0, day} : ApiChanges(filter[2], from) = Len(Since(s, from))
                  /\ \A f \in Whats, limit \in 1 .. 2 : ApiSettingsByField(filter[2], f, limit) = Page(OfField(s, f), limit, 0)
  <2>1. 0 \in {0, day} /\ 1 \in 1 .. 2
    OBVIOUS
  <2>2. ASSUME NEW from \in {0, day}, NEW limit \in 1 .. 2
        PROVE  /\ ApiSettings(filter[2], limit) = Page(s, limit, 0)
               /\ journalStore # "redis" =>
                    /\ ApiChanges(filter[2], from) = Len(Since(s, from))
                    /\ \A f \in Whats : ApiSettingsByField(filter[2], f, limit) = Page(OfField(s, f), limit, 0)
    BY <1>3, <1>8, SettingsPages DEF s
  <2> QED
    BY <2>1, <2>2
<1> HIDE DEF s
<1>9. DOMAIN s = 1 .. Len(s)
  BY <1>2 DEF Shows
<1>10. /\ IsInjective(s) /\ \A i \in DOMAIN s : Matches(s[i], filter)
       /\ \A i, j \in DOMAIN s : i < j => entries[s[i]].ts >= entries[s[j]].ts
  BY <1>2, <1>9 DEF Shows, Falls, IsInjective
<1> QED
  BY <1>1, <1>4, <1>5, <1>6, <1>7, <1>8, <1>10

-----------------------------------------------------------------------------
(* A list of redis and what it should hold *)

\* P are the entries that were pushed to a list of the length cap.
Later(P, n) == {k \in P : k > n}
\* The newest cap entries of P, of those that are not older than bar; the first k elements of s; s is
\* newest first.
Top(P, cap, es, bar) == {n \in P : es[n].ts >= bar /\ Cardinality(Later(P, n)) < cap}
Firsts(s, k) == {s[j] : j \in {i \in 1 .. Len(s) : i <= k}}
Sinks(s) == \A i, j \in 1 .. Len(s) : i < j => s[i] > s[j]

\* The list s: W wait to be pushed, and T excuse that it is too long; at most r of the
\* newest entries that are not older than bar are missing.
KeyKnown(s, P, W, T, cap, es, bar, r) ==
  /\ s \in Seq(P) /\ Sinks(s)
  /\ \A i \in 1 .. Len(s) : es[s[i]].ts >= bar
  /\ \A i \in 1 .. Len(s) : \A w \in W : s[i] < w
  /\ Len(s) > cap => s[1] \in T
  /\ Cardinality(Top(P, cap, es, bar) \ Firsts(s, Len(s))) <= r

\* The same of the list when it will have been cut to k entries.
CutKnown(s, P, cap, es, from, k, r) ==
  /\ \A i \in 1 .. Len(s) : i <= k => es[s[i]].ts >= from
  /\ Cardinality(Top(P, cap, es, from) \ Firsts(s, k)) <= r

\* Entries have numbers and days.
Pushable(P, es) == P \in SUBSET Nat /\ IsFiniteSet(P) /\ \A n \in P : es[n].ts \in Int

LEMMA TopFinite ==
  ASSUME NEW P, NEW es, Pushable(P, es), NEW cap \in Nat, NEW bar \in Int
  PROVE  /\ IsFiniteSet(Top(P, cap, es, bar)) /\ Top(P, cap, es, bar) \subseteq P
         /\ \A n \in P : IsFiniteSet(Later(P, n)) /\ Cardinality(Later(P, n)) \in Nat
         /\ \A S : IsFiniteSet(Top(P, cap, es, bar) \ S) /\ Cardinality(Top(P, cap, es, bar) \ S) \in Nat
<1>1. Top(P, cap, es, bar) \in SUBSET P /\ \A n \in P : Later(P, n) \in SUBSET P
  BY DEF Top, Later
<1>2. IsFiniteSet(Top(P, cap, es, bar)) /\ \A n \in P : IsFiniteSet(Later(P, n))
  BY <1>1, FS_Subset DEF Pushable
<1>3. \A S : IsFiniteSet(Top(P, cap, es, bar) \ S)
  BY <1>2, FS_Difference
<1> QED
  BY <1>1, <1>2, <1>3, FS_CardinalityType

LEMMA Fewer ==
  ASSUME NEW S, NEW T, IsFiniteSet(T), S \subseteq T
  PROVE  IsFiniteSet(S) /\ Cardinality(S) <= Cardinality(T) /\ Cardinality(S) \in Nat /\ Cardinality(T) \in Nat
BY FS_Subset, FS_CardinalityType

\* A new entry makes none of the others newer.
LEMMA TopGrows ==
  ASSUME NEW P, NEW es, NEW n \in Nat, Pushable(P \union {n}, es), NEW cap \in Nat, NEW bar \in Int
  PROVE  Top(P \union {n}, cap, es, bar) \subseteq Top(P, cap, es, bar) \union {n}
<1> DEFINE Q == P \union {n}
<1> SUFFICES ASSUME NEW x \in Top(Q, cap, es, bar), x # n PROVE x \in Top(P, cap, es, bar)
  OBVIOUS
<1>1. x \in P /\ es[x].ts >= bar /\ Cardinality(Later(Q, x)) < cap
  BY DEF Top
<1>2. IsFiniteSet(Later(Q, x)) /\ Later(P, x) \subseteq Later(Q, x)
  <2>1. x \in Q
    BY <1>1
  <2>2. IsFiniteSet(Later(Q, x))
    BY <2>1, TopFinite
  <2> QED
    BY <2>2 DEF Later
<1>3. Cardinality(Later(P, x)) <= Cardinality(Later(Q, x)) /\ Cardinality(Later(P, x)) \in Nat /\ Cardinality(Later(Q, x)) \in Nat
  BY <1>2, Fewer
<1>4. Cardinality(Later(P, x)) < cap
  BY <1>1, <1>3
<1> QED
  BY <1>1, <1>4 DEF Top

\* What is further down than cap is not among the newest.
LEMMA TopListed ==
  ASSUME NEW P, NEW es, Pushable(P, es), NEW cap \in Nat, NEW bar \in Int, NEW s \in Seq(P), Sinks(s),
         NEW i \in 1 .. Len(s), i > cap
  PROVE  s[i] \notin Top(P, cap, es, bar)
<1> DEFINE f == [j \in 1 .. i - 1 |-> s[j]]
           B == Later(P, s[i])
<1>1. i \in Nat /\ Len(s) \in Nat /\ \A j \in 1 .. Len(s) : s[j] \in P /\ s[j] \in Nat
  <2>1. \A j \in 1 .. Len(s) : s[j] \in P
    BY ElementOfSeq
  <2>2. Len(s) \in Nat
    OBVIOUS
  <2>3. i \in Nat
    BY <2>2
  <2>4. P \subseteq Nat
    BY DEF Pushable
  <2> QED
    BY <2>1, <2>2, <2>3, <2>4
<1>2. \A j \in 1 .. i - 1 : j \in 1 .. Len(s) /\ j < i
  BY <1>1
<1>3. \A j \in 1 .. i - 1 : s[j] > s[i] /\ s[j] \in P
  BY <1>1, <1>2 DEF Sinks
<1>4. f \in [1 .. i - 1 -> B]
  BY <1>3 DEF Later
<1>5. \A j, k \in 1 .. i - 1 : s[j] = s[k] => j = k
  <2> SUFFICES ASSUME NEW j \in 1 .. i - 1, NEW k \in 1 .. i - 1, s[j] = s[k], j # k PROVE FALSE
    OBVIOUS
  <2>1. j < k \/ k < j
    BY <1>1
  <2>2. s[j] > s[k] \/ s[k] > s[j]
    BY <1>2, <2>1 DEF Sinks
  <2> QED
    BY <1>1, <1>2, <2>2
<1>6. f \in Injection(1 .. i - 1, B)
  BY <1>4, <1>5 DEF Injection, IsInjective
<1>7. IsFiniteSet(B) /\ Cardinality(B) \in Nat
  BY <1>1, TopFinite
<1>8. i - 1 \in Nat
  BY <1>1
<1> HIDE DEF B, f
<1>9. Cardinality(1 .. i - 1) <= Cardinality(B) /\ Cardinality(1 .. i - 1) = i - 1
  BY <1>6, <1>7, <1>8, OneToN, FS_Injection
<1>10. ~(Cardinality(B) < cap)
  BY <1>1, <1>7, <1>8, <1>9
<1> QED
  BY <1>10 DEF B, Top

LEMMA FirstsIs ==
  ASSUME NEW s
  PROVE  \A k, x : x \in Firsts(s, k) <=> \E j \in 1 .. Len(s) : j <= k /\ s[j] = x
BY DEF Firsts

\* LPUSH of an entry that is newer than those in the list and older than those that
\* wait.
PushFits(s, P, W, T, cap, es, bar, r, n, t) ==
  /\ KeyKnown(s, P, W, T, cap, es, bar, r) /\ cap \in Nat /\ bar \in Int /\ r \in Nat /\ n \in W /\ n \in Nat
  /\ Pushable(P \union {n}, es) /\ (\A w \in W \ {n} : n < w) /\ es[n].ts >= bar /\ t = <<n>> \o s
\* t is s behind one more element.
OnTop(t, s, n) == Len(t) = Len(s) + 1 /\ t[1] = n /\ \A i \in 1 .. Len(s) : t[i + 1] = s[i]

LEMMA PushKnown ==
  ASSUME NEW s, NEW P, NEW W, NEW T, NEW cap, NEW es, NEW bar, NEW r, NEW n, NEW t,
         PushFits(s, P, W, T, cap, es, bar, r, n, t)
  PROVE  KeyKnown(t, P \union {n}, W \ {n}, T \union {n}, cap, es, bar, r) /\ OnTop(t, s, n)
<1> SUFFICES ASSUME KeyKnown(s, P, W, T, cap, es, bar, r), cap \in Nat, bar \in Int, r \in Nat, n \in W, n \in Nat,
                    Pushable(P \union {n}, es), \A w \in W \ {n} : n < w, es[n].ts >= bar, t = <<n>> \o s
             PROVE  KeyKnown(t, P \union {n}, W \ {n}, T \union {n}, cap, es, bar, r) /\ OnTop(t, s, n)
  BY DEF PushFits
<1> DEFINE Q == P \union {n}
<1>1. /\ s \in Seq(P) /\ Sinks(s) /\ \A i \in 1 .. Len(s) : es[s[i]].ts >= bar
      /\ \A i \in 1 .. Len(s) : \A w \in W : s[i] < w
      /\ Cardinality(Top(P, cap, es, bar) \ Firsts(s, Len(s))) <= r
  BY DEF KeyKnown
<1>2. s \in Seq(Q) /\ <<n>> \in Seq(Q) /\ Len(<<n>>) = 1 /\ <<n>>[1] = n /\ Len(s) \in Nat
  <2>1. P \subseteq Q
    OBVIOUS
  <2>2. s \in Seq(Q)
    BY <1>1, <2>1, SeqMonotonic
  <2> QED
    BY <2>2
<1>3. /\ t \in Seq(Q) /\ Len(t) = 1 + Len(s)
      /\ \A i \in 1 .. 1 + Len(s) : t[i] = IF i <= 1 THEN <<n>>[i] ELSE s[i - 1]
  <2>1. \A a \in Seq(Q) : Len(a) = 1 => /\ a \o s \in Seq(Q) /\ Len(a \o s) = 1 + Len(s)
                                        /\ \A i \in 1 .. 1 + Len(s) : (a \o s)[i] = IF i <= 1 THEN a[i] ELSE s[i - 1]
    <3> TAKE a \in Seq(Q)
    <3> HAVE Len(a) = 1
    <3>1. /\ a \o s \in Seq(Q) /\ Len(a \o s) = Len(a) + Len(s)
          /\ \A i \in 1 .. Len(a) + Len(s) : (a \o s)[i] = IF i <= Len(a) THEN a[i] ELSE s[i - Len(a)]
      BY <1>2, ConcatProperties
    <3> QED
      BY <3>1
  <2> QED
    BY <1>2, <2>1
<1>4. t[1] = n /\ Len(t) = Len(s) + 1
  BY <1>2, <1>3
<1>5. \A i \in 1 .. Len(t) : i = 1 \/ (i - 1 \in 1 .. Len(s) /\ t[i] = s[i - 1])
  BY <1>2, <1>3
<1>6. \A i \in 1 .. Len(s) : t[i + 1] = s[i]
  <2> TAKE i \in 1 .. Len(s)
  <2>1. i + 1 \in 1 .. 1 + Len(s) /\ ~(i + 1 <= 1) /\ i + 1 - 1 = i
    BY <1>2
  <2> QED
    BY <1>3, <2>1
<1>7. \A i \in 1 .. Len(s) : s[i] \in P /\ s[i] < n
  BY <1>1, ElementOfSeq
<1>8. Sinks(t)
  <2> SUFFICES ASSUME NEW i \in 1 .. Len(t), NEW j \in 1 .. Len(t), i < j PROVE t[i] > t[j]
    BY DEF Sinks
  <2>1. j # 1 /\ j - 1 \in 1 .. Len(s) /\ t[j] = s[j - 1]
    BY <1>2, <1>4, <1>5
  <2>2. CASE i = 1 BY <1>4, <1>7, <2>1, <2>2 DEF Pushable
  <2>3. CASE i # 1
    <3>1. i - 1 \in 1 .. Len(s) /\ t[i] = s[i - 1] /\ i - 1 < j - 1
      BY <1>2, <1>5, <2>3
    <3> QED
      BY <1>1, <2>1, <3>1 DEF Sinks
  <2> QED
    BY <2>2, <2>3
<1>9. \A i \in 1 .. Len(t) : es[t[i]].ts >= bar
  BY <1>1, <1>4, <1>5
<1>10. \A i \in 1 .. Len(t) : \A w \in W \ {n} : t[i] < w
  BY <1>1, <1>4, <1>5
<1>11. Top(Q, cap, es, bar) \ Firsts(t, Len(t)) \subseteq Top(P, cap, es, bar) \ Firsts(s, Len(s))
  <2>1. Top(Q, cap, es, bar) \subseteq Top(P, cap, es, bar) \union {n}
    BY TopGrows
  <2>2. n \in Firsts(t, Len(t))
    <3>1. 1 \in 1 .. Len(t) /\ 1 <= Len(t)
      BY <1>2, <1>4
    <3> QED
      BY <1>4, <3>1, FirstsIs
  <2>3. Firsts(s, Len(s)) \subseteq Firsts(t, Len(t))
    <3> SUFFICES ASSUME NEW x \in Firsts(s, Len(s)) PROVE x \in Firsts(t, Len(t))
      OBVIOUS
    <3>1. PICK j \in 1 .. Len(s) : s[j] = x
      BY FirstsIs
    <3>2. j + 1 \in 1 .. Len(t) /\ j + 1 <= Len(t) /\ t[j + 1] = x
      BY <1>2, <1>4, <1>6, <3>1
    <3> QED
      BY <3>2, FirstsIs
  <2> QED
    BY <2>1, <2>2, <2>3
<1>12. Cardinality(Top(Q, cap, es, bar) \ Firsts(t, Len(t))) <= r
  <2>1. Pushable(P, es)
    <3>1. P \in SUBSET Q
      OBVIOUS
    <3> QED
      BY <3>1, FS_Subset DEF Pushable
  <2>2. IsFiniteSet(Top(P, cap, es, bar) \ Firsts(s, Len(s)))
    BY <2>1, TopFinite
  <2>3. Cardinality(Top(Q, cap, es, bar) \ Firsts(t, Len(t))) <= Cardinality(Top(P, cap, es, bar) \ Firsts(s, Len(s)))
        /\ Cardinality(Top(Q, cap, es, bar) \ Firsts(t, Len(t))) \in Nat
        /\ Cardinality(Top(P, cap, es, bar) \ Firsts(s, Len(s))) \in Nat
    BY <1>11, <2>2, Fewer
  <2> QED
    BY <1>1, <2>3
<1> QED
  BY <1>3, <1>4, <1>6, <1>8, <1>9, <1>10, <1>12 DEF KeyKnown, OnTop

\* The same for a cut that is still to come.
LEMMA PushCut ==
  ASSUME NEW s, NEW P, NEW cap \in Nat, NEW es, NEW from \in Int, NEW k \in Nat, NEW r \in Nat,
         CutKnown(s, P, cap, es, from, k, r), s \in Seq(P), NEW n \in Nat, Pushable(P \union {n}, es),
         es[n].ts >= from, NEW t, OnTop(t, s, n)
  PROVE  CutKnown(t, P \union {n}, cap, es, from, k, r + 1)
<1> USE DEF OnTop
<1> DEFINE Q == P \union {n}
           A == Top(P, cap, es, from) \ Firsts(s, k)
           B == Top(Q, cap, es, from) \ Firsts(t, k)
<1>1. (\A i \in 1 .. Len(s) : i <= k => es[s[i]].ts >= from) /\ Cardinality(A) <= r
  BY DEF CutKnown
<1>2. Len(s) \in Nat
  OBVIOUS
<1>3. \A i \in 1 .. Len(t) : i = 1 \/ (i - 1 \in 1 .. Len(s) /\ t[i] = s[i - 1])
  <2> TAKE i \in 1 .. Len(t)
  <2>1. i = 1 \/ (i - 1 \in 1 .. Len(s) /\ i - 1 + 1 = i)
    BY <1>2
  <2> QED
    BY <2>1
<1>4. \A i \in 1 .. Len(t) : i <= k => es[t[i]].ts >= from
  <2> TAKE i \in 1 .. Len(t)
  <2> HAVE i <= k
  <2>1. CASE i = 1 BY <2>1
  <2>2. CASE i # 1
    <3>1. i - 1 \in 1 .. Len(s) /\ t[i] = s[i - 1] /\ i - 1 <= k
      BY <1>2, <1>3, <2>2
    <3> QED
      BY <1>1, <3>1
  <2> QED
    BY <2>1, <2>2
<1>5. Pushable(P, es)
  <2>1. P \in SUBSET Q
    OBVIOUS
  <2> QED
    BY <2>1, FS_Subset DEF Pushable
<1>6. IsFiniteSet(A) /\ Cardinality(A) \in Nat
  BY <1>5, TopFinite
<1>7. Top(Q, cap, es, from) \subseteq Top(P, cap, es, from) \union {n}
  BY TopGrows
<1>8. \E z : B \subseteq A \union {z}
  <2>1. CASE k = 0
    <3>1. Firsts(s, k) = {}
      BY <2>1, FirstsIs
    <3> QED
      BY <1>7, <3>1
  <2>2. CASE k # 0
    <3>1. \A x \in Firsts(s, k) : x \in Firsts(t, k) \/ x = s[k]
      <4> TAKE x \in Firsts(s, k)
      <4>1. PICK j \in 1 .. Len(s) : j <= k /\ s[j] = x
        BY FirstsIs
      <4>2. CASE j = k BY <4>1, <4>2
      <4>3. CASE j # k
        <5>1. j + 1 \in 1 .. Len(t) /\ j + 1 <= k /\ t[j + 1] = x
          BY <1>2, <4>1, <4>3
        <5> QED
          BY <5>1, FirstsIs
      <4> QED
        BY <4>2, <4>3
    <3>2. n \in Firsts(t, k)
      <4>1. 1 \in 1 .. Len(t) /\ 1 <= k
        BY <1>2, <2>2
      <4> QED
        BY <4>1, FirstsIs
    <3>3. B \subseteq A \union {s[k]}
      BY <1>7, <3>1, <3>2
    <3> QED
      BY <3>3
  <2> QED
    BY <2>1, <2>2
<1> HIDE DEF A, B
<1>9. PICK z : B \subseteq A \union {z}
  BY <1>8
<1>10. IsFiniteSet(A \union {z}) /\ Cardinality(A \union {z}) <= Cardinality(A) + 1 /\ Cardinality(A \union {z}) \in Nat
  <2>1. IsFiniteSet(A \union {z}) /\ Cardinality(A \union {z}) = IF z \in A THEN Cardinality(A) ELSE Cardinality(A) + 1
    BY <1>6, FS_AddElement
  <2> QED
    BY <1>6, <2>1
<1>11. Cardinality(B) <= Cardinality(A \union {z}) /\ Cardinality(B) \in Nat
  BY <1>9, <1>10, Fewer
<1>12. Cardinality(B) <= r + 1
  BY <1>1, <1>6, <1>10, <1>11
<1> QED
  BY <1>4, <1>12 DEF B, CutKnown

\* LTRIM to the length k.
LEMMA CutIs ==
  ASSUME NEW S, NEW s \in Seq(S), NEW k \in Nat, NEW t, t = Cut(s, k)
  PROVE  t \in Seq(S) /\ Len(t) = (IF k < Len(s) THEN k ELSE Len(s)) /\ \A i \in 1 .. Len(t) : i \in 1 .. Len(s) /\ t[i] = s[i]
<1> DEFINE l == IF k < Len(s) THEN k ELSE Len(s)
<1>1. t = SubSeq(s, 1, l) /\ l \in 0 .. Len(s)
  BY DEF Cut
<1>2. t \in Seq(S) /\ Len(t) = l /\ \A i \in 1 .. l : i \in 1 .. Len(s) /\ t[i] = s[i]
  BY <1>1, HeadIs
<1> QED
  BY <1>2

\* LTRIM to the list's own length.
TrimFits(s, P, W, T, cap, es, bar, r, t) ==
  /\ KeyKnown(s, P, W, T, cap, es, bar, r) /\ cap \in Nat /\ bar \in Int /\ r \in Nat
  /\ Pushable(P, es) /\ t = Cut(s, cap)

LEMMA TrimKnown ==
  ASSUME NEW s, NEW P, NEW W, NEW T, NEW cap, NEW es, NEW bar, NEW r, NEW t, TrimFits(s, P, W, T, cap, es, bar, r, t), NEW U
  PROVE  KeyKnown(t, P, W, U, cap, es, bar, r)
<1> SUFFICES ASSUME KeyKnown(s, P, W, T, cap, es, bar, r), cap \in Nat, bar \in Int, r \in Nat, Pushable(P, es), t = Cut(s, cap)
             PROVE  KeyKnown(t, P, W, U, cap, es, bar, r)
  BY DEF TrimFits
<1>1. /\ s \in Seq(P) /\ Sinks(s) /\ \A i \in 1 .. Len(s) : es[s[i]].ts >= bar
      /\ \A i \in 1 .. Len(s) : \A w \in W : s[i] < w
      /\ Cardinality(Top(P, cap, es, bar) \ Firsts(s, Len(s))) <= r
  BY DEF KeyKnown
<1>2. /\ t \in Seq(P) /\ Len(t) = (IF cap < Len(s) THEN cap ELSE Len(s)) /\ \A i \in 1 .. Len(t) : i \in 1 .. Len(s) /\ t[i] = s[i]
  BY <1>1, CutIs
<1>3. Len(s) \in Nat /\ Len(t) \in Nat
  BY <1>1, <1>2
<1>4. Sinks(t)
  BY <1>1, <1>2 DEF Sinks
<1>5. Top(P, cap, es, bar) \ Firsts(t, Len(t)) \subseteq Top(P, cap, es, bar) \ Firsts(s, Len(s))
  <2> SUFFICES ASSUME NEW x \in Top(P, cap, es, bar), x \in Firsts(s, Len(s)) PROVE x \in Firsts(t, Len(t))
    OBVIOUS
  <2>1. PICK j \in 1 .. Len(s) : s[j] = x
    BY FirstsIs
  <2>2. ~(j > cap)
    BY <1>1, <2>1, TopListed
  <2>3. j \in 1 .. Len(t) /\ j <= Len(t) /\ t[j] = x
    BY <1>2, <1>3, <2>1, <2>2
  <2> QED
    BY <2>3, FirstsIs
<1>6. Cardinality(Top(P, cap, es, bar) \ Firsts(t, Len(t))) <= r
  <2>1. IsFiniteSet(Top(P, cap, es, bar) \ Firsts(s, Len(s)))
    BY TopFinite
  <2>2. /\ Cardinality(Top(P, cap, es, bar) \ Firsts(t, Len(t))) <= Cardinality(Top(P, cap, es, bar) \ Firsts(s, Len(s)))
        /\ Cardinality(Top(P, cap, es, bar) \ Firsts(t, Len(t))) \in Nat
        /\ Cardinality(Top(P, cap, es, bar) \ Firsts(s, Len(s))) \in Nat
    BY <1>5, <2>1, Fewer
  <2> QED
    BY <1>1, <2>2
<1>7. ~(Len(t) > cap)
  BY <1>2, <1>3
<1> QED
  BY <1>1, <1>2, <1>4, <1>6, <1>7 DEF KeyKnown

LEMMA TrimCut ==
  ASSUME NEW s, NEW P, NEW cap \in Nat, NEW es, NEW from \in Int, NEW k \in Nat, NEW r \in Nat,
         CutKnown(s, P, cap, es, from, k, r), s \in Seq(P), Sinks(s), Pushable(P, es), NEW t, t = Cut(s, cap)
  PROVE  CutKnown(t, P, cap, es, from, k, r)
<1>1. (\A i \in 1 .. Len(s) : i <= k => es[s[i]].ts >= from) /\ Cardinality(Top(P, cap, es, from) \ Firsts(s, k)) <= r
  BY DEF CutKnown
<1>2. /\ t \in Seq(P) /\ Len(t) = (IF cap < Len(s) THEN cap ELSE Len(s)) /\ \A i \in 1 .. Len(t) : i \in 1 .. Len(s) /\ t[i] = s[i]
  BY CutIs
<1>3. Len(s) \in Nat /\ Len(t) \in Nat
  BY <1>2
<1>4. \A i \in 1 .. Len(t) : i <= k => es[t[i]].ts >= from
  BY <1>1, <1>2
<1>5. Top(P, cap, es, from) \ Firsts(t, k) \subseteq Top(P, cap, es, from) \ Firsts(s, k)
  <2> SUFFICES ASSUME NEW x \in Top(P, cap, es, from), x \in Firsts(s, k) PROVE x \in Firsts(t, k)
    OBVIOUS
  <2>1. PICK j \in 1 .. Len(s) : j <= k /\ s[j] = x
    BY FirstsIs
  <2>2. ~(j > cap)
    BY <2>1, TopListed
  <2>3. j \in 1 .. Len(t) /\ t[j] = x
    BY <1>2, <1>3, <2>1, <2>2
  <2> QED
    BY <2>1, <2>3, FirstsIs
<1>6. Cardinality(Top(P, cap, es, from) \ Firsts(t, k)) <= r
  <2>1. IsFiniteSet(Top(P, cap, es, from) \ Firsts(s, k))
    BY TopFinite
  <2>2. /\ Cardinality(Top(P, cap, es, from) \ Firsts(t, k)) <= Cardinality(Top(P, cap, es, from) \ Firsts(s, k))
        /\ Cardinality(Top(P, cap, es, from) \ Firsts(t, k)) \in Nat
        /\ Cardinality(Top(P, cap, es, from) \ Firsts(s, k)) \in Nat
    BY <1>5, <2>1, Fewer
  <2> QED
    BY <1>1, <2>2
<1> QED
  BY <1>4, <1>6 DEF CutKnown

\* The list after a cut to k entries, and what a second cut leaves of it.
CutAway(s, P, W, T, cap, es, bar, from, k, r, t) ==
  /\ KeyKnown(s, P, W, T, cap, es, bar, r) /\ cap \in Nat /\ bar \in Int /\ from \in Int /\ r \in Nat /\ k \in Nat
  /\ Pushable(P, es) /\ CutKnown(s, P, cap, es, from, k, r) /\ t = Cut(s, k)

LEMMA CutLeaves ==
  ASSUME NEW s, NEW P, NEW W, NEW T, NEW cap, NEW es, NEW bar, NEW from, NEW k, NEW r, NEW t,
         CutAway(s, P, W, T, cap, es, bar, from, k, r, t)
  PROVE  /\ KeyKnown(t, P, W, T, cap, es, from, r)
         /\ \A l \in Nat : CutKnown(s, P, cap, es, from, l, r) => CutKnown(t, P, cap, es, from, l, r)
<1> SUFFICES ASSUME KeyKnown(s, P, W, T, cap, es, bar, r), cap \in Nat, bar \in Int, from \in Int, r \in Nat, k \in Nat,
                    Pushable(P, es), CutKnown(s, P, cap, es, from, k, r), t = Cut(s, k)
             PROVE  /\ KeyKnown(t, P, W, T, cap, es, from, r)
                    /\ \A l \in Nat : CutKnown(s, P, cap, es, from, l, r) => CutKnown(t, P, cap, es, from, l, r)
  BY DEF CutAway
<1>1. /\ s \in Seq(P) /\ Sinks(s) /\ \A i \in 1 .. Len(s) : \A w \in W : s[i] < w
      /\ Len(s) > cap => s[1] \in T
  BY DEF KeyKnown
<1>2. (\A i \in 1 .. Len(s) : i <= k => es[s[i]].ts >= from) /\ Cardinality(Top(P, cap, es, from) \ Firsts(s, k)) <= r
  BY DEF CutKnown
<1>3. /\ t \in Seq(P) /\ Len(t) = (IF k < Len(s) THEN k ELSE Len(s)) /\ \A i \in 1 .. Len(t) : i \in 1 .. Len(s) /\ t[i] = s[i]
  BY <1>1, CutIs
<1>4. Len(s) \in Nat /\ Len(t) \in Nat /\ \A i \in 1 .. Len(t) : i <= k
  BY <1>1, <1>3
<1>5. Firsts(t, Len(t)) = Firsts(s, k)
  <2>1. ASSUME NEW x \in Firsts(t, Len(t)) PROVE x \in Firsts(s, k)
    <3>1. PICK j \in 1 .. Len(t) : t[j] = x
      BY FirstsIs
    <3> QED
      BY <1>3, <1>4, <3>1, FirstsIs
  <2>2. ASSUME NEW x \in Firsts(s, k) PROVE x \in Firsts(t, Len(t))
    <3>1. PICK j \in 1 .. Len(s) : j <= k /\ s[j] = x
      BY FirstsIs
    <3>2. j \in 1 .. Len(t) /\ j <= Len(t) /\ t[j] = x
      BY <1>3, <1>4, <3>1
    <3> QED
      BY <3>2, FirstsIs
  <2> QED
    BY <2>1, <2>2
<1>6. Sinks(t) /\ \A i \in 1 .. Len(t) : es[t[i]].ts >= from /\ \A w \in W : t[i] < w
  BY <1>1, <1>2, <1>3, <1>4 DEF Sinks
<1>7. Len(t) > cap => t[1] \in T
  <2> HAVE Len(t) > cap
  <2>1. 1 \in 1 .. Len(t) /\ Len(s) > cap
    BY <1>3, <1>4
  <2> QED
    BY <1>1, <1>3, <2>1
<1>8. KeyKnown(t, P, W, T, cap, es, from, r)
  BY <1>2, <1>3, <1>5, <1>6, <1>7 DEF KeyKnown
<1>9. ASSUME NEW l \in Nat, CutKnown(s, P, cap, es, from, l, r) PROVE CutKnown(t, P, cap, es, from, l, r)
  <2>1. (\A i \in 1 .. Len(s) : i <= l => es[s[i]].ts >= from) /\ Cardinality(Top(P, cap, es, from) \ Firsts(s, l)) <= r
    BY <1>9 DEF CutKnown
  <2>2. \A i \in 1 .. Len(t) : i <= l => es[t[i]].ts >= from
    BY <1>6
  <2>3. Firsts(t, l) = IF l <= k THEN Firsts(s, l) ELSE Firsts(s, k)
    <3>1. ASSUME NEW x \in Firsts(t, l) PROVE x \in Firsts(s, l) /\ x \in Firsts(s, k)
      <4>1. PICK j \in 1 .. Len(t) : j <= l /\ t[j] = x
        BY FirstsIs
      <4> QED
        BY <1>3, <1>4, <4>1, FirstsIs
    <3>2. ASSUME NEW x \in Firsts(s, IF l <= k THEN l ELSE k) PROVE x \in Firsts(t, l)
      <4>1. PICK j \in 1 .. Len(s) : j <= (IF l <= k THEN l ELSE k) /\ s[j] = x
        BY <3>2, FirstsIs
      <4>2. j \in 1 .. Len(t) /\ j <= l /\ t[j] = x
        BY <1>3, <1>4, <4>1
      <4> QED
        BY <4>2, FirstsIs
    <3> QED
      BY <3>1, <3>2
  <2>4. Cardinality(Top(P, cap, es, from) \ Firsts(t, l)) <= r
    BY <1>2, <2>1, <2>3
  <2> QED
    BY <2>2, <2>4 DEF CutKnown
<1> QED
  BY <1>8, <1>9

\* What a prune reads, when the entries fall.
Scans(s, P, W, T, cap, es, bar, from, k, r) ==
  /\ KeyKnown(s, P, W, T, cap, es, bar, r) /\ cap \in Nat /\ bar \in Int /\ from \in Int /\ r \in Nat /\ bar <= from
  /\ Pushable(P, es) /\ k \in 0 .. Len(s) /\ \A i \in 1 .. Len(s) : es[s[i]].ts >= from <=> i <= k

LEMMA ScanKnown ==
  ASSUME NEW s, NEW P, NEW W, NEW T, NEW cap, NEW es, NEW bar, NEW from, NEW k, NEW r,
         Scans(s, P, W, T, cap, es, bar, from, k, r)
  PROVE  /\ CutKnown(s, P, cap, es, from, k, r)
         /\ k = Len(s) => KeyKnown(s, P, W, T, cap, es, from, r)
<1> SUFFICES ASSUME KeyKnown(s, P, W, T, cap, es, bar, r), cap \in Nat, bar \in Int, from \in Int, r \in Nat, bar <= from,
                    Pushable(P, es), k \in 0 .. Len(s), \A i \in 1 .. Len(s) : es[s[i]].ts >= from <=> i <= k
             PROVE  /\ CutKnown(s, P, cap, es, from, k, r)
                    /\ k = Len(s) => KeyKnown(s, P, W, T, cap, es, from, r)
  BY DEF Scans
<1>1. /\ s \in Seq(P) /\ Sinks(s) /\ \A i \in 1 .. Len(s) : \A w \in W : s[i] < w
      /\ Len(s) > cap => s[1] \in T
      /\ Cardinality(Top(P, cap, es, bar) \ Firsts(s, Len(s))) <= r
  BY DEF KeyKnown
<1>2. Len(s) \in Nat /\ k \in Nat /\ \A i \in 1 .. Len(s) : s[i] \in P
  BY <1>1, ElementOfSeq
<1>3. Top(P, cap, es, from) \ Firsts(s, k) \subseteq Top(P, cap, es, bar) \ Firsts(s, Len(s))
  <2> SUFFICES ASSUME NEW x \in Top(P, cap, es, from), x \notin Firsts(s, k)
               PROVE  x \in Top(P, cap, es, bar) /\ x \notin Firsts(s, Len(s))
    OBVIOUS
  <2>1. x \in P /\ es[x].ts >= from /\ es[x].ts \in Int /\ Cardinality(Later(P, x)) < cap
    BY DEF Top, Pushable
  <2>2. es[x].ts >= bar
    BY <2>1
  <2>3. ASSUME x \in Firsts(s, Len(s)) PROVE FALSE
    <3>1. PICK j \in 1 .. Len(s) : s[j] = x
      BY <2>3, FirstsIs
    <3>2. j <= k
      BY <2>1, <3>1
    <3> QED
      BY <3>1, <3>2, FirstsIs
  <2> QED
    BY <2>1, <2>2, <2>3 DEF Top
<1>4. Cardinality(Top(P, cap, es, from) \ Firsts(s, k)) <= r
  <2>1. IsFiniteSet(Top(P, cap, es, bar) \ Firsts(s, Len(s)))
    BY TopFinite
  <2>2. /\ Cardinality(Top(P, cap, es, from) \ Firsts(s, k)) <= Cardinality(Top(P, cap, es, bar) \ Firsts(s, Len(s)))
        /\ Cardinality(Top(P, cap, es, from) \ Firsts(s, k)) \in Nat
        /\ Cardinality(Top(P, cap, es, bar) \ Firsts(s, Len(s))) \in Nat
    BY <1>3, <2>1, Fewer
  <2> QED
    BY <1>1, <2>2
<1>5. CutKnown(s, P, cap, es, from, k, r)
  BY <1>4 DEF CutKnown
<1>6. ASSUME k = Len(s) PROVE KeyKnown(s, P, W, T, cap, es, from, r)
  <2>1. \A i \in 1 .. Len(s) : es[s[i]].ts >= from
    BY <1>2, <1>6
  <2> QED
    BY <1>1, <1>4, <1>6, <2>1 DEF KeyKnown
<1> QED
  BY <1>5, <1>6

\* What fails or waits no more.
LEMMA WaitKnown ==
  ASSUME NEW s, NEW P, NEW W, NEW T, NEW cap, NEW es, NEW bar, NEW r, KeyKnown(s, P, W, T, cap, es, bar, r),
         NEW V, NEW U, V \subseteq W, T \subseteq U
  PROVE  KeyKnown(s, P, V, U, cap, es, bar, r)
BY DEF KeyKnown

\* More entries, which wait.
LEMMA EntryKnown ==
  ASSUME NEW s, NEW P, NEW W, NEW T, NEW cap, NEW es, NEW bar, NEW r, KeyKnown(s, P, W, T, cap, es, bar, r),
         NEW fs, \A n \in P : fs[n] = es[n], NEW V, \A i \in 1 .. Len(s) : \A w \in V : s[i] < w
  PROVE  KeyKnown(s, P, V, T, cap, fs, bar, r)
<1>1. s \in Seq(P) /\ \A i \in 1 .. Len(s) : s[i] \in P
  <2>1. s \in Seq(P)
    BY DEF KeyKnown
  <2> QED
    BY <2>1, ElementOfSeq
<1>2. Top(P, cap, fs, bar) = Top(P, cap, es, bar)
  BY DEF Top
<1> QED
  BY <1>1, <1>2 DEF KeyKnown

LEMMA EntryCut ==
  ASSUME NEW s, NEW P, s \in Seq(P), NEW cap, NEW es, NEW from, NEW k, NEW r, CutKnown(s, P, cap, es, from, k, r),
         NEW fs, \A n \in P : fs[n] = es[n]
  PROVE  CutKnown(s, P, cap, fs, from, k, r)
<1>1. \A i \in 1 .. Len(s) : s[i] \in P
  BY ElementOfSeq
<1>2. Top(P, cap, fs, from) = Top(P, cap, es, from)
  BY DEF Top
<1> QED
  BY <1>1, <1>2 DEF CutKnown

\* x is the list s after a push, while a prune is about to cut s to k entries.
CutFits(s, P, cap, es, from, k, r, n, x) ==
  /\ CutKnown(s, P, cap, es, from, k, r) /\ s \in Seq(P) /\ cap \in Nat /\ from \in Int /\ k \in Nat /\ r \in Nat /\ n \in Nat
  /\ Pushable(P \union {n}, es) /\ es[n].ts >= from /\ OnTop(x, s, n)

LEMMA CutFitsKnown ==
  ASSUME NEW s, NEW P, NEW cap, NEW es, NEW from, NEW k, NEW r, NEW n, NEW x, CutFits(s, P, cap, es, from, k, r, n, x)
  PROVE  CutKnown(x, P \union {n}, cap, es, from, k, r + 1)
<1>1. /\ CutKnown(s, P, cap, es, from, k, r) /\ s \in Seq(P) /\ cap \in Nat /\ from \in Int /\ k \in Nat /\ r \in Nat /\ n \in Nat
      /\ Pushable(P \union {n}, es) /\ es[n].ts >= from /\ OnTop(x, s, n)
  BY DEF CutFits
<1> QED
  BY <1>1, PushCut

-----------------------------------------------------------------------------
(* The calls of redis for an entry *)

\* The calls, and those redis gets for the entry e.
CallSet == [op : {"insert", "delete", "push", "trim", "scan", "cut"}, key : Lists, arg : Int]

RedisCalls(j, e) ==
  CASE j = "audit" -> RedisRecordAdminAudit(e)
    [] j = "timeline" -> RedisRecordTimelineEvent(e)
    [] OTHER -> RedisRecordGroupSettingsChange(e)

\* The lists of the journal j; whether they tell the entry e; where among the calls for
\* an entry a list is written, which is trimmed next.
Keys(j) ==
  CASE j = "audit" -> Filters
    [] j = "timeline" -> {All} \union ({"who"} \X Whos)
    [] OTHER -> {"who"} \X Whos
Told(e, key) == key = All \/ key = <<"who", e.who>> \/ key = <<"what", e.what>>
Place(j, key) == IF j = "settings" \/ key = All THEN 1 ELSE IF key[1] = "who" THEN 3 ELSE 5
\* The length to which a list is trimmed.
Length(j, key) == IF key = All \/ j = "settings" THEN LogCap ELSE SideCap

\* The journals, and the entries each is given.
GoodJournal(j) == j \in {"audit", "timeline", "settings"}
GoodEntry(j, e) == e.who \in Whos \union {NoEntity} /\ e.what \in Whats /\ (e.who = NoEntity => j = "timeline")

\* The calls w for the entry e push it to each list that tells it, and trim that list next.
CallsFit(w, j, e) ==
  /\ w \in Seq(CallSet) /\ Len(w) \in Nat /\ 0 < Len(w)
  /\ \A key \in Keys(j) : Told(e, key) =>
       /\ Place(j, key) \in 1 .. Len(w) /\ Place(j, key) + 1 \in 1 .. Len(w)
       /\ w[Place(j, key)] = Call("push", key, 0) /\ w[Place(j, key) + 1] = Call("trim", key, Length(j, key))
  /\ \A i \in 1 .. Len(w) :
       /\ w[i].key \in Keys(j) /\ Told(e, w[i].key)
       /\ \/ w[i] = Call("push", w[i].key, 0) /\ i = Place(j, w[i].key)
          \/ w[i] = Call("trim", w[i].key, Length(j, w[i].key)) /\ i = Place(j, w[i].key) + 1

LEMMA Joined ==
  ASSUME NEW S, NEW s \in Seq(S), NEW a \in S, NEW b \in S, NEW t, t = s \o <<a, b>>
  PROVE  /\ t \in Seq(S) /\ Len(t) = Len(s) + 2 /\ Len(s) \in Nat
         /\ \A i \in 1 .. Len(s) : t[i] = s[i]
         /\ t[Len(s) + 1] = a /\ t[Len(s) + 2] = b
<1>1. <<a, b>> \in Seq(S) /\ Len(<<a, b>>) = 2 /\ <<a, b>>[1] = a /\ <<a, b>>[2] = b /\ Len(s) \in Nat
  OBVIOUS
<1>2. \A u \in Seq(S) : /\ s \o u \in Seq(S) /\ Len(s \o u) = Len(s) + Len(u)
                        /\ \A i \in 1 .. Len(s) + Len(u) : (s \o u)[i] = IF i <= Len(s) THEN s[i] ELSE u[i - Len(s)]
  BY ConcatProperties
<1>3. /\ t \in Seq(S) /\ Len(t) = Len(s) + 2
      /\ \A i \in 1 .. Len(s) + 2 : t[i] = IF i <= Len(s) THEN s[i] ELSE <<a, b>>[i - Len(s)]
  BY <1>1, <1>2
<1>4. /\ Len(s) + 1 \in 1 .. Len(s) + 2 /\ ~(Len(s) + 1 <= Len(s)) /\ Len(s) + 1 - Len(s) = 1
      /\ Len(s) + 2 \in 1 .. Len(s) + 2 /\ ~(Len(s) + 2 <= Len(s)) /\ Len(s) + 2 - Len(s) = 2
      /\ \A i \in 1 .. Len(s) : i \in 1 .. Len(s) + 2 /\ i <= Len(s)
  BY <1>1
<1> QED
  BY <1>1, <1>3, <1>4

LEMMA PutIs ==
  ASSUME NEW key \in Lists, NEW cap \in Nat
  PROVE  /\ Put(key, cap) = <<Call("push", key, 0), Call("trim", key, cap)>>
         /\ Call("push", key, 0) \in CallSet /\ Call("trim", key, cap) \in CallSet
BY DEF Put, Call, CallSet

LEMMA PutFirst ==
  ASSUME NEW key \in Lists, NEW cap \in Nat, NEW t, t = Put(key, cap)
  PROVE  t \in Seq(CallSet) /\ Len(t) = 2 /\ t[1] = Call("push", key, 0) /\ t[2] = Call("trim", key, cap)
<1> DEFINE a == Call("push", key, 0)
           b == Call("trim", key, cap)
<1>1. t = <<a, b>> /\ a \in CallSet /\ b \in CallSet
  BY PutIs
<1> HIDE DEF a, b
<1>2. t \in Seq(CallSet) /\ Len(t) = 2 /\ t[1] = a /\ t[2] = b
  BY <1>1
<1> QED
  BY <1>2 DEF a, b

\* t is s with a push and a trim of one more list.
Adds(t, s, key, cap) ==
  /\ t \in Seq(CallSet) /\ Len(t) = Len(s) + 2 /\ Len(s) \in Nat
  /\ \A i \in 1 .. Len(s) : t[i] = s[i]
  /\ t[Len(s) + 1] = Call("push", key, 0) /\ t[Len(s) + 2] = Call("trim", key, cap)

LEMMA PutNext ==
  ASSUME NEW s \in Seq(CallSet), NEW key \in Lists, NEW cap \in Nat
  PROVE  Adds(s \o Put(key, cap), s, key, cap)
<1> DEFINE t == s \o Put(key, cap)
<1> DEFINE a == Call("push", key, 0)
           b == Call("trim", key, cap)
<1>1. t = s \o <<a, b>> /\ a \in CallSet /\ b \in CallSet
  BY PutIs
<1> HIDE DEF a, b, t
<1>2. /\ t \in Seq(CallSet) /\ Len(t) = Len(s) + 2 /\ Len(s) \in Nat
      /\ \A i \in 1 .. Len(s) : t[i] = s[i]
      /\ t[Len(s) + 1] = a /\ t[Len(s) + 2] = b
  BY <1>1, Joined
<1> QED
  BY <1>2 DEF a, b, t, Adds

LEMMA CallsDoFit ==
  ASSUME NEW j, GoodJournal(j), NEW e, GoodEntry(j, e)
  PROVE  CallsFit(RedisCalls(j, e), j, e)
<1> DEFINE who == <<"who", e.who>>
           what == <<"what", e.what>>
           w == RedisCalls(j, e)
<1>1. LogCap \in Nat /\ SideCap \in Nat /\ NoEntity \notin Whos
  BY JournalAssumption DEF JournalAssumption
<1>2. All \in Lists /\ what \in Lists /\ (e.who # NoEntity => who \in Lists) /\ All # who /\ All # what /\ who # what
  BY DEF Lists, Filters, All, GoodEntry
<1>3. Told(e, All) /\ Told(e, who) /\ Told(e, what) /\ \A key : Told(e, key) => key \in {All, who, what}
  BY DEF Told
<1>4. /\ who[1] = "who" /\ what[1] = "what" /\ who # All /\ what # All
  BY <1>2
<1>5. CASE j = "audit"
  <2> DEFINE p == Put(All, LogCap)
             q == p \o Put(who, SideCap)
  <2>1. w = q \o Put(what, SideCap)
    BY <1>5 DEF RedisCalls, RedisRecordAdminAudit
  <2>2. who \in Lists /\ Keys(j) = Filters /\ {All, who, what} \subseteq Filters
    BY <1>2, <1>5 DEF GoodEntry, Keys, Filters
  <2>3. p \in Seq(CallSet) /\ Len(p) = 2 /\ p[1] = Call("push", All, 0) /\ p[2] = Call("trim", All, LogCap)
    BY <1>1, <1>2, PutFirst
  <2>4. /\ q \in Seq(CallSet) /\ Len(q) = Len(p) + 2 /\ \A i \in 1 .. Len(p) : q[i] = p[i]
        /\ q[Len(p) + 1] = Call("push", who, 0) /\ q[Len(p) + 2] = Call("trim", who, SideCap)
    <3>1. Adds(p \o Put(who, SideCap), p, who, SideCap)
      BY <1>1, <2>2, <2>3, PutNext
    <3> QED
      BY <3>1 DEF Adds
  <2>5. /\ w \in Seq(CallSet) /\ Len(w) = Len(q) + 2 /\ \A i \in 1 .. Len(q) : w[i] = q[i]
        /\ w[Len(q) + 1] = Call("push", what, 0) /\ w[Len(q) + 2] = Call("trim", what, SideCap)
    <3>1. q \in Seq(CallSet)
      BY <2>4
    <3> HIDE DEF p, q, w
    <3>2. Adds(q \o Put(what, SideCap), q, what, SideCap)
      BY <1>1, <1>2, <3>1, PutNext
    <3> QED
      BY <2>1, <3>2 DEF Adds
  <2>6. /\ Place(j, All) = 1 /\ Place(j, who) = 3 /\ Place(j, what) = 5
        /\ Length(j, All) = LogCap /\ Length(j, who) = SideCap /\ Length(j, what) = SideCap
    BY <1>4, <1>5 DEF Place, Length
  <2> HIDE DEF p, q, w, who, what
  <2>7. Len(q) = 4 /\ q[1] = p[1] /\ q[2] = p[2] /\ q[3] = Call("push", who, 0) /\ q[4] = Call("trim", who, SideCap)
    BY <2>3, <2>4
  <2>8. /\ Len(w) = 6 /\ w[1] = Call("push", All, 0) /\ w[2] = Call("trim", All, LogCap)
        /\ w[3] = Call("push", who, 0) /\ w[4] = Call("trim", who, SideCap)
        /\ w[5] = Call("push", what, 0) /\ w[6] = Call("trim", what, SideCap)
    BY <2>3, <2>5, <2>7
  <2>9. \A i \in 1 .. 6 : i \in {1, 2, 3, 4, 5, 6}
    OBVIOUS
  <2>10. /\ w[1].key = All /\ w[2].key = All /\ w[3].key = who /\ w[4].key = who /\ w[5].key = what /\ w[6].key = what
    BY <2>8 DEF Call
  <2>11. \A key \in Keys(j) : Told(e, key) =>
           /\ Place(j, key) \in 1 .. Len(w) /\ Place(j, key) + 1 \in 1 .. Len(w)
           /\ w[Place(j, key)] = Call("push", key, 0) /\ w[Place(j, key) + 1] = Call("trim", key, Length(j, key))
    BY <1>3, <2>6, <2>8
  <2>12. \A i \in 1 .. Len(w) :
           /\ w[i].key \in Keys(j) /\ Told(e, w[i].key)
           /\ \/ w[i] = Call("push", w[i].key, 0) /\ i = Place(j, w[i].key)
              \/ w[i] = Call("trim", w[i].key, Length(j, w[i].key)) /\ i = Place(j, w[i].key) + 1
    BY <1>3, <2>2, <2>6, <2>8, <2>9, <2>10
  <2> QED
    BY <2>5, <2>8, <2>11, <2>12 DEF CallsFit, w
<1>6. CASE j = "timeline" /\ e.who # NoEntity
  <2> DEFINE p == Put(All, LogCap)
  <2>1. w = p \o Put(who, SideCap)
    BY <1>6 DEF RedisCalls, RedisRecordTimelineEvent
  <2>2. who \in Lists /\ Keys(j) = {All} \union ({"who"} \X Whos) /\ {All, who} \subseteq Keys(j) /\ what \notin Keys(j)
    BY <1>2, <1>6 DEF GoodEntry, Keys, All
  <2>3. p \in Seq(CallSet) /\ Len(p) = 2 /\ p[1] = Call("push", All, 0) /\ p[2] = Call("trim", All, LogCap)
    BY <1>1, <1>2, PutFirst
  <2>4. /\ w \in Seq(CallSet) /\ Len(w) = Len(p) + 2 /\ \A i \in 1 .. Len(p) : w[i] = p[i]
        /\ w[Len(p) + 1] = Call("push", who, 0) /\ w[Len(p) + 2] = Call("trim", who, SideCap)
    <3>1. Adds(p \o Put(who, SideCap), p, who, SideCap)
      BY <1>1, <2>2, <2>3, PutNext
    <3> HIDE DEF p, w
    <3> QED
      BY <2>1, <3>1 DEF Adds
  <2>6. Place(j, All) = 1 /\ Place(j, who) = 3 /\ Length(j, All) = LogCap /\ Length(j, who) = SideCap
    BY <1>4, <1>6 DEF Place, Length
  <2> HIDE DEF p, w, who, what
  <2>8. /\ Len(w) = 4 /\ w[1] = Call("push", All, 0) /\ w[2] = Call("trim", All, LogCap)
        /\ w[3] = Call("push", who, 0) /\ w[4] = Call("trim", who, SideCap)
    BY <2>3, <2>4
  <2>9. \A i \in 1 .. 4 : i \in {1, 2, 3, 4}
    OBVIOUS
  <2>10. w[1].key = All /\ w[2].key = All /\ w[3].key = who /\ w[4].key = who
    BY <2>8 DEF Call
  <2>11. \A key \in Keys(j) : Told(e, key) =>
           /\ Place(j, key) \in 1 .. Len(w) /\ Place(j, key) + 1 \in 1 .. Len(w)
           /\ w[Place(j, key)] = Call("push", key, 0) /\ w[Place(j, key) + 1] = Call("trim", key, Length(j, key))
    BY <1>3, <2>2, <2>6, <2>8
  <2>12. \A i \in 1 .. Len(w) :
           /\ w[i].key \in Keys(j) /\ Told(e, w[i].key)
           /\ \/ w[i] = Call("push", w[i].key, 0) /\ i = Place(j, w[i].key)
              \/ w[i] = Call("trim", w[i].key, Length(j, w[i].key)) /\ i = Place(j, w[i].key) + 1
    BY <1>3, <2>2, <2>6, <2>8, <2>9, <2>10
  <2> QED
    BY <2>4, <2>8, <2>11, <2>12 DEF CallsFit, w
<1>7. CASE j = "timeline" /\ e.who = NoEntity
  <2> DEFINE p == Put(All, LogCap)
  <2>1. w = p
    <3>1. w = p \o <<>>
      BY <1>7 DEF RedisCalls, RedisRecordTimelineEvent
    <3>2. p \in Seq(CallSet)
      BY <1>1, <1>2, PutFirst
    <3> QED
      BY <3>1, <3>2, ConcatEmptySeq
  <2>2. Keys(j) = {All} \union ({"who"} \X Whos) /\ All \in Keys(j) /\ what \notin Keys(j) /\ who \notin Keys(j)
    BY <1>1, <1>2, <1>7 DEF GoodEntry, Keys, All
  <2>3. w \in Seq(CallSet) /\ Len(w) = 2 /\ w[1] = Call("push", All, 0) /\ w[2] = Call("trim", All, LogCap)
    BY <1>1, <1>2, <2>1, PutFirst
  <2>6. Place(j, All) = 1 /\ Length(j, All) = LogCap
    BY <1>7 DEF Place, Length
  <2> HIDE DEF p, w, who, what
  <2>9. \A i \in 1 .. 2 : i \in {1, 2}
    OBVIOUS
  <2>10. w[1].key = All /\ w[2].key = All
    BY <2>3 DEF Call
  <2>11. \A key \in Keys(j) : Told(e, key) =>
           /\ Place(j, key) \in 1 .. Len(w) /\ Place(j, key) + 1 \in 1 .. Len(w)
           /\ w[Place(j, key)] = Call("push", key, 0) /\ w[Place(j, key) + 1] = Call("trim", key, Length(j, key))
    BY <1>3, <2>2, <2>6, <2>3
  <2>12. \A i \in 1 .. Len(w) :
           /\ w[i].key \in Keys(j) /\ Told(e, w[i].key)
           /\ \/ w[i] = Call("push", w[i].key, 0) /\ i = Place(j, w[i].key)
              \/ w[i] = Call("trim", w[i].key, Length(j, w[i].key)) /\ i = Place(j, w[i].key) + 1
    BY <1>3, <2>2, <2>6, <2>3, <2>9, <2>10
  <2> QED
    BY <2>3, <2>11, <2>12 DEF CallsFit, w
<1>8. CASE j = "settings"
  <2>1. w = Put(who, LogCap)
    BY <1>8 DEF RedisCalls, RedisRecordGroupSettingsChange
  <2>2. who \in Lists /\ Keys(j) = {"who"} \X Whos /\ who \in Keys(j) /\ All \notin Keys(j) /\ what \notin Keys(j)
    BY <1>2, <1>8 DEF GoodEntry, Keys, All
  <2>3. w \in Seq(CallSet) /\ Len(w) = 2 /\ w[1] = Call("push", who, 0) /\ w[2] = Call("trim", who, LogCap)
    BY <1>1, <2>1, <2>2, PutFirst
  <2>6. Place(j, who) = 1 /\ Length(j, who) = LogCap
    BY <1>8 DEF Place, Length
  <2> HIDE DEF w, who, what
  <2>9. \A i \in 1 .. 2 : i \in {1, 2}
    OBVIOUS
  <2>10. w[1].key = who /\ w[2].key = who
    BY <2>3 DEF Call
  <2>11. \A key \in Keys(j) : Told(e, key) =>
           /\ Place(j, key) \in 1 .. Len(w) /\ Place(j, key) + 1 \in 1 .. Len(w)
           /\ w[Place(j, key)] = Call("push", key, 0) /\ w[Place(j, key) + 1] = Call("trim", key, Length(j, key))
    BY <1>3, <2>2, <2>6, <2>3
  <2>12. \A i \in 1 .. Len(w) :
           /\ w[i].key \in Keys(j) /\ Told(e, w[i].key)
           /\ \/ w[i] = Call("push", w[i].key, 0) /\ i = Place(j, w[i].key)
              \/ w[i] = Call("trim", w[i].key, Length(j, w[i].key)) /\ i = Place(j, w[i].key) + 1
    BY <1>3, <2>2, <2>6, <2>3, <2>9, <2>10
  <2> QED
    BY <2>3, <2>11, <2>12 DEF CallsFit, w
<1> QED
  BY <1>5, <1>6, <1>7, <1>8 DEF GoodJournal

-----------------------------------------------------------------------------
(* The methods that wait for redis: of the journal j, on the day d, for the        *)
(* entries es                                                                      *)

\* The methods under way.
Methods == [n : Nat, from : Int, calls : Seq(CallSet)]

\* The entries are those of the journal, none is of a day to come, and none is of a day before
\* the entry before it.
EntriesFit(j, d, es) ==
  /\ es \in Seq([ts : 0 .. MaxDay, who : Whos \union {NoEntity}, what : Whats]) /\ Len(es) <= MaxEntries
  /\ d \in 0 .. MaxDay /\ \A n \in DOMAIN es : es[n].ts <= d /\ GoodEntry(j, es[n])
  /\ \A m, n \in DOMAIN es : m <= n => es[m].ts <= es[n].ts

\* How many calls a method that writes has made.
Done(j, es, m) == Len(RedisCalls(j, es[m.n])) - Len(m.calls)

\* A method that writes an entry, which has made its first calls and not the last one; one that
\* prunes, which is about to read the list or to cut it.
Writer(j, d, es, m) ==
  /\ m \in Methods /\ m.n \in DOMAIN es /\ es[m.n].ts = d
  /\ Len(m.calls) \in 1 .. Len(RedisCalls(j, es[m.n]))
  /\ \A i \in 1 .. Len(m.calls) : m.calls[i] = RedisCalls(j, es[m.n])[Done(j, es, m) + i]
Pruner(j, d, m) ==
  /\ m \in Methods /\ m.n = 0 /\ j = "audit" /\ m.from = d - Retention /\ Len(m.calls) = 1
  /\ \/ m.calls[1] = Call("scan", All, m.from)
     \/ m.calls[1] = Call("cut", All, m.calls[1].arg) /\ m.calls[1].arg \in Nat

\* They take turns, so that a method is never behind a later one.
InTurn(j, d, es, u) ==
  /\ u \in Seq(Methods)
  /\ \A i \in 1 .. Len(u) : Writer(j, d, es, u[i]) \/ Pruner(j, d, u[i])
  /\ \A i, k \in 1 .. Len(u) : u[i].n = u[k].n /\ u[i].n # 0 => i = k
  /\ \A i, k \in 1 .. Len(u) : u[i].n # 0 /\ u[i].n < u[k].n =>
       \/ Done(j, es, u[k]) < Done(j, es, u[i])
       \/ Done(j, es, u[k]) = Done(j, es, u[i]) /\ i < k

\* The entries for which at most p calls are made, the last of them not answered.
Behind(j, es, u, p) == {n \in DOMAIN es : \E i \in 1 .. Len(u) : u[i].n = n /\ Done(j, es, u[i]) < p}

LEMMA EntriesAre ==
  ASSUME NEW j, NEW d, NEW es, EntriesFit(j, d, es)
  PROVE  /\ Len(es) \in Nat /\ DOMAIN es = 1 .. Len(es) /\ DOMAIN es \in SUBSET Nat /\ 0 \notin DOMAIN es
         /\ d \in Nat /\ d \in Int /\ IsFiniteSet(DOMAIN es)
         /\ \A n \in DOMAIN es : es[n].ts \in Nat /\ es[n].ts \in Int /\ es[n].ts <= d /\ GoodEntry(j, es[n])
<1>1. Len(es) \in Nat /\ DOMAIN es = 1 .. Len(es)
  BY DEF EntriesFit
<1>2. \A n \in DOMAIN es : es[n] \in [ts : 0 .. MaxDay, who : Whos \union {NoEntity}, what : Whats]
  <2> DEFINE E == [ts : 0 .. MaxDay, who : Whos \union {NoEntity}, what : Whats]
  <2>1. es \in Seq(E)
    BY DEF EntriesFit
  <2> HIDE DEF E
  <2>2. \A n \in 1 .. Len(es) : es[n] \in E
    BY <2>1, ElementOfSeq
  <2> QED
    BY <1>1, <2>2 DEF E
<1>3. MaxDay \in Nat
  BY JournalAssumption DEF JournalAssumption
<1>4. \A n \in DOMAIN es : es[n].ts \in 0 .. MaxDay
  BY <1>2
<1>5. \A n \in DOMAIN es : es[n].ts \in Nat /\ es[n].ts \in Int
  BY <1>3, <1>4
<1>6. IsFiniteSet(DOMAIN es)
  BY <1>1, OneToN
<1> QED
  BY <1>1, <1>3, <1>5, <1>6 DEF EntriesFit

LEMMA MethodIs ==
  ASSUME NEW m \in Methods
  PROVE  /\ m.calls \in Seq(CallSet) /\ Len(m.calls) \in Nat /\ DOMAIN m.calls = 1 .. Len(m.calls)
         /\ \A c : [m EXCEPT !.calls = c].n = m.n /\ [m EXCEPT !.calls = c].from = m.from /\ [m EXCEPT !.calls = c].calls = c
         /\ \A c \in Seq(CallSet) : [m EXCEPT !.calls = c] \in Methods
BY DEF Methods

\* What is known of a method that writes.
Known(j, es, m) ==
  /\ CallsFit(RedisCalls(j, es[m.n]), j, es[m.n]) /\ m.n \in Nat /\ m.n # 0
  /\ Done(j, es, m) \in Nat /\ Done(j, es, m) + 1 \in 1 .. Len(RedisCalls(j, es[m.n]))
  /\ m.calls[1] = RedisCalls(j, es[m.n])[Done(j, es, m) + 1]
  /\ \A key \in Keys(j) : Told(es[m.n], key) =>
       /\ <<m.n, "push", key>> \in Unmade(m) <=> Done(j, es, m) < Place(j, key)
       /\ <<m.n, "trim", key>> \in Unmade(m) <=> Done(j, es, m) < Place(j, key) + 1
  /\ \A n, op, key : <<n, op, key>> \in Unmade(m) =>
       n = m.n /\ op \in {"push", "trim"} /\ key \in Keys(j) /\ Told(es[m.n], key)

LEMMA WriterIs ==
  ASSUME NEW j, GoodJournal(j), NEW d, NEW es, EntriesFit(j, d, es), NEW m, Writer(j, d, es, m)
  PROVE  Known(j, es, m)
<1> DEFINE w == RedisCalls(j, es[m.n])
           c == m.calls
           k == Done(j, es, m)
<1>1. m \in Methods /\ m.n \in DOMAIN es /\ Len(c) \in 1 .. Len(w) /\ k = Len(w) - Len(c) /\ \A i \in 1 .. Len(c) : c[i] = w[k + i]
  BY DEF Writer, Done
<1>2. CallsFit(w, j, es[m.n])
  <2>1. GoodEntry(j, es[m.n])
    BY <1>1, EntriesAre
  <2> QED
    BY <2>1, CallsDoFit
<1>3. Len(w) \in Nat /\ Len(c) \in Nat /\ DOMAIN c = 1 .. Len(c)
  BY <1>1, <1>2, MethodIs DEF CallsFit
<1>4. m.n \in Nat /\ m.n # 0
  BY <1>1, EntriesAre
<1> DEFINE Left1(op, key) == \E i \in 1 .. Len(c) : c[i].op = op /\ c[i].key = key
           Left2(op, key) == \E q \in 1 .. Len(w) : k < q /\ w[q].op = op /\ w[q].key = key
<1>5. \A n, op, key : <<n, op, key>> \in Unmade(m) <=> n = m.n /\ Left1(op, key)
  BY <1>3 DEF Unmade
<1> HIDE DEF w, c, k
<1>6. k \in Nat /\ k + 1 \in 1 .. Len(w) /\ c[1] = w[k + 1] /\ Len(c) = Len(w) - k
  BY <1>1, <1>3
<1>7. \A i \in 1 .. Len(c) : k + i \in 1 .. Len(w) /\ c[i] = w[k + i]
  BY <1>1, <1>3, <1>6
<1>8. \A q \in 1 .. Len(w) : k < q => q - k \in 1 .. Len(c) /\ c[q - k] = w[q]
  <2> TAKE q \in 1 .. Len(w)
  <2> HAVE k < q
  <2>1. q - k \in 1 .. Len(c) /\ k + (q - k) = q
    BY <1>3, <1>6
  <2> QED
    BY <1>7, <2>1
<1>9. \A n, op, key : <<n, op, key>> \in Unmade(m) <=> n = m.n /\ Left2(op, key)
  <2>1. ASSUME NEW i \in 1 .. Len(c) PROVE k + i \in 1 .. Len(w) /\ k < k + i /\ w[k + i] = c[i]
    BY <1>3, <1>6, <1>7
  <2>2. \A op, key : Left1(op, key) <=> Left2(op, key)
    <3> TAKE op, key
    <3>1. ASSUME NEW i \in 1 .. Len(c), c[i].op = op, c[i].key = key PROVE Left2(op, key)
      BY <2>1, <3>1
    <3>2. ASSUME NEW q \in 1 .. Len(w), k < q, w[q].op = op, w[q].key = key PROVE Left1(op, key)
      BY <1>8, <3>2
    <3> QED
      BY <3>1, <3>2
  <2> HIDE DEF Left1, Left2
  <2> QED
    BY <1>5, <2>2
<1>10. \A i \in 1 .. Len(w) :
         /\ w[i].key \in Keys(j) /\ Told(es[m.n], w[i].key)
         /\ \/ w[i].op = "push" /\ i = Place(j, w[i].key)
            \/ w[i].op = "trim" /\ i = Place(j, w[i].key) + 1
  <2>1. \A key, arg : /\ Call("push", key, arg).op = "push" /\ Call("trim", key, arg).op = "trim"
                      /\ Call("push", key, arg).key = key /\ Call("trim", key, arg).key = key
    BY DEF Call
  <2>2. \A i \in 1 .. Len(w) :
         /\ w[i].key \in Keys(j) /\ Told(es[m.n], w[i].key)
         /\ \/ w[i] = Call("push", w[i].key, 0) /\ i = Place(j, w[i].key)
            \/ w[i] = Call("trim", w[i].key, Length(j, w[i].key)) /\ i = Place(j, w[i].key) + 1
    BY <1>2 DEF CallsFit
  <2> QED
    BY <2>1, <2>2
<1>11. ASSUME NEW key \in Keys(j), Told(es[m.n], key)
       PROVE  /\ <<m.n, "push", key>> \in Unmade(m) <=> k < Place(j, key)
              /\ <<m.n, "trim", key>> \in Unmade(m) <=> k < Place(j, key) + 1
  <2>1. /\ Place(j, key) \in 1 .. Len(w) /\ Place(j, key) + 1 \in 1 .. Len(w)
        /\ w[Place(j, key)].op = "push" /\ w[Place(j, key)].key = key
        /\ w[Place(j, key) + 1].op = "trim" /\ w[Place(j, key) + 1].key = key
    <3>1. \A q, arg : /\ Call("push", q, arg).op = "push" /\ Call("trim", q, arg).op = "trim"
                      /\ Call("push", q, arg).key = q /\ Call("trim", q, arg).key = q
      BY DEF Call
    <3>2. /\ Place(j, key) \in 1 .. Len(w) /\ Place(j, key) + 1 \in 1 .. Len(w)
          /\ w[Place(j, key)] = Call("push", key, 0) /\ w[Place(j, key) + 1] = Call("trim", key, Length(j, key))
      BY <1>2, <1>11 DEF CallsFit
    <3> QED
      BY <3>1, <3>2
  <2>2. <<m.n, "push", key>> \in Unmade(m) => k < Place(j, key)
    <3>1. SUFFICES ASSUME NEW q \in 1 .. Len(w), k < q, w[q].op = "push", w[q].key = key PROVE q = Place(j, key)
      BY <1>9
    <3> QED
      BY <1>10, <3>1
  <2>3. <<m.n, "trim", key>> \in Unmade(m) => k < Place(j, key) + 1
    <3>1. SUFFICES ASSUME NEW q \in 1 .. Len(w), k < q, w[q].op = "trim", w[q].key = key PROVE q = Place(j, key) + 1
      BY <1>9
    <3> QED
      BY <1>10, <3>1
  <2> QED
    BY <1>9, <2>1, <2>2, <2>3
<1>12. \A n, op, key : <<n, op, key>> \in Unmade(m) =>
         n = m.n /\ op \in {"push", "trim"} /\ key \in Keys(j) /\ Told(es[m.n], key)
  BY <1>9, <1>10
<1> QED
  BY <1>2, <1>4, <1>6, <1>11, <1>12 DEF Known, w, c, k

LEMMA OneLess == ASSUME NEW a, NEW b \in Nat, a \in 1 .. b, NEW x, x = a - 1, x # 0 PROVE x \in 1 .. b
OBVIOUS

LEMMA WriterGoes ==
  ASSUME NEW j, GoodJournal(j), NEW d, NEW es, EntriesFit(j, d, es), NEW m, Writer(j, d, es, m),
         NEW t, t = [m EXCEPT !.calls = Tail(m.calls)]
  PROVE  /\ Tail(m.calls) # <<>> => Writer(j, d, es, t) /\ t.n = m.n /\ Done(j, es, t) = Done(j, es, m) + 1
         /\ Tail(m.calls) = <<>> => Done(j, es, m) + 1 = Len(RedisCalls(j, es[m.n]))
<1> DEFINE w == RedisCalls(j, es[m.n])
           c == m.calls
           k == Done(j, es, m)
<1>1. m \in Methods /\ m.n \in DOMAIN es /\ Len(c) \in 1 .. Len(w) /\ k = Len(w) - Len(c) /\ \A i \in 1 .. Len(c) : c[i] = w[k + i]
      /\ es[m.n].ts = d
  BY DEF Writer, Done
<1>2. Known(j, es, m) /\ Len(w) \in Nat
  BY WriterIs DEF Known, CallsFit
<1>3. c \in Seq(CallSet) /\ Len(c) \in Nat /\ c # <<>>
  BY <1>1, MethodIs
<1>4. Tail(c) \in Seq(CallSet) /\ Len(Tail(c)) = Len(c) - 1 /\ \A i \in 1 .. Len(Tail(c)) : Tail(c)[i] = c[i + 1]
  BY <1>3, HeadTailProperties
<1>5. t.n = m.n /\ t.calls = Tail(c) /\ t \in Methods
  BY <1>1, <1>4, MethodIs
<1> HIDE DEF w, c, k
<1>6. Tail(c) = <<>> => k + 1 = Len(w)
  <2> HAVE Tail(c) = <<>>
  <2>1. Len(Tail(c)) = 0
    BY <1>4, EmptySeq
  <2> QED
    BY <1>1, <1>2, <1>3, <1>4, <2>1
<1>7. ASSUME Tail(c) # <<>> PROVE Writer(j, d, es, t) /\ Done(j, es, t) = k + 1
  <2>1. Len(Tail(c)) # 0
    BY <1>4, <1>7, EmptySeq
  <2>2. Len(t.calls) \in 1 .. Len(w) /\ Done(j, es, t) = k + 1
    <3>1. Done(j, es, t) = Len(w) - Len(t.calls)
      BY <1>5 DEF Done, w
    <3>2. Len(t.calls) = Len(c) - 1 /\ Len(t.calls) # 0
      BY <1>4, <1>5, <2>1
    <3>3. Len(c) \in 1 .. Len(w) /\ k = Len(w) - Len(c) /\ Len(w) \in Nat /\ Len(c) \in Nat
      BY <1>1, <1>2, <1>3
    <3>4. Len(t.calls) \in 1 .. Len(w)
      BY <3>2, <3>3, OneLess
    <3>5. Done(j, es, t) = k + 1
      BY <3>1, <3>2, <3>3
    <3> QED
      BY <3>4, <3>5
  <2>3. \A i \in 1 .. Len(t.calls) : t.calls[i] = w[Done(j, es, t) + i]
    <3> TAKE i \in 1 .. Len(t.calls)
    <3>1. i + 1 \in 1 .. Len(c) /\ t.calls[i] = c[i + 1]
      BY <1>3, <1>4, <1>5
    <3>2. k + (i + 1) = k + 1 + i
      BY <1>1, <1>2, <1>3
    <3> QED
      BY <1>1, <2>2, <3>1, <3>2
  <2> QED
    BY <1>1, <1>5, <2>2, <2>3 DEF Writer, w
<1> QED
  BY <1>5, <1>6, <1>7 DEF w, c, k

\* The method at the head of u goes: it leaves, or t, which is what is left of it, goes
\* to the end.
Goes(u, v, t, stays) ==
  /\ v \in Seq(Methods) /\ Len(u) \in Nat \ {0}
  /\ Len(v) = (IF stays THEN Len(u) ELSE Len(u) - 1) /\ (stays => v[Len(u)] = t)
  /\ \A i \in 1 .. Len(u) - 1 : v[i] = u[i + 1]

\* v is u without its element i.
Removed(v, u, i) ==
  /\ v \in Seq(Methods) /\ Len(v) = Len(u) - 1 /\ Len(u) \in Nat
  /\ \A k \in 1 .. Len(v) : v[k] = IF k < i THEN u[k] ELSE u[k + 1]

LEMMA RemovedIs ==
  ASSUME NEW u \in Seq(Methods), NEW i \in 1 .. Len(u)
  PROVE  Removed(RemoveAt(u, i), u, i)
<1> DEFINE a == SubSeq(u, 1, i - 1)
           b == SubSeq(u, i + 1, Len(u))
<1>1. Len(u) \in Nat /\ i \in Nat /\ i - 1 \in 0 .. Len(u)
  OBVIOUS
<1>2. a \in Seq(Methods) /\ Len(a) = i - 1 /\ \A k \in 1 .. i - 1 : a[k] = u[k]
  BY <1>1, HeadIs
<1>3. b \in Seq(Methods) /\ Len(b) = Len(u) - i /\ \A k \in 1 .. Len(u) - i : b[k] = u[k + i]
  <2>1. \A k \in i + 1 .. Len(u) : u[k] \in Methods
    BY <1>1, ElementOfSeq
  <2>2. /\ b \in Seq(Methods)
        /\ Len(b) = IF i + 1 <= Len(u) THEN Len(u) - (i + 1) + 1 ELSE 0
        /\ \A k \in 1 .. Len(u) - (i + 1) + 1 : b[k] = u[i + 1 + k - 1]
    BY <1>1, <2>1, SubSeqProperties
  <2>3. Len(b) = Len(u) - i
    BY <1>1, <2>2
  <2>4. \A k \in 1 .. Len(u) - i : b[k] = u[k + i]
    <3> TAKE k \in 1 .. Len(u) - i
    <3>1. k \in 1 .. Len(u) - (i + 1) + 1 /\ i + 1 + k - 1 = k + i
      BY <1>1
    <3> QED
      BY <2>2, <3>1
  <2> QED
    BY <2>2, <2>3, <2>4
<1>4. RemoveAt(u, i) = a \o b
  BY DEF RemoveAt
<1> HIDE DEF a, b
<1>5. /\ a \o b \in Seq(Methods) /\ Len(a \o b) = Len(a) + Len(b)
      /\ \A k \in 1 .. Len(a) + Len(b) : (a \o b)[k] = IF k <= Len(a) THEN a[k] ELSE b[k - Len(a)]
  BY <1>2, <1>3, ConcatProperties
<1>6. Len(a \o b) = Len(u) - 1
  BY <1>1, <1>2, <1>3, <1>5
<1>7. \A k \in 1 .. Len(a \o b) : (a \o b)[k] = IF k < i THEN u[k] ELSE u[k + 1]
  <2> TAKE k \in 1 .. Len(a \o b)
  <2>1. k \in 1 .. Len(a) + Len(b) /\ k \in Nat
    BY <1>1, <1>2, <1>3, <1>5
  <2>2. CASE k < i
    <3>1. k <= Len(a) /\ k \in 1 .. i - 1
      BY <1>1, <1>2, <2>1, <2>2
    <3> QED
      BY <1>2, <1>5, <2>1, <2>2, <3>1
  <2>3. CASE ~(k < i)
    <3>1. ~(k <= Len(a)) /\ k - Len(a) \in 1 .. Len(u) - i /\ k - Len(a) + i = k + 1
      BY <1>1, <1>2, <1>3, <2>1, <2>3
    <3> QED
      BY <1>3, <1>5, <2>1, <2>3, <3>1
  <2> QED
    BY <2>2, <2>3
<1> QED
  BY <1>1, <1>4, <1>5, <1>6, <1>7 DEF Removed

LEMMA GoesOn ==
  ASSUME NEW u \in Seq(Methods), u # <<>>, NEW t \in Methods, NEW stays \in BOOLEAN, NEW v,
         v = RemoveAt(u, 1) \o IF stays THEN <<t>> ELSE <<>>
  PROVE  Goes(u, v, t, stays)
<1> DEFINE r == RemoveAt(u, 1)
<1>1. Len(u) \in Nat \ {0} /\ 1 \in 1 .. Len(u)
  <2>1. Len(u) \in Nat /\ Len(u) # 0
    BY EmptySeq
  <2> QED
    BY <2>1
<1>2. r \in Seq(Methods) /\ Len(r) = Len(u) - 1 /\ \A i \in 1 .. Len(u) - 1 : r[i] = u[i + 1]
  <2>1. Removed(r, u, 1)
    BY <1>1, RemovedIs
  <2> QED
    BY <1>1, <2>1 DEF Removed
<1> HIDE DEF r
<1>3. CASE stays
  <2>1. v = Append(r, t)
    <3>1. v = r \o <<t>>
      BY <1>3 DEF r
    <3> QED
      BY <1>2, <3>1, AppendIsConcat
  <2>2. /\ v \in Seq(Methods) /\ Len(v) = Len(r) + 1 /\ v[Len(r) + 1] = t /\ \A i \in 1 .. Len(r) : v[i] = r[i]
    <3>1. /\ Append(r, t) \in Seq(Methods) /\ Len(Append(r, t)) = Len(r) + 1 /\ Append(r, t)[Len(r) + 1] = t
          /\ \A i \in 1 .. Len(r) : Append(r, t)[i] = r[i]
      BY <1>2, AppendProperties
    <3> QED
      BY <2>1, <3>1
  <2>3. Len(v) = Len(u) /\ v[Len(u)] = t /\ \A i \in 1 .. Len(u) - 1 : v[i] = u[i + 1]
    BY <1>1, <1>2, <2>2
  <2> QED
    BY <1>1, <1>3, <2>2, <2>3 DEF Goes
<1>4. CASE ~stays
  <2>1. v = r
    <3>1. v = r \o <<>>
      BY <1>4 DEF r
    <3> QED
      BY <1>2, <3>1, ConcatEmptySeq
  <2> QED
    BY <1>1, <1>2, <1>4, <2>1 DEF Goes
<1> QED
  BY <1>3, <1>4

\* What is left of a method takes its turn.
Follows(j, d, es, m, t) ==
  \/ Writer(j, d, es, m) /\ Writer(j, d, es, t) /\ t.n = m.n /\ Done(j, es, t) = Done(j, es, m) + 1
  \/ Pruner(j, d, m) /\ Pruner(j, d, t)

LEMMA DoneIs ==
  ASSUME NEW j, GoodJournal(j), NEW d, NEW es, EntriesFit(j, d, es), NEW u, InTurn(j, d, es, u)
  PROVE  /\ u \in Seq(Methods) /\ Len(u) \in Nat
         /\ \A i \in 1 .. Len(u) : u[i] \in Methods /\ u[i].n \in Nat
         /\ \A i \in 1 .. Len(u) : u[i].n # 0 => Writer(j, d, es, u[i]) /\ u[i].n \in DOMAIN es /\ Done(j, es, u[i]) \in Nat
         /\ \A i \in 1 .. Len(u) : u[i].n = 0 => Pruner(j, d, u[i])
<1>1. u \in Seq(Methods) /\ Len(u) \in Nat /\ \A i \in 1 .. Len(u) : Writer(j, d, es, u[i]) \/ Pruner(j, d, u[i])
  BY DEF InTurn
<1>2. \A i \in 1 .. Len(u) : u[i] \in Methods
  BY <1>1, ElementOfSeq
<1>3. \A m \in Methods : m.n \in Nat
  BY DEF Methods
<1>4. \A m : Pruner(j, d, m) => m.n = 0
  BY DEF Pruner
<1>5. \A m : Writer(j, d, es, m) => m.n # 0 /\ m.n \in DOMAIN es /\ Done(j, es, m) \in Nat
  <2>1. \A m : Writer(j, d, es, m) => m.n \in DOMAIN es
    BY DEF Writer
  <2> QED
    BY <2>1, WriterIs DEF Known
<1> QED
  BY <1>1, <1>2, <1>3, <1>4, <1>5

LEMMA TurnGoes ==
  ASSUME NEW j, GoodJournal(j), NEW d, NEW es, EntriesFit(j, d, es), NEW u, InTurn(j, d, es, u),
         NEW v, NEW t, NEW stays \in BOOLEAN, Goes(u, v, t, stays), stays => Follows(j, d, es, u[1], t)
  PROVE  InTurn(j, d, es, v)
<1> DEFINE D(m) == Done(j, es, m)
           OK(m) == Writer(j, d, es, m) \/ Pruner(j, d, m)
<1>1. /\ u \in Seq(Methods) /\ \A i \in 1 .. Len(u) : OK(u[i]) /\ u[i].n \in Nat
      /\ \A i, k \in 1 .. Len(u) : u[i].n = u[k].n /\ u[i].n # 0 => i = k
      /\ \A i, k \in 1 .. Len(u) : u[i].n # 0 /\ u[i].n < u[k].n => D(u[k]) < D(u[i]) \/ (D(u[k]) = D(u[i]) /\ i < k)
      /\ \A i \in 1 .. Len(u) : u[i].n # 0 => D(u[i]) \in Nat
  BY DoneIs DEF InTurn
<1>2. /\ v \in Seq(Methods) /\ Len(u) \in Nat /\ Len(u) # 0
      /\ Len(v) = (IF stays THEN Len(u) ELSE Len(u) - 1) /\ (stays => v[Len(u)] = t)
      /\ \A i \in 1 .. Len(u) - 1 : v[i] = u[i + 1]
  BY DEF Goes
<1>3. stays => OK(t) /\ t.n = u[1].n /\ (t.n # 0 => D(t) = D(u[1]) + 1)
  <2> HAVE stays
  <2>1. \A m : Pruner(j, d, m) => m.n = 0
    BY DEF Pruner
  <2> QED
    BY <2>1 DEF Follows
<1> HIDE DEF D, OK
<1>4. \A i \in 1 .. Len(v) : \/ i \in 1 .. Len(u) - 1 /\ i + 1 \in 1 .. Len(u) /\ v[i] = u[i + 1]
                             \/ stays /\ i = Len(u) /\ v[i] = t
  <2> TAKE i \in 1 .. Len(v)
  <2>1. i \in 1 .. Len(u) - 1 \/ (stays /\ i = Len(u))
    BY <1>2
  <2>2. i \in 1 .. Len(u) - 1 => i + 1 \in 1 .. Len(u)
    BY <1>2
  <2> QED
    BY <1>2, <2>1, <2>2
<1>5. 1 \in 1 .. Len(u) /\ \A i \in 1 .. Len(v) : i \in Nat
  BY <1>2
<1>6. \A i \in 1 .. Len(v) : OK(v[i])
  BY <1>1, <1>3, <1>4
<1>7. \A i, k \in 1 .. Len(v) : v[i].n = v[k].n /\ v[i].n # 0 => i = k
  <2> SUFFICES ASSUME NEW i \in 1 .. Len(v), NEW k \in 1 .. Len(v), v[i].n = v[k].n, v[i].n # 0 PROVE i = k
    OBVIOUS
  <2>1. CASE i \in 1 .. Len(u) - 1 /\ v[i] = u[i + 1] /\ i + 1 \in 1 .. Len(u)
    <3>1. CASE k \in 1 .. Len(u) - 1 /\ v[k] = u[k + 1] /\ k + 1 \in 1 .. Len(u)
      <4>1. i + 1 = k + 1
        BY <1>1, <2>1, <3>1
      <4> QED
        BY <1>5, <4>1
    <3>2. CASE stays /\ k = Len(u) /\ v[k] = t
      <4>1. i + 1 = 1
        BY <1>1, <1>3, <1>5, <2>1, <3>2
      <4> QED
        BY <1>5, <4>1, <2>1
    <3> QED
      BY <1>4, <3>1, <3>2
  <2>2. CASE stays /\ i = Len(u) /\ v[i] = t
    <3>1. CASE k \in 1 .. Len(u) - 1 /\ v[k] = u[k + 1] /\ k + 1 \in 1 .. Len(u)
      <4>1. k + 1 = 1
        BY <1>1, <1>3, <1>5, <2>2, <3>1
      <4> QED
        BY <1>5, <4>1, <3>1
    <3>2. CASE stays /\ k = Len(u) /\ v[k] = t BY <2>2, <3>2
    <3> QED
      BY <1>4, <3>1, <3>2
  <2> QED
    BY <1>4, <2>1, <2>2
<1>8. \A i, k \in 1 .. Len(v) : v[i].n # 0 /\ v[i].n < v[k].n => D(v[k]) < D(v[i]) \/ (D(v[k]) = D(v[i]) /\ i < k)
  <2> SUFFICES ASSUME NEW i \in 1 .. Len(v), NEW k \in 1 .. Len(v), v[i].n # 0, v[i].n < v[k].n
               PROVE  D(v[k]) < D(v[i]) \/ (D(v[k]) = D(v[i]) /\ i < k)
    OBVIOUS
  <2>0. v[k].n # 0
    <3>1. v[i].n \in Nat /\ v[k].n \in Nat
      BY <1>1, <1>3, <1>4, <1>5
    <3> QED
      BY <3>1
  <2>1. CASE i \in 1 .. Len(u) - 1 /\ v[i] = u[i + 1] /\ i + 1 \in 1 .. Len(u)
    <3>1. CASE k \in 1 .. Len(u) - 1 /\ v[k] = u[k + 1] /\ k + 1 \in 1 .. Len(u)
      <4>1. D(u[k + 1]) < D(u[i + 1]) \/ (D(u[k + 1]) = D(u[i + 1]) /\ i + 1 < k + 1)
        BY <1>1, <2>1, <3>1
      <4>2. i + 1 < k + 1 => i < k
        BY <1>5
      <4> QED
        BY <2>1, <3>1, <4>1, <4>2
    <3>2. CASE stays /\ k = Len(u) /\ v[k] = t
      <4>1. D(u[1]) < D(u[i + 1]) \/ (D(u[1]) = D(u[i + 1]) /\ i + 1 < 1)
        BY <1>1, <1>3, <1>5, <2>1, <3>2
      <4>2. ~(i + 1 < 1) /\ i < k
        BY <1>2, <1>5, <2>1, <3>2
      <4>3. D(t) = D(u[1]) + 1 /\ D(u[1]) \in Nat /\ D(u[i + 1]) \in Nat
        BY <1>1, <1>3, <1>5, <2>0, <2>1, <3>2
      <4>4. D(t) < D(u[i + 1]) \/ D(t) = D(u[i + 1])
        BY <4>1, <4>2, <4>3
      <4> QED
        BY <2>1, <3>2, <4>2, <4>4
    <3> QED
      BY <1>4, <3>1, <3>2
  <2>2. CASE stays /\ i = Len(u) /\ v[i] = t
    <3>1. CASE k \in 1 .. Len(u) - 1 /\ v[k] = u[k + 1] /\ k + 1 \in 1 .. Len(u)
      <4>1. D(u[k + 1]) < D(u[1]) \/ D(u[k + 1]) = D(u[1])
        BY <1>1, <1>3, <1>5, <2>2, <3>1
      <4>2. D(t) = D(u[1]) + 1 /\ D(u[1]) \in Nat /\ D(u[k + 1]) \in Nat
        BY <1>1, <1>3, <1>5, <2>0, <2>2, <3>1
      <4>3. D(u[k + 1]) < D(t)
        BY <4>1, <4>2
      <4> QED
        BY <2>2, <3>1, <4>3
    <3>2. CASE stays /\ k = Len(u) /\ v[k] = t
      <4>1. v[i].n \in Nat /\ v[i].n = v[k].n
        BY <1>1, <1>3, <1>5, <2>2, <3>2
      <4> QED
        BY <4>1
    <3> QED
      BY <1>4, <3>1, <3>2
  <2> QED
    BY <1>4, <2>1, <2>2
<1> QED
  BY <1>2, <1>6, <1>7, <1>8 DEF InTurn, OK, D

LEMMA BehindGoes ==
  ASSUME NEW j, GoodJournal(j), NEW d, NEW es, EntriesFit(j, d, es), NEW u, InTurn(j, d, es, u),
         NEW v, NEW t, NEW stays \in BOOLEAN, Goes(u, v, t, stays), stays => Follows(j, d, es, u[1], t)
  PROVE  /\ \A p \in Nat : \A x \in DOMAIN es :
              x \in Behind(j, es, v, p) <=>
                x \in Behind(j, es, u, p) /\ (x = u[1].n => stays /\ Done(j, es, u[1]) + 1 < p)
<1> DEFINE D(m) == Done(j, es, m)
<1>1. /\ u \in Seq(Methods) /\ \A i \in 1 .. Len(u) : u[i].n \in Nat
      /\ \A i, k \in 1 .. Len(u) : u[i].n = u[k].n /\ u[i].n # 0 => i = k
      /\ \A i \in 1 .. Len(u) : u[i].n # 0 => D(u[i]) \in Nat
  BY DoneIs DEF InTurn
<1>2. /\ Len(u) \in Nat /\ Len(u) # 0
      /\ Len(v) = (IF stays THEN Len(u) ELSE Len(u) - 1) /\ (stays => v[Len(u)] = t)
      /\ \A i \in 1 .. Len(u) - 1 : v[i] = u[i + 1]
  BY DEF Goes
<1>3. stays => t.n = u[1].n /\ (t.n # 0 => D(t) = D(u[1]) + 1)
  <2> HAVE stays
  <2>1. \A m : Pruner(j, d, m) => m.n = 0
    BY DEF Pruner
  <2> QED
    BY <2>1 DEF Follows
<1>4. DOMAIN es \in SUBSET Nat /\ 0 \notin DOMAIN es
  BY EntriesAre
<1>5. \A w, p : \A x \in DOMAIN es : x \in Behind(j, es, w, p) <=> \E i \in 1 .. Len(w) : w[i].n = x /\ D(w[i]) < p
  BY DEF Behind
<1> HIDE DEF D
<1> SUFFICES ASSUME NEW p \in Nat, NEW x \in DOMAIN es
             PROVE  x \in Behind(j, es, v, p) <=> x \in Behind(j, es, u, p) /\ (x = u[1].n => stays /\ D(u[1]) + 1 < p)
  BY DEF D
<1>6. 1 \in 1 .. Len(u) /\ x # 0
  BY <1>2, <1>4
<1>7. ASSUME x \in Behind(j, es, v, p) PROVE x \in Behind(j, es, u, p) /\ (x = u[1].n => stays /\ D(u[1]) + 1 < p)
  <2>1. PICK i \in 1 .. Len(v) : v[i].n = x /\ D(v[i]) < p
    BY <1>5, <1>7
  <2>2. i \in 1 .. Len(u) - 1 \/ (stays /\ i = Len(u))
    BY <1>2
  <2>3. CASE i \in 1 .. Len(u) - 1
    <3>1. i + 1 \in 1 .. Len(u) /\ v[i] = u[i + 1] /\ i + 1 # 1
      BY <1>2, <2>3
    <3>2. x \in Behind(j, es, u, p)
      BY <1>5, <2>1, <3>1
    <3>3. x # u[1].n
      BY <1>1, <1>6, <2>1, <3>1
    <3> QED
      BY <3>2, <3>3
  <2>4. CASE stays /\ i = Len(u)
    <3>1. v[i] = t /\ x = u[1].n /\ D(t) = D(u[1]) + 1 /\ D(t) < p /\ D(u[1]) \in Nat
      BY <1>1, <1>2, <1>3, <1>6, <2>1, <2>4
    <3>2. D(u[1]) < p /\ D(u[1]) + 1 < p
      BY <3>1
    <3> QED
      BY <1>5, <1>6, <2>4, <3>1, <3>2
  <2> QED
    BY <2>2, <2>3, <2>4
<1>8. ASSUME x \in Behind(j, es, u, p), x = u[1].n => stays /\ D(u[1]) + 1 < p PROVE x \in Behind(j, es, v, p)
  <2>1. PICK i \in 1 .. Len(u) : u[i].n = x /\ D(u[i]) < p
    BY <1>5, <1>8
  <2>2. CASE i = 1
    <3>1. stays /\ v[Len(u)] = t /\ t.n = x /\ D(t) < p /\ Len(u) \in 1 .. Len(v)
      BY <1>2, <1>3, <1>6, <1>8, <2>1, <2>2
    <3> QED
      BY <1>5, <3>1
  <2>3. CASE i # 1
    <3>1. i - 1 \in 1 .. Len(u) - 1 /\ i - 1 + 1 = i /\ i - 1 \in 1 .. Len(v)
      BY <1>2, <2>3
    <3>2. v[i - 1] = u[i]
      BY <1>2, <3>1
    <3> QED
      BY <1>5, <2>1, <3>1, <3>2
  <2> QED
    BY <2>2, <2>3
<1> QED
  BY <1>7, <1>8

\* The entries that wait to be pushed to the list key, those that were, and those
\* after which it is still to be trimmed, or will not be.
Waits(j, es, u, key) == {n \in Behind(j, es, u, Place(j, key)) : Told(es[n], key)}
Pushed(j, es, u, lo, key) ==
  {n \in DOMAIN es : Told(es[n], key) /\ <<n, "push", key>> \notin lo /\ n \notin Behind(j, es, u, Place(j, key))}
Trims(j, es, u, lo, key) ==
  {n \in DOMAIN es : Told(es[n], key) /\ (<<n, "trim", key>> \in lo \/ n \in Behind(j, es, u, Place(j, key) + 1))}

\* The day from which a list has its entries, and how many entries it may miss: only the log of
\* all commands is pruned.
Bar(key, cu) == IF key = All THEN cu ELSE 0
Missed(key, ra) == IF key = All THEN ra ELSE 0

\* The list key is as the calls made so far, and those that were lost, leave it.
ListKnown(j, es, ls, u, lo, cu, ra, key) ==
  KeyKnown(ls[key], Pushed(j, es, u, lo, key), Waits(j, es, u, key), Trims(j, es, u, lo, key),
           Length(j, key), es, Bar(key, cu), Missed(key, ra))
\* A prune that is about to cut the list of all entries to k of them has read it well.
NextCut(j, d, es, ls, u, lo, ra, k) == CutKnown(ls[All], Pushed(j, es, u, lo, All), LogCap, es, d - Retention, k, ra)

\* The calls that redis can lose; what is known of its lists and of the methods that wait for it.
RedisLost(es, lo) == lo \in SUBSET ((0 .. Len(es)) \X {"push", "trim", "scan", "cut"} \X Lists)
RedisKnown(j, d, es, ls, u, lo, cu, ra) ==
  /\ InTurn(j, d, es, u) /\ RedisLost(es, lo)
  /\ DOMAIN ls = Lists /\ \A key \in Lists \ Keys(j) : ls[key] = <<>>
  /\ \A key \in Keys(j) : /\ ListKnown(j, es, ls, u, lo, cu, ra, key)
                          /\ \A n \in Waits(j, es, u, key) : <<n, "push", key>> \notin lo
  /\ \A i \in 1 .. Len(u) : u[i].calls[1].op = "cut" => NextCut(j, d, es, ls, u, lo, ra, u[i].calls[1].arg)

LEMMA KeysAre ==
  ASSUME NEW j, GoodJournal(j)
  PROVE  /\ Keys(j) \subseteq Lists /\ All \in Lists /\ Keys(j) \subseteq Filters
         /\ \A key \in Keys(j) : Place(j, key) \in Nat /\ Length(j, key) \in Nat
         /\ j = "audit" => All \in Keys(j) /\ Length(j, All) = LogCap
<1>1. LogCap \in Nat /\ SideCap \in Nat
  BY JournalAssumption DEF JournalAssumption
<1> QED
  BY <1>1 DEF Keys, Lists, Filters, Place, Length, GoodJournal

LEMMA PushedIs ==
  ASSUME NEW j, NEW d, NEW es, EntriesFit(j, d, es), NEW u, NEW lo, NEW key
  PROVE  /\ Pushable(Pushed(j, es, u, lo, key), es) /\ Pushed(j, es, u, lo, key) \subseteq DOMAIN es
         /\ Waits(j, es, u, key) \subseteq DOMAIN es
<1>1. Pushed(j, es, u, lo, key) \in SUBSET DOMAIN es /\ Waits(j, es, u, key) \in SUBSET DOMAIN es
  BY DEF Pushed, Waits, Behind
<1>2. Pushed(j, es, u, lo, key) \in SUBSET Nat /\ IsFiniteSet(Pushed(j, es, u, lo, key))
  BY <1>1, EntriesAre, FS_Subset
<1> QED
  BY <1>1, <1>2, EntriesAre DEF Pushable

LEMMA RacedKnown ==
  ASSUME NEW s, NEW P, NEW W, NEW T, NEW cap \in Nat, NEW es, NEW bar \in Int, NEW r \in Nat,
         KeyKnown(s, P, W, T, cap, es, bar, r), Pushable(P, es), NEW q \in Nat, r <= q
  PROVE  KeyKnown(s, P, W, T, cap, es, bar, q)
<1>1. Cardinality(Top(P, cap, es, bar) \ Firsts(s, Len(s))) \in Nat
  BY TopFinite
<1>2. Cardinality(Top(P, cap, es, bar) \ Firsts(s, Len(s))) <= r
  BY DEF KeyKnown
<1>3. Cardinality(Top(P, cap, es, bar) \ Firsts(s, Len(s))) <= q
  BY <1>1, <1>2
<1> QED
  BY <1>3 DEF KeyKnown

LEMMA RacedCut ==
  ASSUME NEW s, NEW P, NEW cap \in Nat, NEW es, NEW from \in Int, NEW k, NEW r \in Nat,
         CutKnown(s, P, cap, es, from, k, r), Pushable(P, es), NEW q \in Nat, r <= q
  PROVE  CutKnown(s, P, cap, es, from, k, q)
<1>1. Cardinality(Top(P, cap, es, from) \ Firsts(s, k)) \in Nat
  BY TopFinite
<1>2. Cardinality(Top(P, cap, es, from) \ Firsts(s, k)) <= r
  BY DEF CutKnown
<1>3. Cardinality(Top(P, cap, es, from) \ Firsts(s, k)) <= q
  BY <1>1, <1>2
<1> QED
  BY <1>3 DEF CutKnown

\* A list is owed the same.
Same(j, es, u, v, lo, key) ==
  Waits(j, es, v, key) = Waits(j, es, u, key) /\ Pushed(j, es, v, lo, key) = Pushed(j, es, u, lo, key)

\* The first call of a method that writes has been made, and others wait.
Answered(j, es, u, v, lo, key) ==
  LET n == u[1].n
      c == u[1].calls[1] IN
  /\ c.key # key => Same(j, es, u, v, lo, key) /\ Trims(j, es, v, lo, key) = Trims(j, es, u, lo, key)
  /\ c.key = key /\ c.op = "trim" => Same(j, es, u, v, lo, key)
  /\ c.key = key /\ c.op = "push" =>
       /\ n \in Waits(j, es, u, key) /\ Waits(j, es, v, key) = Waits(j, es, u, key) \ {n}
       /\ n \in Trims(j, es, u, lo, key) /\ Trims(j, es, v, lo, key) = Trims(j, es, u, lo, key)
       /\ <<n, "push", key>> \notin lo => Pushed(j, es, v, lo, key) = Pushed(j, es, u, lo, key) \union {n}
       /\ \A w \in Waits(j, es, u, key) \ {n} : n < w

LEMMA CallIs ==
  ASSUME NEW j, GoodJournal(j), NEW d, NEW es, EntriesFit(j, d, es), NEW m, Writer(j, d, es, m),
         NEW c, c = m.calls[1]
  PROVE  /\ c.key \in Keys(j) /\ Told(es[m.n], c.key)
         /\ \/ c.op = "push" /\ Done(j, es, m) + 1 = Place(j, c.key)
            \/ c.op = "trim" /\ c.arg = Length(j, c.key) /\ Done(j, es, m) + 1 = Place(j, c.key) + 1
         /\ \A key \in Keys(j) : Told(es[m.n], key) =>
              /\ Done(j, es, m) + 1 = Place(j, key) => c.op = "push" /\ c.key = key
              /\ Done(j, es, m) + 1 = Place(j, key) + 1 => c.op = "trim" /\ c.key = key
              /\ Place(j, key) + 1 <= Len(RedisCalls(j, es[m.n])) /\ Len(RedisCalls(j, es[m.n])) \in Nat
<1> DEFINE w == RedisCalls(j, es[m.n])
           k == Done(j, es, m)
<1>1. CallsFit(w, j, es[m.n]) /\ k + 1 \in 1 .. Len(w) /\ c = w[k + 1]
  BY WriterIs DEF Known
<1> HIDE DEF w, k
<1>2. \A key, arg : /\ Call("push", key, arg).op = "push" /\ Call("trim", key, arg).op = "trim"
                    /\ Call("push", key, arg).key = key /\ Call("trim", key, arg).key = key
                    /\ Call("trim", key, arg).arg = arg
  BY DEF Call
<1>3. /\ c.key \in Keys(j) /\ Told(es[m.n], c.key)
      /\ \/ c.op = "push" /\ k + 1 = Place(j, c.key)
         \/ c.op = "trim" /\ c.arg = Length(j, c.key) /\ k + 1 = Place(j, c.key) + 1
  <2>1. /\ c.key \in Keys(j) /\ Told(es[m.n], c.key)
        /\ \/ c = Call("push", c.key, 0) /\ k + 1 = Place(j, c.key)
           \/ c = Call("trim", c.key, Length(j, c.key)) /\ k + 1 = Place(j, c.key) + 1
    BY <1>1 DEF CallsFit
  <2> QED
    BY <1>2, <2>1
<1>4. ASSUME NEW key \in Keys(j), Told(es[m.n], key)
      PROVE  /\ k + 1 = Place(j, key) => c.op = "push" /\ c.key = key
             /\ k + 1 = Place(j, key) + 1 => c.op = "trim" /\ c.key = key
             /\ Place(j, key) + 1 <= Len(w) /\ Len(w) \in Nat
  <2>1. /\ Place(j, key) + 1 \in 1 .. Len(w) /\ Len(w) \in Nat
        /\ w[Place(j, key)] = Call("push", key, 0) /\ w[Place(j, key) + 1] = Call("trim", key, Length(j, key))
    BY <1>1, <1>4 DEF CallsFit
  <2>2. Place(j, key) + 1 <= Len(w)
    BY <2>1
  <2> QED
    BY <1>1, <1>2, <2>1, <2>2
<1> QED
  BY <1>3, <1>4 DEF w, k

LEMMA SetsGo ==
  ASSUME NEW j, GoodJournal(j), NEW d, NEW es, EntriesFit(j, d, es), NEW u, InTurn(j, d, es, u),
         NEW v, NEW t, NEW stays \in BOOLEAN, Goes(u, v, t, stays), stays => Follows(j, d, es, u[1], t),
         Writer(j, d, es, u[1]), ~stays => Done(j, es, u[1]) + 1 = Len(RedisCalls(j, es[u[1].n])),
         NEW lo, NEW key \in Keys(j)
  PROVE  Answered(j, es, u, v, lo, key)
<1> DEFINE n == u[1].n
           c == u[1].calls[1]
           k == Done(j, es, u[1])
           p == Place(j, key)
           w == RedisCalls(j, es[n])
<1>1. p \in Nat /\ p + 1 \in Nat
  BY KeysAre
<1>2. n \in DOMAIN es /\ n # 0 /\ k \in Nat
  <2>1. n \in DOMAIN es
    BY DEF Writer
  <2>2. Known(j, es, u[1])
    BY WriterIs
  <2> QED
    BY <2>1, <2>2 DEF Known
<1>3. /\ c.key \in Keys(j) /\ Told(es[n], c.key)
      /\ \/ c.op = "push" /\ k + 1 = Place(j, c.key)
         \/ c.op = "trim" /\ k + 1 = Place(j, c.key) + 1
      /\ Told(es[n], key) =>
           /\ k + 1 = p => c.op = "push" /\ c.key = key
           /\ k + 1 = p + 1 => c.op = "trim" /\ c.key = key
           /\ p + 1 <= Len(w) /\ Len(w) \in Nat
  BY CallIs
<1>4. \A q \in Nat : \A x \in DOMAIN es :
        x \in Behind(j, es, v, q) <=> x \in Behind(j, es, u, q) /\ (x = n => stays /\ k + 1 < q)
  BY BehindGoes
<1>5. \A q : Behind(j, es, u, q) \subseteq DOMAIN es /\ Behind(j, es, v, q) \subseteq DOMAIN es
  BY DEF Behind
<1>6. \A q \in Nat : k < q => n \in Behind(j, es, u, q)
  <2>1. 1 \in 1 .. Len(u)
    BY DEF Goes
  <2> QED
    BY <1>2, <2>1 DEF Behind
<1>7. \A q \in Nat : n \in Behind(j, es, u, q) => k < q
  <2> TAKE q \in Nat
  <2> HAVE n \in Behind(j, es, u, q)
  <2>1. PICK i \in 1 .. Len(u) : u[i].n = n /\ Done(j, es, u[i]) < q
    BY DEF Behind
  <2>2. i = 1
    <3>1. 1 \in 1 .. Len(u)
      BY DEF Goes
    <3> QED
      BY <1>2, <2>1, <3>1 DEF InTurn
  <2> QED
    BY <2>1, <2>2
<1>8. ~stays => k + 1 = Len(w)
  OBVIOUS
<1> HIDE DEF n, c, k, p, w
\* The thresholds of the list move only with a call for it.
<1>9. ASSUME NEW q \in {p, p + 1}, k + 1 # q, NEW x \in DOMAIN es, Told(es[x], key)
      PROVE  x \in Behind(j, es, v, q) <=> x \in Behind(j, es, u, q)
  <2>1. q \in Nat
    BY <1>1
  <2>2. CASE x # n BY <1>4, <2>1, <2>2
  <2>3. CASE x = n
    <3>1. q <= Len(w) /\ Len(w) \in Nat
      BY <1>1, <1>3, <1>9, <2>3
    <3>2. n \in Behind(j, es, u, q) => k < q
      BY <1>7, <2>1
    <3>3. k < q => k + 1 < q
      BY <1>2, <1>9, <2>1
    <3>4. k + 1 < q => stays
      BY <1>2, <1>8, <2>1, <3>1
    <3> QED
      BY <1>4, <2>1, <2>3, <3>2, <3>3, <3>4
  <2> QED
    BY <2>2, <2>3
<1>10. Told(es[n], key) /\ (k + 1 = p \/ k + 1 = p + 1) => c.key = key
  BY <1>3
<1>11. ASSUME ~(c.key = key /\ c.op = "push")
       PROVE  Waits(j, es, v, key) = Waits(j, es, u, key) /\ Pushed(j, es, v, lo, key) = Pushed(j, es, u, lo, key)
  <2>1. \A x \in DOMAIN es : Told(es[x], key) => (x \in Behind(j, es, v, p) <=> x \in Behind(j, es, u, p))
    <3> SUFFICES ASSUME NEW x \in DOMAIN es, Told(es[x], key) PROVE x \in Behind(j, es, v, p) <=> x \in Behind(j, es, u, p)
      OBVIOUS
    <3>1. CASE x # n BY <1>1, <1>4, <3>1
    <3>2. CASE x = n
      <4>1. k + 1 # p
        BY <1>3, <1>11, <3>2
      <4> QED
        BY <1>9, <4>1
    <3> QED
      BY <3>1, <3>2
  <2> QED
    BY <1>5, <2>1 DEF Waits, Pushed, p
<1>12. ASSUME ~(c.key = key /\ c.op = "trim")
       PROVE  Trims(j, es, v, lo, key) = Trims(j, es, u, lo, key)
  <2>1. \A x \in DOMAIN es : Told(es[x], key) => (x \in Behind(j, es, v, p + 1) <=> x \in Behind(j, es, u, p + 1))
    <3> SUFFICES ASSUME NEW x \in DOMAIN es, Told(es[x], key) PROVE x \in Behind(j, es, v, p + 1) <=> x \in Behind(j, es, u, p + 1)
      OBVIOUS
    <3>1. CASE x # n BY <1>1, <1>4, <3>1
    <3>2. CASE x = n
      <4>1. k + 1 # p + 1
        BY <1>3, <1>12, <3>2
      <4> QED
        BY <1>9, <4>1
    <3> QED
      BY <3>1, <3>2
  <2> QED
    BY <2>1 DEF Trims, p
<1>13. ASSUME c.key = key, c.op = "push"
       PROVE  /\ n \in Waits(j, es, u, key) /\ Waits(j, es, v, key) = Waits(j, es, u, key) \ {n}
              /\ n \in Trims(j, es, u, lo, key)
              /\ <<n, "push", key>> \notin lo => Pushed(j, es, v, lo, key) = Pushed(j, es, u, lo, key) \union {n}
              /\ \A x \in Waits(j, es, u, key) \ {n} : n < x
  <2>1. k + 1 = p /\ Told(es[n], key)
    BY <1>3, <1>13 DEF p
  <2>2. k < p /\ k < p + 1 /\ ~(k + 1 < p)
    BY <1>1, <1>2, <2>1
  <2>3. n \in Behind(j, es, u, p) /\ n \in Behind(j, es, u, p + 1)
    BY <1>1, <1>6, <2>2
  <2>4. \A x \in DOMAIN es : x \in Behind(j, es, v, p) <=> x \in Behind(j, es, u, p) /\ x # n
    BY <1>1, <1>4, <2>2
  <2>5. n \in Waits(j, es, u, key) /\ n \in Trims(j, es, u, lo, key)
    BY <1>2, <2>1, <2>3 DEF Waits, Trims, p
  <2>6. Waits(j, es, v, key) = Waits(j, es, u, key) \ {n}
    BY <1>5, <2>4 DEF Waits, p
  <2>7. <<n, "push", key>> \notin lo => Pushed(j, es, v, lo, key) = Pushed(j, es, u, lo, key) \union {n}
    BY <1>2, <2>1, <2>4 DEF Pushed, p
  <2>8. ASSUME NEW x \in Waits(j, es, u, key), x # n PROVE n < x
    <3>1. PICK i \in 1 .. Len(u) : u[i].n = x /\ Done(j, es, u[i]) < p
      BY DEF Waits, Behind, p
    <3>2. 1 \in 1 .. Len(u) /\ u[i].n \in Nat /\ n \in Nat /\ x # 0 /\ Done(j, es, u[i]) \in Nat
      <4>1. x \in DOMAIN es /\ DOMAIN es \subseteq Nat /\ 0 \notin DOMAIN es
        BY <1>5, EntriesAre DEF Waits
      <4>2. 1 \in 1 .. Len(u)
        BY DEF Goes
      <4>3. u[i].n # 0 => Done(j, es, u[i]) \in Nat
        BY DoneIs
      <4> QED
        BY <1>2, <3>1, <4>1, <4>2, <4>3
    <3>3. ~(u[i].n < n)
      <4> SUFFICES ASSUME u[i].n < n PROVE FALSE
        OBVIOUS
      <4>1. k < Done(j, es, u[i]) \/ (k = Done(j, es, u[i]) /\ i < 1)
        BY <3>1, <3>2 DEF InTurn, n, k
      <4>2. ~(i < 1)
        OBVIOUS
      <4> QED
        BY <1>1, <1>2, <2>1, <3>1, <3>2, <4>1, <4>2
    <3> QED
      BY <2>8, <3>1, <3>2, <3>3
  <2> QED
    BY <2>5, <2>6, <2>7, <2>8
<1> QED
  BY <1>11, <1>12, <1>13 DEF Answered, Same, n, c

LEMMA CutIsPrune ==
  ASSUME NEW j, GoodJournal(j), NEW d, NEW es, EntriesFit(j, d, es), NEW m, Writer(j, d, es, m) \/ Pruner(j, d, m),
         m.calls[1].op \in {"scan", "cut"}
  PROVE  /\ Pruner(j, d, m) /\ j = "audit" /\ m.n = 0 /\ m.from = d - Retention
         /\ m.calls[1].key = All /\ (m.calls[1].op = "cut" => m.calls[1].arg \in Nat)
         /\ (m.calls[1].op = "scan" => m.calls[1].arg = m.from)
<1>1. ~Writer(j, d, es, m)
  <2> SUFFICES ASSUME Writer(j, d, es, m) PROVE FALSE
    OBVIOUS
  <2>1. m.calls[1].op \in {"push", "trim"}
    BY CallIs
  <2> QED
    BY <2>1
<1>2. Pruner(j, d, m)
  BY <1>1
<1> QED
  BY <1>2 DEF Pruner, Call

\* A method that writes leaves the cuts that others are to make.
LEMMA CutsGo ==
  ASSUME NEW j, GoodJournal(j), NEW d, NEW es, EntriesFit(j, d, es), NEW u, InTurn(j, d, es, u),
         NEW v, NEW t, NEW stays \in BOOLEAN, Goes(u, v, t, stays), stays => Writer(j, d, es, t),
         NEW i \in 1 .. Len(v), v[i].calls[1].op = "cut"
  PROVE  \E k \in 1 .. Len(u) : k # 1 /\ v[i] = u[k] /\ u[k].calls[1].arg \in Nat /\ j = "audit"
<1>1. /\ Len(u) \in Nat /\ Len(u) # 0 /\ Len(v) = (IF stays THEN Len(u) ELSE Len(u) - 1) /\ (stays => v[Len(u)] = t)
      /\ \A k \in 1 .. Len(u) - 1 : v[k] = u[k + 1]
  BY DEF Goes
<1>2. i \in 1 .. Len(u) - 1 \/ (stays /\ i = Len(u))
  BY <1>1
<1>3. ~(stays /\ i = Len(u))
  <2> SUFFICES ASSUME stays, i = Len(u) PROVE FALSE
    OBVIOUS
  <2>1. v[i] = t /\ Writer(j, d, es, t)
    BY <1>1
  <2>2. v[i].calls[1].op \in {"push", "trim"}
    BY <2>1, CallIs
  <2> QED
    BY <2>2
<1>4. i + 1 \in 1 .. Len(u) /\ i + 1 # 1 /\ v[i] = u[i + 1]
  BY <1>1, <1>2, <1>3
<1>5. u[i + 1].calls[1].arg \in Nat /\ j = "audit"
  <2>1. Writer(j, d, es, u[i + 1]) \/ Pruner(j, d, u[i + 1])
    BY <1>4 DEF InTurn
  <2> QED
    BY <1>4, <2>1, CutIsPrune
<1> QED
  BY <1>4, <1>5

\* The log was last pruned up to cu, at most the day of today's retention; ra entries raced with a prune.
Times(d, cu, ra) == cu \in Int /\ cu <= d - Retention /\ ra \in Nat

LEMMA TimesAreFit ==
  ASSUME NEW j, NEW d, NEW es, EntriesFit(j, d, es), NEW cu, NEW ra, Times(d, cu, ra), NEW key
  PROVE  /\ Bar(key, cu) \in Int /\ Missed(key, ra) \in Nat /\ Bar(key, cu) <= d /\ d - Retention \in Int /\ Retention \in Nat
         /\ ra \in Nat /\ cu \in Int
<1>1. Retention \in Nat
  BY JournalAssumption DEF JournalAssumption
<1>2. d \in Nat
  BY EntriesAre
<1> QED
  BY <1>1, <1>2 DEF Times, Bar, Missed

\* One list changes.
Becomes(lt, ls, key, s) ==
  DOMAIN lt = DOMAIN ls /\ (key \in DOMAIN ls => lt[key] = s) /\ \A k \in DOMAIN ls : k # key => lt[k] = ls[k]

\* A prune behind the first method is about to cut the list.
CutWaits(u) == \E i \in 1 .. Len(u) : i # 1 /\ u[i].calls[1].op = "cut"

LEMMA RedisPush ==
  ASSUME NEW j, GoodJournal(j), NEW d, NEW es, EntriesFit(j, d, es), NEW cu, NEW ra, Times(d, cu, ra),
         NEW ls, NEW u, NEW lo, RedisKnown(j, d, es, ls, u, lo, cu, ra),
         NEW v, NEW t, NEW stays \in BOOLEAN, Goes(u, v, t, stays), Writer(j, d, es, u[1]),
         stays => Writer(j, d, es, t) /\ t.n = u[1].n /\ Done(j, es, t) = Done(j, es, u[1]) + 1,
         ~stays => Done(j, es, u[1]) + 1 = Len(RedisCalls(j, es[u[1].n])),
         NEW c, c = u[1].calls[1], c.op = "push",
         NEW lt, Becomes(lt, ls, c.key, <<u[1].n>> \o ls[c.key]), NEW rb \in Nat, ra <= rb,
         c.key = All /\ CutWaits(u) => rb = ra + 1
  PROVE  RedisKnown(j, d, es, lt, v, lo, cu, rb)
<1> DEFINE n == u[1].n
           top == c.key
<1>1. /\ InTurn(j, d, es, u) /\ RedisLost(es, lo)
      /\ DOMAIN ls = Lists /\ \A key \in Lists \ Keys(j) : ls[key] = <<>>
      /\ \A key \in Keys(j) : /\ ListKnown(j, es, ls, u, lo, cu, ra, key)
                              /\ \A x \in Waits(j, es, u, key) : <<x, "push", key>> \notin lo
      /\ \A i \in 1 .. Len(u) : u[i].calls[1].op = "cut" => NextCut(j, d, es, ls, u, lo, ra, u[i].calls[1].arg)
  BY DEF RedisKnown
<1>2. InTurn(j, d, es, v)
  BY <1>1, TurnGoes DEF Follows
<1>3. \A key \in Keys(j) : Answered(j, es, u, v, lo, key)
  BY <1>1, SetsGo DEF Follows
<1>4. top \in Keys(j) /\ top \in Lists /\ n \in DOMAIN es /\ es[n].ts = d /\ n \in Nat
  <2>1. top \in Keys(j)
    BY CallIs
  <2> QED
    BY <2>1, KeysAre, EntriesAre DEF Writer
<1>5. Bar(top, cu) \in Int /\ Missed(top, ra) \in Nat /\ Bar(top, cu) <= es[n].ts /\ d - Retention \in Int /\ d - Retention <= es[n].ts
  <2>1. d \in Nat
    BY EntriesAre
  <2>2. Bar(top, cu) \in Int /\ Missed(top, ra) \in Nat /\ Bar(top, cu) <= d /\ d - Retention \in Int /\ Retention \in Nat
    BY TimesAreFit
  <2>3. d - Retention <= d
    BY <2>1, <2>2
  <2> QED
    BY <1>4, <2>2, <2>3
<1>6. lt[top] = <<n>> \o ls[top] /\ DOMAIN lt = Lists /\ \A key \in Lists : key # top => lt[key] = ls[key]
  BY <1>1, <1>4 DEF Becomes
<1> DEFINE P == Pushed(j, es, u, lo, top)
           W == Waits(j, es, u, top)
           T == Trims(j, es, u, lo, top)
           s == ls[top]
<1>7. /\ n \in W /\ Waits(j, es, v, top) = W \ {n} /\ n \in T /\ Trims(j, es, v, lo, top) = T
      /\ Pushed(j, es, v, lo, top) = P \union {n} /\ \A w \in W \ {n} : n < w
  BY <1>1, <1>3, <1>4 DEF Answered
<1>8. Pushable(P \union {n}, es)
  <2>1. Pushable(Pushed(j, es, v, lo, top), es)
    BY PushedIs
  <2> QED
    BY <1>7, <2>1
<1>9. KeyKnown(s, P, W, T, Length(j, top), es, Bar(top, cu), Missed(top, ra)) /\ Length(j, top) \in Nat
  BY <1>1, <1>4, KeysAre DEF ListKnown
<1>10. s \in Seq(P)
  BY <1>9 DEF KeyKnown
<1> HIDE DEF P, W, T, s, n, top
<1>11. /\ KeyKnown(lt[top], P \union {n}, W \ {n}, T \union {n}, Length(j, top), es, Bar(top, cu), Missed(top, ra))
       /\ OnTop(lt[top], s, n)
  <2> DEFINE x == lt[top]
             cap == Length(j, top)
             bar == Bar(top, cu)
             r == Missed(top, ra)
  <2>1. x = <<n>> \o s
    BY <1>6 DEF s
  <2>2. /\ KeyKnown(s, P, W, T, cap, es, bar, r) /\ cap \in Nat /\ bar \in Int /\ r \in Nat /\ n \in W /\ n \in Nat
        /\ Pushable(P \union {n}, es) /\ \A w \in W \ {n} : n < w
    BY <1>4, <1>5, <1>7, <1>8, <1>9
  <2>3. es[n].ts >= bar
    BY <1>4, <1>5, EntriesAre
  <2> HIDE DEF x, cap, bar, r
  <2>4. PushFits(s, P, W, T, cap, es, bar, r, n, x)
    BY <2>1, <2>2, <2>3 DEF PushFits
  <2>5. KeyKnown(x, P \union {n}, W \ {n}, T \union {n}, cap, es, bar, r) /\ OnTop(x, s, n)
    BY <2>4, PushKnown
  <2> QED
    BY <2>5 DEF x, cap, bar, r
<1>12. ListKnown(j, es, lt, v, lo, cu, ra, top)
  <2>1. T \union {n} = T
    BY <1>7
  <2> QED
    BY <1>7, <1>11, <2>1 DEF ListKnown
<1>13. ASSUME NEW key \in Keys(j), key # top PROVE ListKnown(j, es, lt, v, lo, cu, ra, key)
  <2>1. lt[key] = ls[key]
    BY <1>6, <1>13, KeysAre
  <2>2. Same(j, es, u, v, lo, key) /\ Trims(j, es, v, lo, key) = Trims(j, es, u, lo, key)
    BY <1>3, <1>13 DEF Answered, top
  <2>3. ListKnown(j, es, ls, u, lo, cu, ra, key)
    BY <1>1
  <2> QED
    BY <2>1, <2>2, <2>3 DEF ListKnown, Same
<1>14. ASSUME NEW key \in Keys(j) PROVE ListKnown(j, es, lt, v, lo, cu, rb, key)
  <2>1. ListKnown(j, es, lt, v, lo, cu, ra, key)
    BY <1>12, <1>13
  <2>2. Missed(key, ra) \in Nat /\ Missed(key, rb) \in Nat /\ Missed(key, ra) <= Missed(key, rb) /\ Bar(key, cu) \in Int
    BY DEF Missed, Bar, Times
  <2>3. Length(j, key) \in Nat /\ Pushable(Pushed(j, es, v, lo, key), es)
    BY KeysAre, PushedIs
  <2> QED
    BY <2>1, <2>2, <2>3, RacedKnown DEF ListKnown
<1>15. ASSUME NEW key \in Keys(j), NEW x \in Waits(j, es, v, key) PROVE <<x, "push", key>> \notin lo
  <2>1. x \in Waits(j, es, u, key)
    <3>1. CASE key = top BY <1>7, <1>15, <3>1 DEF W
    <3>2. CASE key # top BY <1>3, <1>15, <3>2 DEF Answered, Same, top
    <3> QED
      BY <3>1, <3>2
  <2> QED
    BY <1>1, <2>1
<1>16. ASSUME NEW i \in 1 .. Len(v), v[i].calls[1].op = "cut"
       PROVE  NextCut(j, d, es, lt, v, lo, rb, v[i].calls[1].arg)
  <2>1. PICK k \in 1 .. Len(u) : k # 1 /\ v[i] = u[k] /\ u[k].calls[1].arg \in Nat /\ j = "audit"
    BY <1>1, <1>16, CutsGo
  <2> DEFINE a == u[k].calls[1].arg
  <2>2. NextCut(j, d, es, ls, u, lo, ra, a) /\ a \in Nat /\ v[i].calls[1].arg = a
    BY <1>1, <1>16, <2>1
  <2> HIDE DEF a
  <2>3. CASE top = All
    <3>1. rb = ra + 1
      BY <1>16, <2>1, <2>3 DEF top, CutWaits
    <3>2. CutKnown(s, P, LogCap, es, d - Retention, a, ra) /\ LogCap \in Nat /\ ra \in Nat
      BY <2>2, <2>3, JournalAssumption DEF NextCut, JournalAssumption, Times, s, P
    <3>3. CutKnown(lt[top], P \union {n}, LogCap, es, d - Retention, a, ra + 1)
      <4> DEFINE x == lt[top]
                 from == d - Retention
      <4>1. OnTop(x, s, n)
        BY <1>11
      <4>2. from \in Int /\ es[n].ts >= from
        BY <1>4, <1>5, EntriesAre
      <4>3. CutKnown(s, P, LogCap, es, from, a, ra)
        BY <3>2
      <4> HIDE DEF x, from
      <4>4. CutFits(s, P, LogCap, es, from, a, ra, n, x)
        BY <1>4, <1>8, <1>10, <2>2, <3>2, <4>1, <4>2, <4>3 DEF CutFits
      <4>5. CutKnown(x, P \union {n}, LogCap, es, from, a, ra + 1)
        BY <4>4, CutFitsKnown
      <4> QED
        BY <4>5 DEF x, from
    <3> QED
      BY <1>7, <2>2, <2>3, <3>1, <3>3 DEF NextCut
  <2>4. CASE top # All
    <3>1. All \in Keys(j) /\ lt[All] = ls[All]
      BY <1>6, <2>1, <2>4, KeysAre
    <3>2. Same(j, es, u, v, lo, All)
      BY <1>3, <2>4, <3>1 DEF Answered, top
    <3>3. CutKnown(lt[All], Pushed(j, es, v, lo, All), LogCap, es, d - Retention, a, ra)
      BY <2>2, <3>1, <3>2 DEF NextCut, Same
    <3>4. Pushable(Pushed(j, es, v, lo, All), es) /\ LogCap \in Nat /\ ra \in Nat
      BY PushedIs, JournalAssumption DEF JournalAssumption, Times
    <3>5. CutKnown(lt[All], Pushed(j, es, v, lo, All), LogCap, es, d - Retention, a, rb)
      BY <1>5, <3>3, <3>4, RacedCut
    <3> QED
      BY <2>2, <3>5 DEF NextCut
  <2> QED
    BY <2>3, <2>4
<1>17. \A key \in Lists \ Keys(j) : lt[key] = <<>>
  BY <1>1, <1>4, <1>6
<1> QED
  BY <1>1, <1>2, <1>6, <1>14, <1>15, <1>16, <1>17 DEF RedisKnown

LEMMA RedisTrim ==
  ASSUME NEW j, GoodJournal(j), NEW d, NEW es, EntriesFit(j, d, es), NEW cu, NEW ra, Times(d, cu, ra),
         NEW ls, NEW u, NEW lo, RedisKnown(j, d, es, ls, u, lo, cu, ra),
         NEW v, NEW t, NEW stays \in BOOLEAN, Goes(u, v, t, stays), Writer(j, d, es, u[1]),
         stays => Writer(j, d, es, t) /\ t.n = u[1].n /\ Done(j, es, t) = Done(j, es, u[1]) + 1,
         ~stays => Done(j, es, u[1]) + 1 = Len(RedisCalls(j, es[u[1].n])),
         NEW c, c = u[1].calls[1], c.op = "trim",
         NEW lt, Becomes(lt, ls, c.key, Cut(ls[c.key], c.arg))
  PROVE  RedisKnown(j, d, es, lt, v, lo, cu, ra)
<1> DEFINE top == c.key
           cap == Length(j, top)
<1>1. /\ InTurn(j, d, es, u) /\ RedisLost(es, lo)
      /\ DOMAIN ls = Lists /\ \A key \in Lists \ Keys(j) : ls[key] = <<>>
      /\ \A key \in Keys(j) : /\ ListKnown(j, es, ls, u, lo, cu, ra, key)
                              /\ \A x \in Waits(j, es, u, key) : <<x, "push", key>> \notin lo
      /\ \A i \in 1 .. Len(u) : u[i].calls[1].op = "cut" => NextCut(j, d, es, ls, u, lo, ra, u[i].calls[1].arg)
  BY DEF RedisKnown
<1>2. InTurn(j, d, es, v)
  BY <1>1, TurnGoes DEF Follows
<1>3. \A key \in Keys(j) : Answered(j, es, u, v, lo, key)
  BY <1>1, SetsGo DEF Follows
<1>4. top \in Keys(j) /\ top \in Lists /\ c.arg = cap
  <2>1. top \in Keys(j) /\ c.arg = cap
    BY CallIs
  <2> QED
    BY <2>1, KeysAre
<1>5. \A key \in Keys(j) : Same(j, es, u, v, lo, key)
  BY <1>3 DEF Answered
<1>6. lt[top] = Cut(ls[top], cap) /\ DOMAIN lt = Lists /\ \A key \in Lists : key # top => lt[key] = ls[key]
  BY <1>1, <1>4 DEF Becomes
<1> DEFINE P == Pushed(j, es, u, lo, top)
           s == ls[top]
           x == lt[top]
<1>7. /\ KeyKnown(s, P, Waits(j, es, u, top), Trims(j, es, u, lo, top), cap, es, Bar(top, cu), Missed(top, ra))
      /\ cap \in Nat /\ Bar(top, cu) \in Int /\ Missed(top, ra) \in Nat /\ Pushable(P, es)
  BY <1>1, <1>4, KeysAre, TimesAreFit, PushedIs DEF ListKnown
<1>8. s \in Seq(P) /\ Sinks(s)
  BY <1>7 DEF KeyKnown
<1>9. ListKnown(j, es, lt, v, lo, cu, ra, top)
  <2> DEFINE W == Waits(j, es, u, top)
             T == Trims(j, es, u, lo, top)
             U == Trims(j, es, v, lo, top)
             bar == Bar(top, cu)
             r == Missed(top, ra)
  <2>1. x = Cut(s, cap)
    BY <1>6
  <2> HIDE DEF P, s, x, cap, W, T, U, bar, r, top
  <2>2. TrimFits(s, P, W, T, cap, es, bar, r, x)
    BY <1>7, <2>1 DEF TrimFits, W, T, bar, r
  <2>3. KeyKnown(x, P, W, U, cap, es, bar, r)
    BY <2>2, TrimKnown
  <2> QED
    BY <1>4, <1>5, <2>3 DEF ListKnown, Same, P, x, cap, W, U, bar, r
<1>10. ASSUME NEW key \in Keys(j), key # top PROVE ListKnown(j, es, lt, v, lo, cu, ra, key)
  <2>1. lt[key] = ls[key]
    BY <1>6, <1>10, KeysAre
  <2>2. Same(j, es, u, v, lo, key) /\ Trims(j, es, v, lo, key) = Trims(j, es, u, lo, key)
    BY <1>3, <1>10 DEF Answered
  <2>3. ListKnown(j, es, ls, u, lo, cu, ra, key)
    BY <1>1
  <2> QED
    BY <2>1, <2>2, <2>3 DEF ListKnown, Same
<1>11. ASSUME NEW key \in Keys(j), NEW n \in Waits(j, es, v, key) PROVE <<n, "push", key>> \notin lo
  BY <1>1, <1>5, <1>11 DEF Same
<1>12. ASSUME NEW i \in 1 .. Len(v), v[i].calls[1].op = "cut"
       PROVE  NextCut(j, d, es, lt, v, lo, ra, v[i].calls[1].arg)
  <2>1. PICK k \in 1 .. Len(u) : k # 1 /\ v[i] = u[k] /\ u[k].calls[1].arg \in Nat /\ j = "audit"
    BY <1>1, <1>12, CutsGo
  <2> DEFINE a == u[k].calls[1].arg
             from == d - Retention
  <2>2. NextCut(j, d, es, ls, u, lo, ra, a) /\ a \in Nat /\ v[i].calls[1].arg = a
    BY <1>1, <1>12, <2>1
  <2>3. All \in Keys(j) /\ LogCap = Length(j, All) /\ Same(j, es, u, v, lo, All)
    BY <1>5, <2>1, KeysAre
  <2>4. from \in Int /\ ra \in Nat
    BY TimesAreFit
  <2> HIDE DEF a
  <2>5. CASE top = All
    <3>1. x = Cut(s, cap) /\ cap = LogCap
      BY <1>6, <2>3, <2>5
    <3>2. CutKnown(s, P, cap, es, from, a, ra)
      BY <2>2, <2>5, <3>1 DEF NextCut
    <3> HIDE DEF P, s, x, cap, from, top
    <3>3. CutKnown(x, P, cap, es, from, a, ra)
      BY <1>7, <1>8, <2>2, <2>4, <3>1, <3>2, TrimCut
    <3> QED
      BY <2>2, <2>3, <2>5, <3>1, <3>3 DEF NextCut, Same, x, P, from
  <2>6. CASE top # All
    <3>1. lt[All] = ls[All]
      BY <1>6, <2>6, KeysAre
    <3> QED
      BY <2>2, <2>3, <3>1 DEF NextCut, Same
  <2> QED
    BY <2>5, <2>6
<1>13. \A key \in Lists \ Keys(j) : lt[key] = <<>>
  BY <1>1, <1>4, <1>6
<1> QED
  BY <1>1, <1>2, <1>6, <1>9, <1>10, <1>11, <1>12, <1>13 DEF RedisKnown

\* The prune at the head of the queue goes.
LEMMA PruneGoes ==
  ASSUME NEW j, GoodJournal(j), NEW d, NEW es, EntriesFit(j, d, es), NEW u, InTurn(j, d, es, u),
         NEW v, NEW t, NEW stays \in BOOLEAN, Goes(u, v, t, stays), Pruner(j, d, u[1]), stays => Pruner(j, d, t)
  PROVE  /\ InTurn(j, d, es, v)
         /\ \A lo, key : key \in Keys(j) => Same(j, es, u, v, lo, key) /\ Trims(j, es, v, lo, key) = Trims(j, es, u, lo, key)
         /\ \A i \in 1 .. Len(v) : (stays /\ v[i] = t) \/ \E k \in 1 .. Len(u) : k # 1 /\ v[i] = u[k]
<1>1. InTurn(j, d, es, v)
  BY TurnGoes DEF Follows
<1>2. u[1].n = 0 /\ 0 \notin DOMAIN es
  BY EntriesAre DEF Pruner
<1>3. \A p \in Nat : \A x \in DOMAIN es : x \in Behind(j, es, v, p) <=> x \in Behind(j, es, u, p)
  <2>1. \A p \in Nat : \A x \in DOMAIN es :
              x \in Behind(j, es, v, p) <=>
                x \in Behind(j, es, u, p) /\ (x = u[1].n => stays /\ Done(j, es, u[1]) + 1 < p)
    BY BehindGoes DEF Follows
  <2>2. \A x \in DOMAIN es : x # u[1].n
    BY <1>2
  <2> QED
    BY <2>1, <2>2
<1>4. \A p : Behind(j, es, v, p) \subseteq DOMAIN es /\ Behind(j, es, u, p) \subseteq DOMAIN es
  BY DEF Behind
<1>5. ASSUME NEW lo, NEW key \in Keys(j)
      PROVE  Same(j, es, u, v, lo, key) /\ Trims(j, es, v, lo, key) = Trims(j, es, u, lo, key)
  <2>1. Place(j, key) \in Nat /\ Place(j, key) + 1 \in Nat
    BY KeysAre
  <2>2. Behind(j, es, v, Place(j, key)) = Behind(j, es, u, Place(j, key))
    BY <1>3, <1>4, <2>1
  <2>3. Behind(j, es, v, Place(j, key) + 1) = Behind(j, es, u, Place(j, key) + 1)
    BY <1>3, <1>4, <2>1
  <2> QED
    BY <2>2, <2>3 DEF Same, Waits, Pushed, Trims
<1>6. ASSUME NEW i \in 1 .. Len(v) PROVE (stays /\ v[i] = t) \/ \E k \in 1 .. Len(u) : k # 1 /\ v[i] = u[k]
  <2>1. /\ Len(u) \in Nat /\ Len(u) # 0 /\ Len(v) = (IF stays THEN Len(u) ELSE Len(u) - 1) /\ (stays => v[Len(u)] = t)
        /\ \A k \in 1 .. Len(u) - 1 : v[k] = u[k + 1]
    BY DEF Goes
  <2>2. CASE i \in 1 .. Len(u) - 1
    <3>1. i + 1 \in 1 .. Len(u) /\ i + 1 # 1 /\ v[i] = u[i + 1]
      BY <2>1, <2>2
    <3> QED
      BY <3>1
  <2>3. CASE stays /\ i = Len(u) BY <2>1, <2>3
  <2> QED
    BY <2>1, <2>2, <2>3
<1> QED
  BY <1>1, <1>5, <1>6

\* A prune reads the list, and is done or will cut it.
LEMMA RedisScan ==
  ASSUME NEW j, GoodJournal(j), NEW d, NEW es, EntriesFit(j, d, es), NEW cu, NEW ra, Times(d, cu, ra),
         NEW ls, NEW u, NEW lo, RedisKnown(j, d, es, ls, u, lo, cu, ra),
         NEW v, NEW t, NEW stays \in BOOLEAN, Goes(u, v, t, stays), Pruner(j, d, u[1]),
         NEW from, from = d - Retention, NEW k, k \in 0 .. Len(ls[All]),
         \A i \in 1 .. Len(ls[All]) : es[ls[All][i]].ts >= from <=> i <= k,
         stays => Pruner(j, d, t) /\ t.calls[1].arg = k, ~stays => k = Len(ls[All]),
         NEW cb, cb = IF stays THEN cu ELSE from
  PROVE  RedisKnown(j, d, es, ls, v, lo, cb, ra)
<1>1. /\ InTurn(j, d, es, u) /\ RedisLost(es, lo)
      /\ DOMAIN ls = Lists /\ \A key \in Lists \ Keys(j) : ls[key] = <<>>
      /\ \A key \in Keys(j) : /\ ListKnown(j, es, ls, u, lo, cu, ra, key)
                              /\ \A x \in Waits(j, es, u, key) : <<x, "push", key>> \notin lo
      /\ \A i \in 1 .. Len(u) : u[i].calls[1].op = "cut" => NextCut(j, d, es, ls, u, lo, ra, u[i].calls[1].arg)
  BY DEF RedisKnown
<1>2. /\ InTurn(j, d, es, v)
      /\ \A key \in Keys(j) : Same(j, es, u, v, lo, key) /\ Trims(j, es, v, lo, key) = Trims(j, es, u, lo, key)
      /\ \A i \in 1 .. Len(v) : (stays /\ v[i] = t) \/ \E q \in 1 .. Len(u) : q # 1 /\ v[i] = u[q]
  <2>1. stays => Pruner(j, d, t)
    OBVIOUS
  <2> QED
    BY <1>1, <2>1, PruneGoes
<1>3. j = "audit" /\ All \in Keys(j) /\ LogCap = Length(j, All) /\ LogCap \in Nat
  BY KeysAre DEF Pruner
<1> DEFINE s == ls[All]
           P == Pushed(j, es, u, lo, All)
           W == Waits(j, es, u, All)
           T == Trims(j, es, u, lo, All)
<1>4. CutKnown(s, P, LogCap, es, from, k, ra) /\ (k = Len(s) => KeyKnown(s, P, W, T, LogCap, es, from, ra))
  <2>1. KeyKnown(s, P, W, T, LogCap, es, cu, ra)
    BY <1>1, <1>3 DEF ListKnown, Bar, Missed
  <2>2. Pushable(P, es) /\ cu \in Int /\ from \in Int /\ ra \in Nat /\ cu <= from
    BY PushedIs, TimesAreFit DEF Times
  <2>3. k \in 0 .. Len(s) /\ \A i \in 1 .. Len(s) : es[s[i]].ts >= from <=> i <= k
    OBVIOUS
  <2> HIDE DEF s, P, W, T
  <2>4. Scans(s, P, W, T, LogCap, es, cu, from, k, ra)
    BY <1>3, <2>1, <2>2, <2>3 DEF Scans
  <2> QED
    BY <2>4, ScanKnown
<1>5. ASSUME NEW key \in Keys(j) PROVE ListKnown(j, es, ls, v, lo, cb, ra, key)
  <2>1. ListKnown(j, es, ls, v, lo, cu, ra, key)
    BY <1>1, <1>2 DEF ListKnown, Same
  <2>2. CASE stays \/ key # All
    <3>1. Bar(key, cb) = Bar(key, cu)
      BY <2>2 DEF Bar
    <3> QED
      BY <2>1, <3>1 DEF ListKnown
  <2>3. CASE ~stays /\ key = All
    <3>1. KeyKnown(s, P, W, T, LogCap, es, from, ra) /\ cb = from
      BY <1>4, <2>3
    <3> QED
      BY <1>2, <1>3, <2>3, <3>1 DEF ListKnown, Same, Bar, Missed
  <2> QED
    BY <2>2, <2>3
<1>6. ASSUME NEW key \in Keys(j), NEW n \in Waits(j, es, v, key) PROVE <<n, "push", key>> \notin lo
  BY <1>1, <1>2, <1>6 DEF Same
<1>7. ASSUME NEW i \in 1 .. Len(v), v[i].calls[1].op = "cut"
      PROVE  NextCut(j, d, es, ls, v, lo, ra, v[i].calls[1].arg)
  <2>1. NextCut(j, d, es, ls, u, lo, ra, v[i].calls[1].arg)
    <3>1. CASE stays /\ v[i] = t
      <4>1. v[i].calls[1].arg = k
        BY <3>1
      <4> QED
        BY <1>4, <4>1 DEF NextCut
    <3>2. CASE \E q \in 1 .. Len(u) : q # 1 /\ v[i] = u[q]
      BY <1>1, <1>7, <3>2
    <3> QED
      BY <1>2, <3>1, <3>2
  <2> QED
    BY <1>2, <1>3, <2>1 DEF NextCut, Same
<1> QED
  BY <1>1, <1>2, <1>5, <1>6, <1>7 DEF RedisKnown

LEMMA RedisCuts ==
  ASSUME NEW j, GoodJournal(j), NEW d, NEW es, EntriesFit(j, d, es), NEW cu, NEW ra, Times(d, cu, ra),
         NEW ls, NEW u, NEW lo, RedisKnown(j, d, es, ls, u, lo, cu, ra),
         NEW v, NEW t, NEW stays \in BOOLEAN, ~stays, Goes(u, v, t, stays), Pruner(j, d, u[1]), u[1].calls[1].op = "cut",
         NEW from, from = d - Retention,
         NEW lt, Becomes(lt, ls, All, Cut(ls[All], u[1].calls[1].arg))
  PROVE  RedisKnown(j, d, es, lt, v, lo, from, ra)
<1>1. /\ InTurn(j, d, es, u) /\ RedisLost(es, lo)
      /\ DOMAIN ls = Lists /\ \A key \in Lists \ Keys(j) : ls[key] = <<>>
      /\ \A key \in Keys(j) : /\ ListKnown(j, es, ls, u, lo, cu, ra, key)
                              /\ \A x \in Waits(j, es, u, key) : <<x, "push", key>> \notin lo
      /\ \A i \in 1 .. Len(u) : u[i].calls[1].op = "cut" => NextCut(j, d, es, ls, u, lo, ra, u[i].calls[1].arg)
  BY DEF RedisKnown
<1>2. /\ InTurn(j, d, es, v)
      /\ \A key \in Keys(j) : Same(j, es, u, v, lo, key) /\ Trims(j, es, v, lo, key) = Trims(j, es, u, lo, key)
      /\ \A i \in 1 .. Len(v) : \E q \in 1 .. Len(u) : q # 1 /\ v[i] = u[q]
  <2>1. stays => Pruner(j, d, t)
    OBVIOUS
  <2> QED
    BY <1>1, <2>1, PruneGoes
<1>3. j = "audit" /\ All \in Keys(j) /\ All \in Lists /\ LogCap = Length(j, All) /\ LogCap \in Nat
  BY KeysAre DEF Pruner
<1> DEFINE s == ls[All]
           P == Pushed(j, es, u, lo, All)
           W == Waits(j, es, u, All)
           T == Trims(j, es, u, lo, All)
           k == u[1].calls[1].arg
           x == lt[All]
<1>4. x = Cut(s, k) /\ DOMAIN lt = Lists /\ \A key \in Lists : key # All => lt[key] = ls[key]
  BY <1>1, <1>3 DEF Becomes
<1>5. k \in Nat /\ 1 \in 1 .. Len(u)
  BY CutIsPrune DEF Goes
<1>6. from \in Int /\ ra \in Nat /\ cu \in Int
  BY TimesAreFit
<1>7. /\ KeyKnown(x, P, W, T, LogCap, es, from, ra)
      /\ \A l \in Nat : CutKnown(s, P, LogCap, es, from, l, ra) => CutKnown(x, P, LogCap, es, from, l, ra)
  <2>1. KeyKnown(s, P, W, T, LogCap, es, cu, ra)
    BY <1>1, <1>3 DEF ListKnown, Bar, Missed
  <2>2. Pushable(P, es)
    BY PushedIs
  <2>3. CutKnown(s, P, LogCap, es, from, k, ra)
    BY <1>1, <1>5 DEF NextCut
  <2> HIDE DEF s, P, W, T, k, x
  <2>4. CutAway(s, P, W, T, LogCap, es, cu, from, k, ra, x)
    BY <1>3, <1>4, <1>5, <1>6, <2>1, <2>2, <2>3 DEF CutAway
  <2> QED
    BY <2>4, CutLeaves
<1>8. ASSUME NEW key \in Keys(j) PROVE ListKnown(j, es, lt, v, lo, from, ra, key)
  <2>1. CASE key # All
    <3>1. lt[key] = ls[key] /\ Bar(key, from) = Bar(key, cu)
      BY <1>4, <2>1, KeysAre DEF Bar
    <3>2. ListKnown(j, es, ls, v, lo, cu, ra, key)
      BY <1>1, <1>2 DEF ListKnown, Same
    <3> QED
      BY <3>1, <3>2 DEF ListKnown
  <2>2. CASE key = All
    BY <1>2, <1>3, <1>7, <2>2 DEF ListKnown, Same, Bar, Missed
  <2> QED
    BY <2>1, <2>2
<1>9. ASSUME NEW key \in Keys(j), NEW n \in Waits(j, es, v, key) PROVE <<n, "push", key>> \notin lo
  BY <1>1, <1>2, <1>9 DEF Same
<1>10. ASSUME NEW i \in 1 .. Len(v), v[i].calls[1].op = "cut"
       PROVE  NextCut(j, d, es, lt, v, lo, ra, v[i].calls[1].arg)
  <2>1. PICK q \in 1 .. Len(u) : q # 1 /\ v[i] = u[q]
    BY <1>2
  <2> DEFINE l == v[i].calls[1].arg
  <2>2. l \in Nat
    <3>1. Writer(j, d, es, u[q]) \/ Pruner(j, d, u[q])
      BY <1>1 DEF InTurn
    <3> QED
      BY <1>10, <2>1, <3>1, CutIsPrune
  <2>3. CutKnown(s, P, LogCap, es, from, l, ra)
    BY <1>1, <1>10, <2>1 DEF NextCut
  <2>4. CutKnown(x, P, LogCap, es, from, l, ra)
    BY <1>7, <2>2, <2>3
  <2> QED
    BY <1>2, <1>3, <2>4 DEF NextCut, Same
<1>11. \A key \in Lists \ Keys(j) : lt[key] = <<>>
  BY <1>1, <1>3, <1>4
<1> QED
  BY <1>1, <1>2, <1>4, <1>8, <1>9, <1>10, <1>11 DEF RedisKnown

\* The calls that a failure or a crash prevents.
LEMMA UnmadeIs ==
  ASSUME NEW j, GoodJournal(j), NEW d, NEW es, EntriesFit(j, d, es), NEW m, Writer(j, d, es, m) \/ Pruner(j, d, m)
  PROVE  /\ \A key \in Keys(j) : \A x \in DOMAIN es : Told(es[x], key) =>
              /\ <<x, "push", key>> \in Unmade(m) <=> m.n = x /\ Done(j, es, m) < Place(j, key)
              /\ <<x, "trim", key>> \in Unmade(m) <=> m.n = x /\ Done(j, es, m) < Place(j, key) + 1
         /\ Unmade(m) \subseteq (0 .. Len(es)) \X {"push", "trim", "scan", "cut"} \X Lists
<1>1. CASE Writer(j, d, es, m)
  <2>1. Known(j, es, m) /\ m.n \in DOMAIN es
    BY <1>1, WriterIs DEF Writer
  <2>2. /\ \A key \in Keys(j) : Told(es[m.n], key) =>
             /\ <<m.n, "push", key>> \in Unmade(m) <=> Done(j, es, m) < Place(j, key)
             /\ <<m.n, "trim", key>> \in Unmade(m) <=> Done(j, es, m) < Place(j, key) + 1
        /\ \A n, op, key : <<n, op, key>> \in Unmade(m) =>
             n = m.n /\ op \in {"push", "trim"} /\ key \in Keys(j) /\ Told(es[m.n], key)
    BY <2>1 DEF Known
  <2>3. \A key \in Keys(j) : \A x \in DOMAIN es : Told(es[x], key) =>
              /\ <<x, "push", key>> \in Unmade(m) <=> m.n = x /\ Done(j, es, m) < Place(j, key)
              /\ <<x, "trim", key>> \in Unmade(m) <=> m.n = x /\ Done(j, es, m) < Place(j, key) + 1
    BY <2>2
  <2>4. m.n \in 0 .. Len(es) /\ Keys(j) \subseteq Lists
    BY <2>1, EntriesAre, KeysAre
  <2>5. ASSUME NEW y \in Unmade(m) PROVE y \in (0 .. Len(es)) \X {"push", "trim", "scan", "cut"} \X Lists
    <3>1. PICK i \in DOMAIN m.calls : y = <<m.n, m.calls[i].op, m.calls[i].key>>
      BY DEF Unmade
    <3>2. m.calls[i].op \in {"push", "trim"} /\ m.calls[i].key \in Keys(j)
      BY <2>2, <3>1
    <3> QED
      BY <2>4, <3>1, <3>2
  <2> QED
    BY <2>3, <2>5
<1>2. CASE Pruner(j, d, m)
  <2>1. m.n = 0 /\ m \in Methods /\ Len(m.calls) = 1 /\ m.calls[1].op \in {"scan", "cut"} /\ m.calls[1].key = All
    BY <1>2 DEF Pruner, Call
  <2>2. Unmade(m) = {<<0, m.calls[1].op, All>>}
    <3>1. DOMAIN m.calls = {1}
      BY <2>1, MethodIs
    <3> QED
      BY <2>1, <3>1 DEF Unmade
  <2>3. 0 \in 0 .. Len(es) /\ All \in Lists /\ 0 \notin DOMAIN es
    BY EntriesAre, KeysAre
  <2> QED
    BY <2>1, <2>2, <2>3
<1> QED
  BY <1>1, <1>2

\* What is not called will not be waited for.
LEMMA RedisDrops ==
  ASSUME NEW j, GoodJournal(j), NEW d, NEW es, EntriesFit(j, d, es), NEW cu, NEW ra,
         NEW ls, NEW u, NEW lo, RedisKnown(j, d, es, ls, u, lo, cu, ra),
         NEW v, NEW lp, InTurn(j, d, es, v), RedisLost(es, lp),
         \A i \in 1 .. Len(v) : \E k \in 1 .. Len(u) : v[i] = u[k],
         \A key \in Keys(j) : /\ Waits(j, es, v, key) \subseteq Waits(j, es, u, key)
                              /\ Pushed(j, es, v, lp, key) = Pushed(j, es, u, lo, key)
                              /\ Trims(j, es, u, lo, key) \subseteq Trims(j, es, v, lp, key)
                              /\ \A n \in Waits(j, es, v, key) : <<n, "push", key>> \notin lp
  PROVE  RedisKnown(j, d, es, ls, v, lp, cu, ra)
<1>1. /\ InTurn(j, d, es, u)
      /\ DOMAIN ls = Lists /\ \A key \in Lists \ Keys(j) : ls[key] = <<>>
      /\ \A key \in Keys(j) : ListKnown(j, es, ls, u, lo, cu, ra, key)
      /\ \A i \in 1 .. Len(u) : u[i].calls[1].op = "cut" => NextCut(j, d, es, ls, u, lo, ra, u[i].calls[1].arg)
  BY DEF RedisKnown
<1>2. ASSUME NEW key \in Keys(j) PROVE ListKnown(j, es, ls, v, lp, cu, ra, key)
  BY <1>1, WaitKnown DEF ListKnown
<1>3. ASSUME NEW i \in 1 .. Len(v), v[i].calls[1].op = "cut"
      PROVE  NextCut(j, d, es, ls, v, lp, ra, v[i].calls[1].arg)
  <2>1. PICK k \in 1 .. Len(u) : v[i] = u[k]
    OBVIOUS
  <2>2. All \in Keys(j)
    <3>1. Writer(j, d, es, u[k]) \/ Pruner(j, d, u[k])
      BY <1>1 DEF InTurn
    <3>2. j = "audit"
      BY <1>3, <2>1, <3>1, CutIsPrune
    <3> QED
      BY <3>2, KeysAre
  <2>3. NextCut(j, d, es, ls, u, lo, ra, v[i].calls[1].arg)
    BY <1>1, <1>3, <2>1
  <2> QED
    BY <2>2, <2>3 DEF NextCut
<1> QED
  BY <1>1, <1>2, <1>3 DEF RedisKnown

\* A call fails: the rest of the method's calls are not made.
LEMMA RedisFails ==
  ASSUME NEW j, GoodJournal(j), NEW d, NEW es, EntriesFit(j, d, es), NEW cu, NEW ra,
         NEW ls, NEW u, NEW lo, RedisKnown(j, d, es, ls, u, lo, cu, ra),
         NEW v, NEW t, NEW stays \in BOOLEAN, ~stays, Goes(u, v, t, stays),
         NEW lp, lp = lo \union Unmade(u[1])
  PROVE  RedisKnown(j, d, es, ls, v, lp, cu, ra)
<1> DEFINE m == u[1]
           k == Done(j, es, m)
<1>1. /\ InTurn(j, d, es, u) /\ RedisLost(es, lo)
      /\ \A key \in Keys(j) : \A n \in Waits(j, es, u, key) : <<n, "push", key>> \notin lo
  BY DEF RedisKnown
<1>2. /\ Len(u) \in Nat /\ Len(u) # 0 /\ Len(v) = Len(u) - 1 /\ \A i \in 1 .. Len(u) - 1 : v[i] = u[i + 1]
  BY DEF Goes
<1>3. 1 \in 1 .. Len(u) /\ (Writer(j, d, es, m) \/ Pruner(j, d, m))
  BY <1>1, <1>2 DEF InTurn
<1>4. InTurn(j, d, es, v)
  BY <1>1, TurnGoes
<1>5. /\ \A key \in Keys(j) : \A x \in DOMAIN es : Told(es[x], key) =>
           /\ <<x, "push", key>> \in Unmade(m) <=> m.n = x /\ k < Place(j, key)
           /\ <<x, "trim", key>> \in Unmade(m) <=> m.n = x /\ k < Place(j, key) + 1
      /\ Unmade(m) \subseteq (0 .. Len(es)) \X {"push", "trim", "scan", "cut"} \X Lists
  BY <1>3, UnmadeIs
<1>6. RedisLost(es, lp)
  BY <1>1, <1>5 DEF RedisLost
<1>7. \A i \in 1 .. Len(v) : \E q \in 1 .. Len(u) : v[i] = u[q]
  <2> TAKE i \in 1 .. Len(v)
  <2>1. i + 1 \in 1 .. Len(u) /\ v[i] = u[i + 1]
    BY <1>2
  <2> QED
    BY <2>1
<1>8. \A p \in Nat : \A x \in DOMAIN es : x \in Behind(j, es, v, p) <=> x \in Behind(j, es, u, p) /\ x # m.n
  BY <1>1, BehindGoes
<1>9. \A p \in Nat : \A x \in DOMAIN es : x = m.n => (x \in Behind(j, es, u, p) <=> k < p)
  <2> SUFFICES ASSUME NEW p \in Nat, NEW x \in DOMAIN es, x = m.n PROVE x \in Behind(j, es, u, p) <=> k < p
    OBVIOUS
  <2>1. x # 0
    BY EntriesAre
  <2>2. \A i \in 1 .. Len(u) : u[i].n = x => i = 1
    BY <1>1, <1>3, <2>1 DEF InTurn
  <2>3. x \in Behind(j, es, u, p) <=> \E i \in 1 .. Len(u) : u[i].n = x /\ Done(j, es, u[i]) < p
    BY DEF Behind
  <2> QED
    BY <1>3, <2>2, <2>3
<1>10. \A p : Behind(j, es, v, p) \subseteq DOMAIN es /\ Behind(j, es, u, p) \subseteq DOMAIN es
  BY DEF Behind
<1> HIDE DEF m, k
<1>11. ASSUME NEW key \in Keys(j)
       PROVE  /\ Waits(j, es, v, key) \subseteq Waits(j, es, u, key)
              /\ Pushed(j, es, v, lp, key) = Pushed(j, es, u, lo, key)
              /\ Trims(j, es, u, lo, key) \subseteq Trims(j, es, v, lp, key)
              /\ \A n \in Waits(j, es, v, key) : <<n, "push", key>> \notin lp
  <2> DEFINE p == Place(j, key)
  <2>1. p \in Nat /\ p + 1 \in Nat
    BY KeysAre
  <2>2. \A y : y \in lp <=> y \in lo \/ y \in Unmade(m)
    BY DEF m
  <2>3. \A x \in DOMAIN es : Told(es[x], key) =>
          /\ <<x, "push", key>> \in Unmade(m) <=> x = m.n /\ x \in Behind(j, es, u, p)
          /\ <<x, "trim", key>> \in Unmade(m) <=> x = m.n /\ x \in Behind(j, es, u, p + 1)
    BY <1>5, <1>9, <2>1
  <2>4. /\ \A x \in DOMAIN es : x \in Behind(j, es, v, p) <=> x \in Behind(j, es, u, p) /\ x # m.n
        /\ \A x \in DOMAIN es : x \in Behind(j, es, v, p + 1) <=> x \in Behind(j, es, u, p + 1) /\ x # m.n
    BY <1>8, <2>1
  <2>5. Waits(j, es, v, key) \subseteq Waits(j, es, u, key)
    BY <1>10, <2>4 DEF Waits, p
  <2>6. Pushed(j, es, v, lp, key) = Pushed(j, es, u, lo, key)
    BY <2>2, <2>3, <2>4 DEF Pushed, p
  <2>7. Trims(j, es, u, lo, key) \subseteq Trims(j, es, v, lp, key)
    BY <2>2, <2>3, <2>4 DEF Trims, p
  <2>8. \A n \in Waits(j, es, v, key) : <<n, "push", key>> \notin lp
    <3> TAKE n \in Waits(j, es, v, key)
    <3>1. n \in DOMAIN es /\ Told(es[n], key) /\ n \in Behind(j, es, v, p) /\ <<n, "push", key>> \notin lo
      BY <1>1, <1>10, <2>5 DEF Waits, p
    <3>2. <<n, "push", key>> \notin Unmade(m)
      BY <2>3, <2>4, <3>1
    <3> QED
      BY <2>2, <3>1, <3>2
  <2> QED
    BY <2>5, <2>6, <2>7, <2>8
<1> QED
  BY <1>4, <1>6, <1>7, <1>11, RedisDrops

LEMMA RedisCrashes ==
  ASSUME NEW j, GoodJournal(j), NEW d, NEW es, EntriesFit(j, d, es), NEW cu, NEW ra,
         NEW ls, NEW u, NEW lo, RedisKnown(j, d, es, ls, u, lo, cu, ra),
         NEW lp, lp = lo \union UNION {Unmade(u[i]) : i \in 1 .. Len(u)}
  PROVE  RedisKnown(j, d, es, ls, <<>>, lp, cu, ra)
<1> DEFINE v == <<>>
<1>1. /\ InTurn(j, d, es, u) /\ RedisLost(es, lo)
      /\ \A key \in Keys(j) : \A n \in Waits(j, es, u, key) : <<n, "push", key>> \notin lo
  BY DEF RedisKnown
<1>2. v \in Seq(Methods) /\ Len(v) = 0
  OBVIOUS
<1>3. InTurn(j, d, es, v)
  BY <1>2 DEF InTurn
<1>4. \A i \in 1 .. Len(u) :
        /\ \A key \in Keys(j) : \A x \in DOMAIN es : Told(es[x], key) =>
             /\ <<x, "push", key>> \in Unmade(u[i]) <=> u[i].n = x /\ Done(j, es, u[i]) < Place(j, key)
             /\ <<x, "trim", key>> \in Unmade(u[i]) <=> u[i].n = x /\ Done(j, es, u[i]) < Place(j, key) + 1
        /\ Unmade(u[i]) \subseteq (0 .. Len(es)) \X {"push", "trim", "scan", "cut"} \X Lists
  <2> TAKE i \in 1 .. Len(u)
  <2>1. Writer(j, d, es, u[i]) \/ Pruner(j, d, u[i])
    BY <1>1 DEF InTurn
  <2> QED
    BY <2>1, UnmadeIs
<1>5. \A y : y \in lp <=> y \in lo \/ \E i \in 1 .. Len(u) : y \in Unmade(u[i])
  OBVIOUS
<1>6. RedisLost(es, lp)
  BY <1>1, <1>4, <1>5 DEF RedisLost
<1>7. \A p : Behind(j, es, v, p) = {}
  BY <1>2 DEF Behind
<1> HIDE DEF v
<1>8. ASSUME NEW key \in Keys(j)
       PROVE  /\ Waits(j, es, v, key) \subseteq Waits(j, es, u, key)
              /\ Pushed(j, es, v, lp, key) = Pushed(j, es, u, lo, key)
              /\ Trims(j, es, u, lo, key) \subseteq Trims(j, es, v, lp, key)
              /\ \A n \in Waits(j, es, v, key) : <<n, "push", key>> \notin lp
  <2>1. \A x \in DOMAIN es : Told(es[x], key) =>
          /\ <<x, "push", key>> \in lp <=> <<x, "push", key>> \in lo \/ x \in Behind(j, es, u, Place(j, key))
          /\ <<x, "trim", key>> \in lp <=> <<x, "trim", key>> \in lo \/ x \in Behind(j, es, u, Place(j, key) + 1)
    BY <1>4, <1>5 DEF Behind
  <2>2. Waits(j, es, v, key) = {}
    BY <1>7 DEF Waits
  <2>3. Pushed(j, es, v, lp, key) = Pushed(j, es, u, lo, key)
    BY <1>7, <2>1 DEF Pushed
  <2>4. Trims(j, es, u, lo, key) \subseteq Trims(j, es, v, lp, key)
    BY <2>1 DEF Trims
  <2> QED
    BY <2>2, <2>3, <2>4
<1>9. \A i \in 1 .. Len(v) : \E k \in 1 .. Len(u) : v[i] = u[k]
  BY <1>2 DEF v
<1>10. RedisKnown(j, d, es, ls, v, lp, cu, ra)
  BY <1>3, <1>6, <1>8, <1>9, RedisDrops
<1> QED
  BY <1>10 DEF v

-----------------------------------------------------------------------------
(* New entries and prunes *)

\* fs is es and one more entry.
Entered(es, e, fs) ==
  /\ Len(fs) = Len(es) + 1 /\ fs[Len(es) + 1] = e /\ DOMAIN es \subseteq DOMAIN fs /\ Len(es) + 1 \in DOMAIN fs
  /\ \A n \in DOMAIN fs : n \in DOMAIN es \/ n = Len(es) + 1
  /\ \A n \in DOMAIN es : fs[n] = es[n] /\ n < Len(es) + 1

LEMMA EntryFits ==
  ASSUME NEW j, NEW d, NEW es, EntriesFit(j, d, es), Len(es) < MaxEntries,
         NEW e \in [ts : 0 .. MaxDay, who : Whos \union {NoEntity}, what : Whats], e.ts = d, GoodEntry(j, e),
         NEW fs, fs = Append(es, e)
  PROVE  EntriesFit(j, d, fs) /\ Entered(es, e, fs)
<1> DEFINE E == [ts : 0 .. MaxDay, who : Whos \union {NoEntity}, what : Whats]
           N == Len(es) + 1
<1>1. /\ es \in Seq(E) /\ d \in 0 .. MaxDay /\ \A m, n \in DOMAIN es : m <= n => es[m].ts <= es[n].ts
  BY DEF EntriesFit
<1>2. /\ Len(es) \in Nat /\ DOMAIN es = 1 .. Len(es) /\ d \in Nat
      /\ \A n \in DOMAIN es : es[n].ts <= d /\ GoodEntry(j, es[n])
  BY EntriesAre
<1> HIDE DEF E
<1>3. /\ Append(es, e) \in Seq(E) /\ Len(Append(es, e)) = Len(es) + 1 /\ Append(es, e)[Len(es) + 1] = e
      /\ \A n \in 1 .. Len(es) : Append(es, e)[n] = es[n]
  <2>1. e \in E
    BY DEF E
  <2> QED
    BY <1>1, <2>1, AppendProperties
<1>4. fs \in Seq(E) /\ Len(fs) = N /\ fs[N] = e /\ \A n \in 1 .. Len(es) : fs[n] = es[n]
  BY <1>3
<1>5. DOMAIN fs = 1 .. N /\ N \in 1 .. N /\ \A n \in 1 .. N : n \in 1 .. Len(es) \/ n = N
  BY <1>2, <1>4
<1>6. Entered(es, e, fs)
  <2>1. \A n \in DOMAIN es : n < Len(es) + 1 /\ n \in DOMAIN fs
    BY <1>2, <1>5
  <2> QED
    BY <1>2, <1>4, <1>5, <2>1 DEF Entered
<1>7. \A n \in DOMAIN fs : fs[n].ts <= d /\ GoodEntry(j, fs[n])
  <2>1. d <= d
    BY <1>2
  <2> QED
    BY <1>2, <1>4, <1>5, <2>1
<1>8. ASSUME NEW m \in DOMAIN fs, NEW n \in DOMAIN fs, m <= n PROVE fs[m].ts <= fs[n].ts
  <2>1. CASE n = N
    <3>1. fs[n].ts = d
      BY <1>4, <2>1
    <3> QED
      BY <1>7, <3>1
  <2>2. CASE n # N
    <3>1. m \in 1 .. Len(es) /\ n \in 1 .. Len(es)
      BY <1>2, <1>5, <1>8, <2>2
    <3> QED
      BY <1>1, <1>2, <1>4, <1>8, <3>1
  <2> QED
    BY <2>1, <2>2
<1>9. Len(fs) <= MaxEntries
  <2>1. MaxEntries \in Nat
    BY JournalAssumption DEF JournalAssumption
  <2> QED
    BY <1>2, <1>4, <2>1
<1> QED
  BY <1>1, <1>4, <1>6, <1>7, <1>8, <1>9 DEF EntriesFit, E

\* v is u and one more method.
Longer(v, u, m) ==
  /\ v \in Seq(Methods) /\ Len(u) \in Nat /\ Len(v) = Len(u) + 1 /\ v[Len(u) + 1] = m
  /\ \A i \in 1 .. Len(u) : v[i] = u[i] /\ i \in 1 .. Len(v)
  /\ \A i \in 1 .. Len(v) : i \in 1 .. Len(u) \/ i = Len(u) + 1

LEMMA LongerIs ==
  ASSUME NEW u \in Seq(Methods), NEW m \in Methods, NEW v, v = Append(u, m)
  PROVE  Longer(v, u, m)
<1>1. /\ Append(u, m) \in Seq(Methods) /\ Len(Append(u, m)) = Len(u) + 1 /\ Append(u, m)[Len(u) + 1] = m
      /\ \A i \in 1 .. Len(u) : Append(u, m)[i] = u[i]
  BY AppendProperties
<1>2. Len(u) \in Nat
  OBVIOUS
<1>3. v \in Seq(Methods) /\ Len(v) = Len(u) + 1 /\ v[Len(u) + 1] = m /\ \A i \in 1 .. Len(u) : v[i] = u[i]
  BY <1>1
<1> QED
  BY <1>2, <1>3 DEF Longer

\* A method goes to the end of the queue.
LEMMA TurnLast ==
  ASSUME NEW j, GoodJournal(j), NEW d, NEW es, EntriesFit(j, d, es), NEW u, InTurn(j, d, es, u), NEW m, NEW v, Longer(v, u, m),
         \/ Pruner(j, d, m)
         \/ Writer(j, d, es, m) /\ Done(j, es, m) = 0 /\ \A i \in 1 .. Len(u) : u[i].n < m.n
  PROVE  InTurn(j, d, es, v)
<1> DEFINE D(x) == Done(j, es, x)
           OK(x) == Writer(j, d, es, x) \/ Pruner(j, d, x)
           N == Len(u) + 1
<1>1. /\ \A i \in 1 .. Len(u) : OK(u[i]) /\ u[i].n \in Nat
      /\ \A i, k \in 1 .. Len(u) : u[i].n = u[k].n /\ u[i].n # 0 => i = k
      /\ \A i, k \in 1 .. Len(u) : u[i].n # 0 /\ u[i].n < u[k].n => D(u[k]) < D(u[i]) \/ (D(u[k]) = D(u[i]) /\ i < k)
      /\ \A i \in 1 .. Len(u) : u[i].n # 0 => D(u[i]) \in Nat
  BY DoneIs DEF InTurn
<1>2. /\ v \in Seq(Methods) /\ Len(u) \in Nat /\ Len(v) = N /\ v[N] = m
      /\ \A i \in 1 .. Len(u) : v[i] = u[i] /\ i \in 1 .. Len(v)
      /\ \A i \in 1 .. Len(v) : i \in 1 .. Len(u) \/ i = N
  BY DEF Longer
<1>3. OK(m) /\ m.n \in Nat /\ (m.n # 0 => D(m) = 0 /\ \A i \in 1 .. Len(u) : u[i].n < m.n)
  <2>1. \A x : Pruner(j, d, x) => x.n = 0
    BY DEF Pruner
  <2>2. Writer(j, d, es, m) => m.n \in Nat
    BY WriterIs DEF Known
  <2> QED
    BY <2>1, <2>2
<1> HIDE DEF D, OK
<1>4. \A i \in 1 .. Len(v) : OK(v[i]) /\ v[i].n \in Nat
  BY <1>1, <1>2, <1>3
<1>5. \A i, k \in 1 .. Len(v) : v[i].n = v[k].n /\ v[i].n # 0 => i = k
  <2>1. \A i \in 1 .. Len(u) : m.n # 0 => u[i].n # m.n
    BY <1>1, <1>3
  <2> QED
    BY <1>1, <1>2, <2>1
<1>6. \A i, k \in 1 .. Len(v) : v[i].n # 0 /\ v[i].n < v[k].n => D(v[k]) < D(v[i]) \/ (D(v[k]) = D(v[i]) /\ i < k)
  <2> SUFFICES ASSUME NEW i \in 1 .. Len(v), NEW k \in 1 .. Len(v), v[i].n # 0, v[i].n < v[k].n
               PROVE  D(v[k]) < D(v[i]) \/ (D(v[k]) = D(v[i]) /\ i < k)
    OBVIOUS
  <2>1. CASE i \in 1 .. Len(u) /\ k \in 1 .. Len(u) BY <1>1, <1>2, <2>1
  <2>2. CASE i \in 1 .. Len(u) /\ k = N
    <3>1. v[k] = m /\ v[i] = u[i] /\ i < k /\ m.n # 0
      BY <1>2, <1>4, <2>2
    <3>2. D(m) = 0 /\ D(u[i]) \in Nat
      BY <1>1, <1>3, <2>2, <3>1
    <3> QED
      BY <3>1, <3>2
  <2>3. CASE i = N
    <3>1. v[i] = m /\ m.n # 0
      BY <1>2, <2>3
    <3>2. v[k].n < m.n \/ v[k].n = m.n
      BY <1>2, <1>3, <3>1
    <3> QED
      BY <1>4, <3>1, <3>2
  <2> QED
    BY <1>2, <2>1, <2>2, <2>3
<1> QED
  BY <1>2, <1>4, <1>5, <1>6 DEF InTurn, OK, D

LEMMA RedisPrunes ==
  ASSUME NEW j, j = "audit", NEW d, NEW es, EntriesFit(j, d, es), NEW cu, NEW ra,
         NEW ls, NEW u, NEW lo, RedisKnown(j, d, es, ls, u, lo, cu, ra),
         NEW m, Pruner(j, d, m), m.calls[1].op = "scan", NEW v, v = Append(u, m)
  PROVE  RedisKnown(j, d, es, ls, v, lo, cu, ra)
<1>1. /\ InTurn(j, d, es, u) /\ RedisLost(es, lo)
      /\ DOMAIN ls = Lists /\ \A key \in Lists \ Keys(j) : ls[key] = <<>>
      /\ \A key \in Keys(j) : /\ ListKnown(j, es, ls, u, lo, cu, ra, key)
                              /\ \A x \in Waits(j, es, u, key) : <<x, "push", key>> \notin lo
      /\ \A i \in 1 .. Len(u) : u[i].calls[1].op = "cut" => NextCut(j, d, es, ls, u, lo, ra, u[i].calls[1].arg)
  BY DEF RedisKnown
<1>2. GoodJournal(j) /\ m \in Methods /\ m.n = 0 /\ u \in Seq(Methods)
  BY <1>1 DEF GoodJournal, Pruner, InTurn
<1>3. Longer(v, u, m)
  BY <1>2, LongerIs
<1>4. InTurn(j, d, es, v)
  BY <1>1, <1>2, <1>3, TurnLast
<1>5. \A p : Behind(j, es, v, p) = Behind(j, es, u, p)
  <2> TAKE p
  <2>1. \A x \in DOMAIN es : x # m.n
    BY <1>2, EntriesAre
  <2>2. \A x \in DOMAIN es : (\E i \in 1 .. Len(v) : v[i].n = x /\ Done(j, es, v[i]) < p) <=>
                             \E i \in 1 .. Len(u) : u[i].n = x /\ Done(j, es, u[i]) < p
    BY <1>3, <2>1 DEF Longer
  <2> QED
    BY <2>2 DEF Behind
<1>6. \A key : Waits(j, es, v, key) = Waits(j, es, u, key) /\ Pushed(j, es, v, lo, key) = Pushed(j, es, u, lo, key)
               /\ Trims(j, es, v, lo, key) = Trims(j, es, u, lo, key)
  BY <1>5 DEF Waits, Pushed, Trims
<1>7. \A key \in Keys(j) : /\ ListKnown(j, es, ls, v, lo, cu, ra, key)
                           /\ \A x \in Waits(j, es, v, key) : <<x, "push", key>> \notin lo
  BY <1>1, <1>6 DEF ListKnown
<1>8. ASSUME NEW i \in 1 .. Len(v), v[i].calls[1].op = "cut"
      PROVE  NextCut(j, d, es, ls, v, lo, ra, v[i].calls[1].arg)
  <2>1. i \in 1 .. Len(u) /\ v[i] = u[i]
    BY <1>3, <1>8 DEF Longer
  <2> QED
    BY <1>1, <1>6, <1>8, <2>1 DEF NextCut
<1> QED
  BY <1>1, <1>4, <1>7, <1>8 DEF RedisKnown

LEMMA RedisEnters ==
  ASSUME NEW j, GoodJournal(j), NEW d, NEW es, EntriesFit(j, d, es), NEW cu, NEW ra,
         NEW ls, NEW u, NEW lo, RedisKnown(j, d, es, ls, u, lo, cu, ra),
         NEW e, GoodEntry(j, e), e.ts = d, NEW fs, EntriesFit(j, d, fs), Entered(es, e, fs),
         NEW m, m = [n |-> Len(es) + 1, from |-> 0, calls |-> RedisCalls(j, e)], NEW v, v = Append(u, m)
  PROVE  RedisKnown(j, d, fs, ls, v, lo, cu, ra)
<1> DEFINE N == Len(es) + 1
           w == RedisCalls(j, e)
<1>1. /\ InTurn(j, d, es, u) /\ RedisLost(es, lo)
      /\ DOMAIN ls = Lists /\ \A key \in Lists \ Keys(j) : ls[key] = <<>>
      /\ \A key \in Keys(j) : /\ ListKnown(j, es, ls, u, lo, cu, ra, key)
                              /\ \A x \in Waits(j, es, u, key) : <<x, "push", key>> \notin lo
      /\ \A i \in 1 .. Len(u) : u[i].calls[1].op = "cut" => NextCut(j, d, es, ls, u, lo, ra, u[i].calls[1].arg)
  BY DEF RedisKnown
<1>2. /\ Len(fs) = N /\ fs[N] = e /\ DOMAIN es \subseteq DOMAIN fs /\ N \in DOMAIN fs
      /\ \A n \in DOMAIN fs : n \in DOMAIN es \/ n = N
      /\ \A n \in DOMAIN es : fs[n] = es[n] /\ n < N
  BY DEF Entered
<1>3. Len(es) \in Nat /\ N \in Nat /\ N # 0 /\ N \notin DOMAIN es /\ DOMAIN es = 1 .. Len(es)
  BY EntriesAre
<1>4. CallsFit(w, j, e) /\ w \in Seq(CallSet) /\ Len(w) \in Nat /\ 0 < Len(w)
  BY CallsDoFit DEF CallsFit
<1>5. m \in Methods /\ m.n = N /\ m.calls = w /\ u \in Seq(Methods)
  BY <1>1, <1>3, <1>4 DEF Methods, InTurn
<1> HIDE DEF N, w
<1>6. Longer(v, u, m)
  BY <1>5, LongerIs
<1>7. \A x : x.n \in DOMAIN es => Done(j, fs, x) = Done(j, es, x)
  BY <1>2 DEF Done
<1>8. \A x : Writer(j, d, es, x) => Writer(j, d, fs, x)
  <2> TAKE x
  <2> HAVE Writer(j, d, es, x)
  <2>1. x.n \in DOMAIN es /\ fs[x.n] = es[x.n] /\ x.n \in DOMAIN fs
    BY <1>2 DEF Writer
  <2>2. Done(j, fs, x) = Done(j, es, x)
    BY <1>7, <2>1
  <2> QED
    BY <2>1, <2>2 DEF Writer
<1>9. InTurn(j, d, fs, u)
  <2>1. /\ u \in Seq(Methods)
        /\ \A i \in 1 .. Len(u) : Writer(j, d, fs, u[i]) \/ Pruner(j, d, u[i])
        /\ \A i, k \in 1 .. Len(u) : u[i].n = u[k].n /\ u[i].n # 0 => i = k
    BY <1>1, <1>8 DEF InTurn
  <2>2. \A i \in 1 .. Len(u) : u[i].n \in Nat /\ (u[i].n # 0 => Done(j, fs, u[i]) = Done(j, es, u[i]))
    BY <1>1, <1>7, DoneIs
  <2>3. \A i, k \in 1 .. Len(u) : u[i].n # 0 /\ u[i].n < u[k].n =>
          \/ Done(j, es, u[k]) < Done(j, es, u[i])
          \/ Done(j, es, u[k]) = Done(j, es, u[i]) /\ i < k
    BY <1>1 DEF InTurn
  <2>4. \A i, k \in 1 .. Len(u) : u[i].n # 0 /\ u[i].n < u[k].n =>
          \/ Done(j, fs, u[k]) < Done(j, fs, u[i])
          \/ Done(j, fs, u[k]) = Done(j, fs, u[i]) /\ i < k
    <3> SUFFICES ASSUME NEW i \in 1 .. Len(u), NEW k \in 1 .. Len(u), u[i].n # 0, u[i].n < u[k].n
                 PROVE  \/ Done(j, fs, u[k]) < Done(j, fs, u[i])
                        \/ Done(j, fs, u[k]) = Done(j, fs, u[i]) /\ i < k
      OBVIOUS
    <3>1. u[k].n # 0
      BY <2>2
    <3> QED
      BY <2>2, <2>3, <3>1
  <2> QED
    BY <2>1, <2>4 DEF InTurn
<1>10. Done(j, fs, m) = 0 /\ Writer(j, d, fs, m)
  <2>1. RedisCalls(j, fs[m.n]) = w
    BY <1>2, <1>5 DEF w
  <2>2. Done(j, fs, m) = 0
    BY <1>4, <1>5, <2>1 DEF Done
  <2>3. \A i \in 1 .. Len(m.calls) : m.calls[i] = w[0 + i]
    BY <1>5
  <2>4. Len(m.calls) \in 1 .. Len(w)
    BY <1>4, <1>5
  <2> QED
    BY <1>2, <1>5, <2>1, <2>2, <2>3, <2>4 DEF Writer
<1>11. InTurn(j, d, fs, v)
  <2>1. \A i \in 1 .. Len(u) : u[i].n < m.n
    <3> TAKE i \in 1 .. Len(u)
    <3>1. u[i].n = 0 \/ u[i].n \in DOMAIN es
      BY <1>1, DoneIs
    <3> QED
      BY <1>2, <1>3, <1>5, <3>1
  <2> QED
    BY <1>6, <1>9, <1>10, <2>1, TurnLast
<1>12. \A p \in Nat : \A x \in DOMAIN fs :
         x \in Behind(j, fs, v, p) <=> x \in Behind(j, es, u, p) \/ (x = N /\ 0 < p)
  <2> TAKE p \in Nat
  <2> TAKE x \in DOMAIN fs
  <2>4. x \in Behind(j, fs, v, p) <=> x \in DOMAIN fs /\ \E i \in 1 .. Len(v) : v[i].n = x /\ Done(j, fs, v[i]) < p
    BY DEF Behind
  <2>5. x \in Behind(j, es, u, p) <=> x \in DOMAIN es /\ \E i \in 1 .. Len(u) : u[i].n = x /\ Done(j, es, u[i]) < p
    BY DEF Behind
  <2>1. \A i \in 1 .. Len(u) : u[i].n # N
    <3> TAKE i \in 1 .. Len(u)
    <3>1. u[i].n = 0 \/ u[i].n \in DOMAIN es
      BY <1>1, DoneIs
    <3> QED
      BY <1>3, <3>1
  <2>2. CASE x = N
    <3>1. (\E i \in 1 .. Len(v) : v[i].n = x /\ Done(j, fs, v[i]) < p) <=> 0 < p
      BY <1>5, <1>6, <1>10, <2>1, <2>2 DEF Longer
    <3> QED
      BY <1>3, <2>2, <2>4, <2>5, <3>1
  <2>3. CASE x # N
    <3>1. x \in DOMAIN es /\ x # m.n
      BY <1>2, <1>5, <2>3
    <3>2. (\E i \in 1 .. Len(v) : v[i].n = x /\ Done(j, fs, v[i]) < p) <=>
          \E i \in 1 .. Len(u) : u[i].n = x /\ Done(j, es, u[i]) < p
      <4>1. /\ \A i \in 1 .. Len(u) : v[i] = u[i] /\ i \in 1 .. Len(v)
            /\ \A i \in 1 .. Len(v) : i \in 1 .. Len(u) \/ v[i] = m
        BY <1>6 DEF Longer
      <4>2. \A i \in 1 .. Len(u) : u[i].n = x => Done(j, fs, v[i]) = Done(j, es, u[i])
        BY <1>7, <3>1, <4>1
      <4> QED
        BY <3>1, <4>1, <4>2
    <3> QED
      BY <1>3, <2>3, <2>4, <2>5, <3>1, <3>2
  <2> QED
    BY <2>2, <2>3
<1>13. \A p : Behind(j, es, u, p) \subseteq DOMAIN es /\ Behind(j, fs, v, p) \subseteq DOMAIN fs
  BY DEF Behind
<1>14. ASSUME NEW key \in Keys(j)
       PROVE  /\ \A x \in Waits(j, fs, v, key) : x \in Waits(j, es, u, key) \/ x = N
              /\ Pushed(j, fs, v, lo, key) = Pushed(j, es, u, lo, key)
              /\ Trims(j, es, u, lo, key) \subseteq Trims(j, fs, v, lo, key)
  <2>1. Place(j, key) \in Nat /\ Place(j, key) + 1 \in Nat /\ 0 < Place(j, key)
    BY DEF Place
  <2>2. /\ \A x \in DOMAIN fs : x \in Behind(j, fs, v, Place(j, key)) <=> x \in Behind(j, es, u, Place(j, key)) \/ x = N
        /\ \A x \in DOMAIN es : x \in Behind(j, es, u, Place(j, key) + 1) => x \in Behind(j, fs, v, Place(j, key) + 1)
    BY <1>2, <1>12, <2>1
  <2>3. \A x \in Waits(j, fs, v, key) : x \in Waits(j, es, u, key) \/ x = N
    BY <1>2, <1>13, <2>2 DEF Waits
  <2>4. Pushed(j, fs, v, lo, key) = Pushed(j, es, u, lo, key)
    BY <1>2, <1>3, <2>2 DEF Pushed
  <2>5. Trims(j, es, u, lo, key) \subseteq Trims(j, fs, v, lo, key)
    BY <1>2, <2>2 DEF Trims
  <2> QED
    BY <2>3, <2>4, <2>5
<1>15. \A n \in DOMAIN es : fs[n] = es[n] /\ n < N
  BY <1>2
<1>16. ASSUME NEW key \in Keys(j) PROVE ListKnown(j, fs, ls, v, lo, cu, ra, key)
  <2> DEFINE s == ls[key]
             P == Pushed(j, es, u, lo, key)
             W == Waits(j, es, u, key)
             V == Waits(j, fs, v, key)
             T == Trims(j, es, u, lo, key)
             U == Trims(j, fs, v, lo, key)
             cap == Length(j, key)
             bar == Bar(key, cu)
             r == Missed(key, ra)
  <2>1. KeyKnown(s, P, W, T, cap, es, bar, r)
    BY <1>1, <1>16 DEF ListKnown
  <2>2. \A n \in P : fs[n] = es[n] /\ n < N
    BY <1>15 DEF Pushed
  <2>3. \A i \in 1 .. Len(s) : \A x \in V : s[i] < x
    <3>1. \A i \in 1 .. Len(s) : s[i] \in P /\ \A x \in W : s[i] < x
      <4>1. s \in Seq(P) /\ \A i \in 1 .. Len(s) : \A x \in W : s[i] < x
        BY <2>1 DEF KeyKnown
      <4> HIDE DEF P, s, W
      <4> QED
        BY <4>1, ElementOfSeq
    <3>2. \A x \in V : x \in W \/ x = N
      BY <1>14
    <3> QED
      BY <2>2, <3>1, <3>2
  <2>4. T \subseteq U /\ Pushed(j, fs, v, lo, key) = P
    BY <1>14
  <2> HIDE DEF s, P, W, V, T, U, cap, bar, r
  <2>5. KeyKnown(s, P, V, T, cap, fs, bar, r)
    BY <2>1, <2>2, <2>3, EntryKnown
  <2>6. KeyKnown(s, P, V, U, cap, fs, bar, r)
    BY <2>4, <2>5, WaitKnown
  <2> QED
    BY <2>4, <2>6 DEF ListKnown, s, P, V, U, cap, bar, r
<1>17. ASSUME NEW key \in Keys(j), NEW x \in Waits(j, fs, v, key) PROVE <<x, "push", key>> \notin lo
  <2>1. CASE x \in Waits(j, es, u, key) BY <1>1, <2>1
  <2>2. CASE x = N
    <3>1. N \notin 0 .. Len(es)
      BY <1>3 DEF N
    <3> QED
      BY <1>1, <2>2, <3>1 DEF RedisLost
  <2> QED
    BY <1>14, <1>17, <2>1, <2>2
<1>18. ASSUME NEW i \in 1 .. Len(v), v[i].calls[1].op = "cut"
       PROVE  NextCut(j, d, fs, ls, v, lo, ra, v[i].calls[1].arg)
  <2>1. i \in 1 .. Len(u) /\ v[i] = u[i]
    <3>1. m.calls[1].op \in {"push", "trim"}
      BY <1>10, CallIs
    <3> QED
      BY <1>6, <1>18, <3>1 DEF Longer
  <2>2. All \in Keys(j)
    <3>1. Writer(j, d, es, u[i]) \/ Pruner(j, d, u[i])
      BY <1>1, <2>1 DEF InTurn
    <3>2. j = "audit"
      BY <1>18, <2>1, <3>1, CutIsPrune
    <3> QED
      BY <3>2, KeysAre
  <2> DEFINE s == ls[All]
             P == Pushed(j, es, u, lo, All)
             k == u[i].calls[1].arg
             from == d - Retention
  <2>3. CutKnown(s, P, LogCap, es, from, k, ra)
    BY <1>1, <1>18, <2>1 DEF NextCut
  <2>4. s \in Seq(P)
    BY <1>1, <2>2 DEF ListKnown, KeyKnown
  <2>5. \A n \in P : fs[n] = es[n]
    BY <1>15 DEF Pushed
  <2>6. Pushed(j, fs, v, lo, All) = P
    BY <1>14, <2>2
  <2> HIDE DEF s, P, k, from
  <2>7. CutKnown(s, P, LogCap, fs, from, k, ra)
    BY <2>3, <2>4, <2>5, EntryCut
  <2> QED
    BY <2>1, <2>6, <2>7 DEF NextCut, s, P, k, from
<1>19. RedisLost(fs, lo)
  <2>1. 0 .. Len(es) \subseteq 0 .. Len(fs)
    BY <1>2, <1>3 DEF N
  <2> QED
    BY <1>1, <2>1 DEF RedisLost
<1> QED
  BY <1>1, <1>11, <1>16, <1>17, <1>18, <1>19 DEF RedisKnown


-----------------------------------------------------------------------------
(* The first day, and the next *)

LEMMA EmptyTurn ==
  ASSUME NEW j, NEW d, NEW es
  PROVE  /\ InTurn(j, d, es, <<>>) /\ \A p : Behind(j, es, <<>>, p) = {}
         /\ \A key : Waits(j, es, <<>>, key) = {}
<1>1. <<>> \in Seq(Methods) /\ Len(<<>>) = 0 /\ 1 .. 0 = {}
  OBVIOUS
<1>2. \A p : Behind(j, es, <<>>, p) = {}
  BY <1>1 DEF Behind
<1> QED
  BY <1>1, <1>2 DEF InTurn, Waits

LEMMA RedisDay ==
  ASSUME NEW j, NEW d, NEW es, NEW cu, NEW ra, NEW ls, NEW lo, RedisKnown(j, d, es, ls, <<>>, lo, cu, ra), NEW f
  PROVE  RedisKnown(j, f, es, ls, <<>>, lo, cu, ra)
<1>1. InTurn(j, f, es, <<>>) /\ 1 .. Len(<<>>) = {}
  BY EmptyTurn
<1> QED
  BY <1>1 DEF RedisKnown

LEMMA EntriesNextDay ==
  ASSUME NEW j, NEW d, NEW es, EntriesFit(j, d, es), d < MaxDay
  PROVE  EntriesFit(j, d + 1, es) /\ \A cu, ra : Times(d, cu, ra) => Times(d + 1, cu, ra)
<1>1. MaxDay \in Nat /\ Retention \in Nat
  BY JournalAssumption DEF JournalAssumption
<1>2. d \in Nat /\ d + 1 \in 0 .. MaxDay /\ \A n \in DOMAIN es : es[n].ts \in Nat /\ es[n].ts <= d
  BY <1>1, EntriesAre
<1>3. \A n \in DOMAIN es : es[n].ts <= d + 1
  BY <1>2
<1>4. \A cu, ra : Times(d, cu, ra) => Times(d + 1, cu, ra)
  BY <1>1, <1>2 DEF Times
<1> QED
  BY <1>2, <1>3, <1>4 DEF EntriesFit

LEMMA EntriesFirst ==
  ASSUME NEW j
  PROVE  EntriesFit(j, 0, <<>>) /\ Times(0, -Retention, 0) /\ -Retention \in -Retention .. MaxDay
<1>1. MaxDay \in Nat /\ Retention \in Nat /\ MaxEntries \in Nat
  BY JournalAssumption DEF JournalAssumption
<1>2. Len(<<>>) = 0 /\ DOMAIN <<>> = {} /\ 0 \in 0 .. MaxDay /\ 0 <= MaxEntries
  BY <1>1
<1>3. <<>> \in Seq([ts : 0 .. MaxDay, who : Whos \union {NoEntity}, what : Whats])
  OBVIOUS
<1>4. EntriesFit(j, 0, <<>>)
  BY <1>2, <1>3 DEF EntriesFit
<1>5. Times(0, -Retention, 0) /\ -Retention \in -Retention .. MaxDay
  BY <1>1 DEF Times
<1> QED
  BY <1>4, <1>5

LEMMA RedisFirst ==
  ASSUME NEW j, GoodJournal(j), NEW ls, ls = [key \in Lists |-> <<>>]
  PROVE  RedisKnown(j, 0, <<>>, ls, <<>>, {}, -Retention, 0)
<1> DEFINE bar(key) == Bar(key, -Retention)
<1>1. /\ InTurn(j, 0, <<>>, <<>>) /\ 1 .. Len(<<>>) = {} /\ RedisLost(<<>>, {})
      /\ DOMAIN ls = Lists /\ \A key \in Lists : ls[key] = <<>>
  BY EmptyTurn DEF RedisLost
<1>2. ASSUME NEW key \in Keys(j)
      PROVE  /\ ListKnown(j, <<>>, ls, <<>>, {}, -Retention, 0, key)
             /\ Waits(j, <<>>, <<>>, key) = {}
  <2>1. key \in Lists /\ ls[key] = <<>> /\ Length(j, key) \in Nat
    BY <1>1, KeysAre
  <2> DEFINE P == Pushed(j, <<>>, <<>>, {}, key)
             W == Waits(j, <<>>, <<>>, key)
             T == Trims(j, <<>>, <<>>, {}, key)
             cap == Length(j, key)
             r == Missed(key, 0)
  <2>2. P = {} /\ W = {} /\ r = 0
    <3>1. DOMAIN <<>> = {}
      OBVIOUS
    <3> QED
      BY <3>1, EmptyTurn DEF Pushed, Missed
  <2> HIDE DEF P, W, T, cap, r
  <2>3. Top(P, cap, <<>>, bar(key)) = {}
    BY <2>2 DEF Top
  <2>4. \A F : Cardinality(Top(P, cap, <<>>, bar(key)) \ F) = 0
    <3> TAKE F
    <3>1. Top(P, cap, <<>>, bar(key)) \ F = {}
      BY <2>3
    <3> QED
      BY <3>1, FS_EmptySet
  <2> DEFINE s == ls[key]
  <2>5. s \in Seq(P) /\ Len(s) = 0 /\ 1 .. Len(s) = {} /\ ~(Len(s) > cap)
    BY <2>1 DEF cap
  <2>7. Cardinality(Top(P, cap, <<>>, bar(key)) \ Firsts(s, Len(s))) <= r
    <3>1. Cardinality(Top(P, cap, <<>>, bar(key)) \ Firsts(s, Len(s))) = 0
      BY <2>4
    <3> QED
      BY <2>2, <3>1
  <2> HIDE DEF s, bar
  <2>8. Sinks(s)
    BY <2>5 DEF Sinks
  <2>6. KeyKnown(s, P, W, T, cap, <<>>, bar(key), r)
    BY <2>5, <2>7, <2>8 DEF KeyKnown
  <2> QED
    BY <2>2, <2>6 DEF ListKnown, P, W, T, cap, r, s, bar
<1> QED
  BY <1>1, <1>2 DEF RedisKnown

-----------------------------------------------------------------------------
(* The table *)

\* A method whose row is on its way to the table, and one whose DELETE is.
SqlWriter(d, es, m) == m.n \in DOMAIN es /\ es[m.n].ts = d /\ m.calls = OneRow
SqlPruner(j, d, m) == m.n = 0 /\ j = "audit" /\ m.from = d - Retention /\ m.calls = <<Call("delete", All, m.from)>>

\* The entries whose calls are under way.
Inserts(u) == {u[i].n : i \in 1 .. Len(u)} \ {0}

\* The methods that wait for the table, in any order, one for an entry.
SqlQueue(j, d, es, u) ==
  /\ u \in Seq(Methods)
  /\ \A i \in 1 .. Len(u) : SqlWriter(d, es, u[i]) \/ SqlPruner(j, d, u[i])
  /\ \A i, k \in 1 .. Len(u) : u[i].n = u[k].n /\ u[i].n # 0 => i = k
\* The calls the table can lose; those whose row is lost.
SqlLost(es, lo) == lo \in SUBSET ((0 .. Len(es)) \X {"insert", "delete"} \X {All})
Gone(n, lo) == <<n, "insert", All>> \in lo

\* The table has every entry that no call is under way for, but for the lost and the old.
TableKnown(es, tb, I, lo, cu) ==
  /\ tb \in Seq(DOMAIN es) /\ \A i, k \in 1 .. Len(tb) : tb[i] = tb[k] => i = k
  /\ \A i \in 1 .. Len(tb) : tb[i] \notin I /\ ~Gone(tb[i], lo) /\ es[tb[i]].ts >= cu
  /\ \A n \in DOMAIN es : es[n].ts < cu \/ Gone(n, lo) \/ n \in I \/ \E i \in 1 .. Len(tb) : tb[i] = n
  /\ \A n \in I : n \in DOMAIN es /\ ~Gone(n, lo)
\* What is known of the table and of the methods that wait for it.
SqlKnown(j, d, es, tb, u, lo, cu) == SqlQueue(j, d, es, u) /\ SqlLost(es, lo) /\ TableKnown(es, tb, Inserts(u), lo, cu)

LEMMA OneRowIs ==
  /\ OneRow \in Seq(CallSet) /\ Len(OneRow) = 1 /\ OneRow[1] = Call("insert", All, 0) /\ Head(OneRow) = Call("insert", All, 0)
  /\ Tail(OneRow) = <<>> /\ All \in Lists
  /\ \A f \in Int : LET w == <<Call("delete", All, f)>> IN
       /\ w \in Seq(CallSet) /\ Len(w) = 1 /\ w[1] = Call("delete", All, f) /\ Head(w) = Call("delete", All, f) /\ Tail(w) = <<>>
<1>1. All \in Lists
  BY DEF Lists, Filters
<1>2. Call("insert", All, 0) \in CallSet /\ \A f \in Int : Call("delete", All, f) \in CallSet
  BY <1>1 DEF Call, CallSet
<1>3. \A c \in CallSet : /\ <<c>> \in Seq(CallSet) /\ Len(<<c>>) = 1 /\ <<c>>[1] = c /\ Head(<<c>>) = c /\ Tail(<<c>>) = <<>>
  OBVIOUS
<1> QED
  BY <1>1, <1>2, <1>3 DEF OneRow

\* What is not called of a method.
LEMMA SqlUnmade ==
  ASSUME NEW j, NEW d, NEW es, EntriesFit(j, d, es), NEW m \in Methods, SqlWriter(d, es, m) \/ SqlPruner(j, d, m)
  PROVE  /\ m.n \in Nat /\ Unmade(m) \in SUBSET ((0 .. Len(es)) \X {"insert", "delete"} \X {All})
         /\ \A n : n # 0 => (Gone(n, Unmade(m)) <=> n = m.n)
<1>1. m.n \in Nat /\ m.from \in Int /\ Len(es) \in Nat /\ DOMAIN es = 1 .. Len(es) /\ 0 \notin DOMAIN es
  BY EntriesAre DEF Methods
<1>2. DOMAIN m.calls = {1} /\ m.n \in 0 .. Len(es)
      /\ ((m.calls[1] = Call("insert", All, 0) /\ m.n # 0) \/ (m.calls[1] = Call("delete", All, m.from) /\ m.n = 0))
  <2>1. m.calls \in Seq(CallSet) /\ Len(m.calls) = 1
        /\ ((m.calls[1] = Call("insert", All, 0) /\ m.n # 0) \/ (m.calls[1] = Call("delete", All, m.from) /\ m.n = 0))
    <3>1. CASE SqlWriter(d, es, m)
      <4>1. m.calls = OneRow /\ m.n # 0
        BY <1>1, <3>1 DEF SqlWriter
      <4> QED
        BY <4>1, OneRowIs
    <3>2. CASE SqlPruner(j, d, m)
      <4>1. m.calls = <<Call("delete", All, m.from)>> /\ m.n = 0
        BY <3>2 DEF SqlPruner
      <4>2. /\ <<Call("delete", All, m.from)>> \in Seq(CallSet) /\ Len(<<Call("delete", All, m.from)>>) = 1
            /\ <<Call("delete", All, m.from)>>[1] = Call("delete", All, m.from)
        BY <1>1, OneRowIs
      <4> QED
        BY <4>1, <4>2
    <3> QED
      BY <3>1, <3>2
  <2>2. DOMAIN m.calls = 1 .. 1 /\ 1 .. 1 = {1}
    BY <2>1
  <2>3. m.n \in 0 .. Len(es)
    BY <1>1 DEF SqlWriter, SqlPruner
  <2> QED
    BY <2>1, <2>2, <2>3
<1>3. Unmade(m) = {<<m.n, m.calls[1].op, m.calls[1].key>>}
  BY <1>2 DEF Unmade
<1>4. m.calls[1].key = All /\ ((m.calls[1].op = "insert" /\ m.n # 0) \/ (m.calls[1].op = "delete" /\ m.n = 0))
  BY <1>2 DEF Call
<1> QED
  BY <1>1, <1>2, <1>3, <1>4 DEF Gone

LEMMA InsertsIs ==
  ASSUME NEW j, NEW d, NEW es, EntriesFit(j, d, es), NEW u, SqlQueue(j, d, es, u)
  PROVE  /\ Inserts(u) \subseteq DOMAIN es /\ Len(u) \in Nat
         /\ \A i \in 1 .. Len(u) : u[i] \in Methods /\ u[i].n \in Nat /\ u[i].from \in Int
         /\ \A n : n \in Inserts(u) <=> n # 0 /\ \E i \in 1 .. Len(u) : u[i].n = n
<1>1. u \in Seq(Methods) /\ Len(u) \in Nat /\ \A i \in 1 .. Len(u) : SqlWriter(d, es, u[i]) \/ SqlPruner(j, d, u[i])
  BY DEF SqlQueue
<1>2. \A i \in 1 .. Len(u) : u[i] \in Methods
  BY <1>1, ElementOfSeq
<1>3. \A m \in Methods : m.n \in Nat /\ m.from \in Int
  BY DEF Methods
<1>4. \A i \in 1 .. Len(u) : u[i].n # 0 => u[i].n \in DOMAIN es
  BY <1>1 DEF SqlWriter, SqlPruner
<1> QED
  BY <1>1, <1>2, <1>3, <1>4 DEF Inserts

\* s has an element once; t has the elements of s that are kept.
Once(s, S) == s \in Seq(S) /\ \A i, k \in 1 .. Len(s) : s[i] = s[k] => i = k
Leaves(t, s, kept) ==
  /\ \A i \in 1 .. Len(t) : t[i] \in kept /\ \E k \in 1 .. Len(s) : s[k] = t[i]
  /\ \A k \in 1 .. Len(s) : s[k] \in kept => \E i \in 1 .. Len(t) : t[i] = s[k]

\* What a DELETE leaves.
LEMMA OnlyIs ==
  ASSUME NEW S, NEW s, Once(s, S), NEW kept, NEW t, t = Only(s, kept)
  PROVE  Once(t, S) /\ Leaves(t, s, kept)
<1> DEFINE places == {i \in DOMAIN s : s[i] \in kept}
           R == {p \in places \X places : p[1] < p[2]}
           o == Ascending(places)
           n == Cardinality(places)
<1>0. s \in Seq(S) /\ \A i, k \in 1 .. Len(s) : s[i] = s[k] => i = k
  BY DEF Once
<1>1. DOMAIN s = 1 .. Len(s) /\ Len(s) \in Nat /\ \A i \in 1 .. Len(s) : s[i] \in S
  BY <1>0, ElementOfSeq
<1>2. places \subseteq 1 .. Len(s) /\ IsFiniteSet(places)
  BY <1>1, OneToN, FS_Subset
<1>3. StrictOrder(places, R) /\ \A x, y \in places : <<x, y>> \in R <=> x < y
  <2>1. \A x \in places : x \in Nat
    BY <1>1, <1>2
  <2>2. \A x, y \in places : <<x, y>> \in R <=> x < y
    OBVIOUS
  <2> HIDE DEF places, R
  <2> QED
    BY <2>1, <2>2 DEF StrictOrder
<1>4. t = [k \in DOMAIN o |-> s[o[k]]]
  <2>1. places = {i \in DOMAIN s : s[i] \in kept}
    OBVIOUS
  <2> HIDE DEF places
  <2> QED
    BY <2>1, OnlyAscends
<1> HIDE DEF places, R, o
<1>5. n \in Nat /\ Enumerates(o, places, R) /\ \A i, k \in 1 .. n : o[i] = o[k] => i = k
  <2>1. o = Sorted(places, R)
    BY <1>2, <1>3, AscendingIs DEF o
  <2> QED
    BY <1>2, <1>3, <2>1, SortedIs
<1>6. o \in [1 .. n -> places] /\ \A x \in places : \E i \in 1 .. n : o[i] = x
  BY <1>5 DEF Enumerates
<1> HIDE DEF n
<1>7. DOMAIN o = 1 .. n /\ \A k \in 1 .. n : o[k] \in 1 .. Len(s) /\ o[k] \in places
  BY <1>2, <1>6
<1>8. t = [k \in 1 .. n |-> s[o[k]]] /\ \A k \in 1 .. n : s[o[k]] \in S
  BY <1>1, <1>4, <1>7
<1>9. t \in [1 .. n -> S] /\ \A k \in 1 .. n : t[k] = s[o[k]]
  BY <1>8
<1>10. t \in Seq(S) /\ Len(t) = n
  BY <1>5, <1>9
<1>11. \A i \in places : s[i] \in kept
  BY DEF places
<1>12. \A k \in 1 .. Len(s) : s[k] \in kept => k \in places
  BY <1>1 DEF places
<1>13. \A i, k \in 1 .. n : t[i] = t[k] => i = k
  BY <1>0, <1>5, <1>7, <1>9
<1>14. \A i \in 1 .. n : t[i] \in kept /\ \E k \in 1 .. Len(s) : s[k] = t[i]
  BY <1>7, <1>9, <1>11
<1>15. ASSUME NEW k \in 1 .. Len(s), s[k] \in kept PROVE \E i \in 1 .. n : t[i] = s[k]
  <2>1. PICK i \in 1 .. n : o[i] = k
    BY <1>6, <1>12, <1>15
  <2> QED
    BY <1>9, <2>1
<1> QED
  BY <1>10, <1>13, <1>14, <1>15 DEF Once, Leaves

\* A call leaves the queue.
LEMMA QueueLoses ==
  ASSUME NEW j, NEW d, NEW es, EntriesFit(j, d, es), NEW u, SqlQueue(j, d, es, u), NEW i \in 1 .. Len(u),
         NEW v, Removed(v, u, i)
  PROVE  SqlQueue(j, d, es, v) /\ Inserts(v) = Inserts(u) \ {u[i].n}
<1> DEFINE OK(m) == SqlWriter(d, es, m) \/ SqlPruner(j, d, m)
           at(k) == IF k < i THEN k ELSE k + 1
<1>1. /\ u \in Seq(Methods) /\ \A k \in 1 .. Len(u) : OK(u[k])
      /\ \A k, l \in 1 .. Len(u) : u[k].n = u[l].n /\ u[k].n # 0 => k = l
  BY DEF SqlQueue
<1>2. v \in Seq(Methods) /\ Len(v) = Len(u) - 1 /\ Len(u) \in Nat /\ \A k \in 1 .. Len(v) : v[k] = IF k < i THEN u[k] ELSE u[k + 1]
  BY DEF Removed
<1>3. \A k \in 1 .. Len(v) : at(k) \in 1 .. Len(u) /\ at(k) # i /\ v[k] = u[at(k)]
  BY <1>2
<1>4. \A k, l \in 1 .. Len(v) : at(k) = at(l) => k = l
  BY <1>2
<1>5. \A k \in 1 .. Len(u) : k # i => \E l \in 1 .. Len(v) : at(l) = k
  <2> TAKE k \in 1 .. Len(u)
  <2> HAVE k # i
  <2>1. CASE k < i
    <3>1. k \in 1 .. Len(v) /\ at(k) = k
      BY <1>2, <2>1
    <3> QED
      BY <3>1
  <2>2. CASE ~(k < i)
    <3>1. k - 1 \in 1 .. Len(v) /\ at(k - 1) = k
      BY <1>2, <2>2
    <3> QED
      BY <3>1
  <2> QED
    BY <2>1, <2>2
<1> HIDE DEF OK, at
<1>6. SqlQueue(j, d, es, v)
  <2>1. \A k \in 1 .. Len(v) : OK(v[k])
    BY <1>1, <1>3
  <2>2. ASSUME NEW k \in 1 .. Len(v), NEW l \in 1 .. Len(v), v[k].n = v[l].n, v[k].n # 0 PROVE k = l
    <3>1. at(k) = at(l)
      BY <1>1, <1>3, <2>2
    <3> QED
      BY <1>4, <3>1
  <2> QED
    BY <1>2, <2>1, <2>2 DEF SqlQueue, OK
<1>7. ASSUME NEW n PROVE n \in Inserts(v) <=> n \in Inserts(u) /\ n # u[i].n
  <2>1. n \in Inserts(v) => n \in Inserts(u) /\ n # u[i].n
    <3> HAVE n \in Inserts(v)
    <3>1. PICK k \in 1 .. Len(v) : v[k].n = n /\ n # 0
      BY <1>6, InsertsIs
    <3>2. at(k) \in 1 .. Len(u) /\ u[at(k)].n = n /\ at(k) # i
      BY <1>3, <3>1
    <3>3. n # u[i].n
      BY <1>1, <3>1, <3>2
    <3> QED
      BY <3>1, <3>2, <3>3, InsertsIs
  <2>2. n \in Inserts(u) /\ n # u[i].n => n \in Inserts(v)
    <3> HAVE n \in Inserts(u) /\ n # u[i].n
    <3>1. PICK k \in 1 .. Len(u) : u[k].n = n /\ n # 0
      BY InsertsIs
    <3>2. PICK l \in 1 .. Len(v) : at(l) = k
      BY <1>5, <3>1
    <3>3. v[l].n = n
      BY <1>3, <3>1, <3>2
    <3> QED
      BY <1>6, <3>1, <3>3, InsertsIs
  <2> QED
    BY <2>1, <2>2
<1> QED
  BY <1>6, <1>7

\* A method that waits for the table goes on and is done.
SqlGoesOn(j, d, es, tb, u, lo, cu, ra, i, v) ==
  /\ EntriesFit(j, d, es) /\ Times(d, cu, ra) /\ SqlKnown(j, d, es, tb, u, lo, cu) /\ i \in 1 .. Len(u) /\ Removed(v, u, i)

LEMMA SqlInserts ==
  ASSUME NEW j, NEW d, NEW es, NEW tb, NEW u, NEW lo, NEW cu, NEW ra, NEW i, NEW v,
         SqlGoesOn(j, d, es, tb, u, lo, cu, ra, i, v), SqlWriter(d, es, u[i]), NEW tc, tc = Append(tb, u[i].n)
  PROVE  SqlKnown(j, d, es, tc, v, lo, cu)
<1> DEFINE n == u[i].n
           I == Inserts(u)
           J == Inserts(v)
<1>1. /\ EntriesFit(j, d, es) /\ SqlQueue(j, d, es, u) /\ SqlLost(es, lo) /\ TableKnown(es, tb, I, lo, cu)
      /\ i \in 1 .. Len(u) /\ Removed(v, u, i) /\ cu \in Int /\ cu <= d - Retention
  BY DEF SqlGoesOn, SqlKnown, Times
<1>2. n \in DOMAIN es /\ es[n].ts = d /\ n # 0 /\ d \in Nat
  BY <1>1, EntriesAre DEF SqlWriter
<1>3. n \in I
  BY <1>1, <1>2, InsertsIs
<1>4. SqlQueue(j, d, es, v) /\ J = I \ {n}
  BY <1>1, QueueLoses
<1>5. es[n].ts >= cu
  BY <1>1, <1>2, JournalAssumption DEF JournalAssumption
<1>6. /\ tb \in Seq(DOMAIN es) /\ \A k, l \in 1 .. Len(tb) : tb[k] = tb[l] => k = l
      /\ \A k \in 1 .. Len(tb) : tb[k] \notin I /\ ~Gone(tb[k], lo) /\ es[tb[k]].ts >= cu
      /\ \A m \in DOMAIN es : es[m].ts < cu \/ Gone(m, lo) \/ m \in I \/ \E k \in 1 .. Len(tb) : tb[k] = m
      /\ \A m \in I : m \in DOMAIN es /\ ~Gone(m, lo)
  BY <1>1 DEF TableKnown
<1> HIDE DEF n, I, J
<1>7. /\ tc \in Seq(DOMAIN es) /\ Len(tc) = Len(tb) + 1 /\ tc[Len(tb) + 1] = n /\ Len(tb) \in Nat
      /\ \A k \in 1 .. Len(tb) : tc[k] = tb[k]
  <2>1. tc = Append(tb, n)
    BY DEF n
  <2> QED
    BY <1>2, <1>6, <2>1, AppendProperties
<1>8. /\ \A k \in 1 .. Len(tc) : k \in 1 .. Len(tb) \/ k = Len(tb) + 1
      /\ \A k \in 1 .. Len(tb) : k \in 1 .. Len(tc)
      /\ Len(tb) + 1 \in 1 .. Len(tc)
  BY <1>7
<1>9. TableKnown(es, tc, J, lo, cu)
  <2>1. \A k, l \in 1 .. Len(tc) : tc[k] = tc[l] => k = l
    <3>1. \A k \in 1 .. Len(tb) : tb[k] # n
      BY <1>3, <1>6
    <3> QED
      BY <1>6, <1>7, <1>8, <3>1
  <2>2. \A k \in 1 .. Len(tc) : tc[k] \notin J /\ ~Gone(tc[k], lo) /\ es[tc[k]].ts >= cu
    BY <1>3, <1>4, <1>5, <1>6, <1>7, <1>8
  <2>3. \A m \in DOMAIN es : es[m].ts < cu \/ Gone(m, lo) \/ m \in J \/ \E k \in 1 .. Len(tc) : tc[k] = m
    <3> TAKE m \in DOMAIN es
    <3>1. CASE m = n BY <1>7, <1>8, <3>1
    <3>2. CASE m # n
      <4>1. es[m].ts < cu \/ Gone(m, lo) \/ m \in I \/ \E k \in 1 .. Len(tb) : tb[k] = m
        BY <1>6
      <4>2. m \in I => m \in J
        BY <1>4, <3>2
      <4>3. (\E k \in 1 .. Len(tb) : tb[k] = m) => \E k \in 1 .. Len(tc) : tc[k] = m
        BY <1>7, <1>8
      <4> QED
        BY <4>1, <4>2, <4>3
    <3> QED
      BY <3>1, <3>2
  <2>4. \A m \in J : m \in DOMAIN es /\ ~Gone(m, lo)
    BY <1>4, <1>6
  <2> QED
    BY <1>7, <2>1, <2>2, <2>3, <2>4 DEF TableKnown
<1> QED
  BY <1>1, <1>4, <1>9 DEF SqlKnown, J

LEMMA SqlDeletes ==
  ASSUME NEW j, NEW d, NEW es, NEW tb, NEW u, NEW lo, NEW cu, NEW ra, NEW i, NEW v,
         SqlGoesOn(j, d, es, tb, u, lo, cu, ra, i, v), SqlPruner(j, d, u[i]), NEW from, from = u[i].from,
         NEW tc, tc = Only(tb, {n \in DOMAIN es : es[n].ts >= from})
  PROVE  SqlKnown(j, d, es, tc, v, lo, from)
<1> DEFINE I == Inserts(u)
           J == Inserts(v)
           kept == {n \in DOMAIN es : es[n].ts >= from}
<1>1. /\ EntriesFit(j, d, es) /\ SqlQueue(j, d, es, u) /\ SqlLost(es, lo) /\ TableKnown(es, tb, I, lo, cu)
      /\ i \in 1 .. Len(u) /\ Removed(v, u, i) /\ cu \in Int /\ cu <= d - Retention
  BY DEF SqlGoesOn, SqlKnown, Times
<1>2. u[i].n = 0 /\ from = d - Retention
  BY DEF SqlPruner
<1>3. SqlQueue(j, d, es, v) /\ J = I
  <2>1. J = I \ {u[i].n}
    BY <1>1, QueueLoses
  <2>2. 0 \notin I
    BY DEF Inserts
  <2> QED
    BY <1>1, <1>2, <2>1, <2>2, QueueLoses
<1>4. cu <= from /\ from \in Int /\ \A n \in DOMAIN es : es[n].ts \in Int
  BY <1>1, <1>2, EntriesAre, JournalAssumption DEF JournalAssumption
<1>6. /\ tb \in Seq(DOMAIN es) /\ \A k, l \in 1 .. Len(tb) : tb[k] = tb[l] => k = l
      /\ \A k \in 1 .. Len(tb) : tb[k] \notin I /\ ~Gone(tb[k], lo) /\ es[tb[k]].ts >= cu
      /\ \A m \in DOMAIN es : es[m].ts < cu \/ Gone(m, lo) \/ m \in I \/ \E k \in 1 .. Len(tb) : tb[k] = m
      /\ \A m \in I : m \in DOMAIN es /\ ~Gone(m, lo)
  BY <1>1 DEF TableKnown
<1>7. \A m : m \in kept <=> m \in DOMAIN es /\ es[m].ts >= from
  OBVIOUS
<1> HIDE DEF I, J, kept
<1>8. /\ tc \in Seq(DOMAIN es) /\ \A k, l \in 1 .. Len(tc) : tc[k] = tc[l] => k = l
      /\ \A k \in 1 .. Len(tc) : tc[k] \in kept /\ \E l \in 1 .. Len(tb) : tb[l] = tc[k]
      /\ \A k \in 1 .. Len(tb) : tb[k] \in kept => \E l \in 1 .. Len(tc) : tc[l] = tb[k]
  <2>1. tc = Only(tb, kept)
    BY DEF kept
  <2> QED
    <3>1. Once(tb, DOMAIN es)
      BY <1>6 DEF Once
    <3>2. Once(tc, DOMAIN es) /\ Leaves(tc, tb, kept)
      BY <2>1, <3>1, OnlyIs
    <3> QED
      BY <3>2 DEF Once, Leaves
<1>9. TableKnown(es, tc, J, lo, from)
  <2>1. \A k \in 1 .. Len(tc) : tc[k] \notin J /\ ~Gone(tc[k], lo) /\ es[tc[k]].ts >= from
    BY <1>3, <1>6, <1>7, <1>8
  <2>2. \A m \in DOMAIN es : es[m].ts < from \/ Gone(m, lo) \/ m \in J \/ \E k \in 1 .. Len(tc) : tc[k] = m
    <3> TAKE m \in DOMAIN es
    <3>1. CASE es[m].ts < from BY <3>1
    <3>2. CASE ~(es[m].ts < from)
      <4>1. es[m].ts >= from /\ ~(es[m].ts < cu)
        BY <1>1, <1>4, <3>2
      <4>2. Gone(m, lo) \/ m \in I \/ \E k \in 1 .. Len(tb) : tb[k] = m
        BY <1>6, <4>1
      <4>3. m \in kept
        BY <1>7, <4>1
      <4>4. CASE m \in I
        BY <1>3, <4>4
      <4>5. ASSUME NEW k \in 1 .. Len(tb), tb[k] = m PROVE \E l \in 1 .. Len(tc) : tc[l] = m
        BY <1>8, <4>3, <4>5
      <4> QED
        BY <4>2, <4>4, <4>5
    <3> QED
      BY <3>1, <3>2
  <2>3. \A m \in J : m \in DOMAIN es /\ ~Gone(m, lo)
    BY <1>3, <1>6
  <2> QED
    BY <1>8, <2>1, <2>2, <2>3 DEF TableKnown
<1> QED
  BY <1>1, <1>3, <1>9 DEF SqlKnown, J

\* Calls that are not made, whichever they are.
LEMMA TableDrops ==
  ASSUME NEW es, NEW tb, NEW I, NEW lo, NEW cu, TableKnown(es, tb, I, lo, cu),
         NEW J, NEW lp, J \subseteq I, \A n \in DOMAIN es : Gone(n, lp) <=> Gone(n, lo) \/ n \in I \ J
  PROVE  TableKnown(es, tb, J, lp, cu)
<1>1. /\ tb \in Seq(DOMAIN es) /\ \A k, l \in 1 .. Len(tb) : tb[k] = tb[l] => k = l
      /\ \A k \in 1 .. Len(tb) : tb[k] \notin I /\ ~Gone(tb[k], lo) /\ es[tb[k]].ts >= cu
      /\ \A m \in DOMAIN es : es[m].ts < cu \/ Gone(m, lo) \/ m \in I \/ \E k \in 1 .. Len(tb) : tb[k] = m
      /\ \A m \in I : m \in DOMAIN es /\ ~Gone(m, lo)
  BY DEF TableKnown
<1>2. \A k \in 1 .. Len(tb) : tb[k] \in DOMAIN es
  BY <1>1, ElementOfSeq
<1>3. \A k \in 1 .. Len(tb) : tb[k] \notin J /\ ~Gone(tb[k], lp) /\ es[tb[k]].ts >= cu
  BY <1>1, <1>2
<1>4. \A m \in DOMAIN es : es[m].ts < cu \/ Gone(m, lp) \/ m \in J \/ \E k \in 1 .. Len(tb) : tb[k] = m
  BY <1>1
<1>5. \A m \in J : m \in DOMAIN es /\ ~Gone(m, lp)
  BY <1>1
<1> QED
  BY <1>1, <1>3, <1>4, <1>5 DEF TableKnown

LEMMA SqlFails ==
  ASSUME NEW j, NEW d, NEW es, NEW tb, NEW u, NEW lo, NEW cu, NEW ra, NEW i, NEW v,
         SqlGoesOn(j, d, es, tb, u, lo, cu, ra, i, v), NEW lp, lp = lo \union Unmade(u[i])
  PROVE  SqlKnown(j, d, es, tb, v, lp, cu)
<1>1. /\ EntriesFit(j, d, es) /\ SqlQueue(j, d, es, u) /\ SqlLost(es, lo) /\ TableKnown(es, tb, Inserts(u), lo, cu)
      /\ i \in 1 .. Len(u) /\ Removed(v, u, i)
  BY DEF SqlGoesOn, SqlKnown
<1>2. SqlQueue(j, d, es, v) /\ Inserts(v) = Inserts(u) \ {u[i].n}
  BY <1>1, QueueLoses
<1>3. u[i] \in Methods /\ (SqlWriter(d, es, u[i]) \/ SqlPruner(j, d, u[i]))
  BY <1>1, InsertsIs DEF SqlQueue
<1>4. /\ Unmade(u[i]) \in SUBSET ((0 .. Len(es)) \X {"insert", "delete"} \X {All})
      /\ \A n : n # 0 => (Gone(n, Unmade(u[i])) <=> n = u[i].n)
  BY <1>1, <1>3, SqlUnmade
<1>5. SqlLost(es, lp)
  BY <1>1, <1>4 DEF SqlLost
<1>6. \A n \in DOMAIN es : n = u[i].n <=> n \in Inserts(u) \ Inserts(v)
  <2> TAKE n \in DOMAIN es
  <2>1. n # 0
    BY <1>1, EntriesAre
  <2> QED
    BY <1>1, <1>2, <2>1, InsertsIs
<1>7. \A n \in DOMAIN es : Gone(n, lp) <=> Gone(n, lo) \/ n \in Inserts(u) \ Inserts(v)
  <2> TAKE n \in DOMAIN es
  <2>1. n # 0
    BY <1>1, EntriesAre
  <2>2. Gone(n, lp) <=> Gone(n, lo) \/ Gone(n, Unmade(u[i]))
    BY DEF Gone
  <2> QED
    BY <1>4, <1>6, <2>1, <2>2
<1>8. Inserts(v) \subseteq Inserts(u)
  BY <1>2
<1>9. TableKnown(es, tb, Inserts(v), lp, cu)
  BY <1>1, <1>7, <1>8, TableDrops
<1> QED
  BY <1>2, <1>5, <1>9 DEF SqlKnown

LEMMA EmptyQueue ==
  ASSUME NEW j, NEW d, NEW es
  PROVE  SqlQueue(j, d, es, <<>>) /\ Inserts(<<>>) = {}
<1>1. <<>> \in Seq(Methods) /\ Len(<<>>) = 0 /\ 1 .. 0 = {}
  OBVIOUS
<1> QED
  BY <1>1 DEF SqlQueue, Inserts

LEMMA SqlCrashes ==
  ASSUME NEW j, NEW d, NEW es, EntriesFit(j, d, es), NEW tb, NEW u, NEW lo, NEW cu, SqlKnown(j, d, es, tb, u, lo, cu),
         NEW lp, lp = lo \union UNION {Unmade(u[i]) : i \in 1 .. Len(u)}
  PROVE  SqlKnown(j, d, es, tb, <<>>, lp, cu)
<1>1. SqlQueue(j, d, es, u) /\ SqlLost(es, lo) /\ TableKnown(es, tb, Inserts(u), lo, cu)
  BY DEF SqlKnown
<1>2. \A i \in 1 .. Len(u) :
        /\ Unmade(u[i]) \in SUBSET ((0 .. Len(es)) \X {"insert", "delete"} \X {All})
        /\ \A n : n # 0 => (Gone(n, Unmade(u[i])) <=> n = u[i].n)
  <2> TAKE i \in 1 .. Len(u)
  <2>1. u[i] \in Methods /\ (SqlWriter(d, es, u[i]) \/ SqlPruner(j, d, u[i]))
    BY <1>1, InsertsIs DEF SqlQueue
  <2> QED
    BY <2>1, SqlUnmade
<1>3. SqlLost(es, lp)
  BY <1>1, <1>2 DEF SqlLost
<1>4. \A n \in DOMAIN es : Gone(n, lp) <=> Gone(n, lo) \/ n \in Inserts(u) \ {}
  <2> TAKE n \in DOMAIN es
  <2>1. n # 0
    BY EntriesAre
  <2>2. Gone(n, lp) <=> Gone(n, lo) \/ \E i \in 1 .. Len(u) : Gone(n, Unmade(u[i]))
    BY DEF Gone
  <2>3. n \in Inserts(u) <=> \E i \in 1 .. Len(u) : u[i].n = n
    BY <1>1, <2>1, InsertsIs
  <2> QED
    BY <1>2, <2>1, <2>2, <2>3
<1>5. TableKnown(es, tb, {}, lp, cu)
  BY <1>1, <1>4, TableDrops
<1> QED
  BY <1>3, <1>5, EmptyQueue DEF SqlKnown

-----------------------------------------------------------------------------
(* The journals *)

\* What holds of the journals in every state.
JournalIInv ==
  /\ GoodJournal(journal) /\ journalStore \in {"sqlite", "postgres", "mongo", "redis"}
  /\ EntriesFit(journal, day, entries) /\ Times(day, cutoff, raced) /\ cutoff \in -Retention .. MaxDay
  /\ table \in Seq(DOMAIN entries) /\ lists \in [Lists -> Seq(DOMAIN entries)]
  /\ journalStore = "redis" => RedisKnown(journal, day, entries, lists, underway, lost, cutoff, raced)
  /\ journalStore # "redis" => SqlKnown(journal, day, entries, table, underway, lost, cutoff)
  /\ journalStore = "sqlite" => underway = <<>>

LEMMA JournalFirst == ASSUME JournalsInit PROVE JournalIInv
<1>1. GoodJournal(journal) /\ journalStore \in {"sqlite", "postgres", "mongo", "redis"}
  BY JournalAssumption DEF JournalsInit, GoodJournal, JournalAssumption
<1>2. /\ day = 0 /\ entries = <<>> /\ table = <<>> /\ lists = [key \in Lists |-> <<>>] /\ underway = <<>> /\ lost = {}
      /\ raced = 0 /\ cutoff = -Retention
  BY DEF JournalsInit
<1>3. EntriesFit(journal, day, entries) /\ Times(day, cutoff, raced) /\ cutoff \in -Retention .. MaxDay
  BY <1>2, EntriesFirst
<1>4. table \in Seq(DOMAIN entries) /\ lists \in [Lists -> Seq(DOMAIN entries)]
  BY <1>2
<1>5. RedisKnown(journal, day, entries, lists, underway, lost, cutoff, raced)
  BY <1>1, <1>2, RedisFirst
<1>6. SqlKnown(journal, day, entries, table, underway, lost, cutoff)
  <2>1. SqlQueue(journal, day, entries, underway) /\ Inserts(underway) = {}
    BY <1>2, EmptyQueue
  <2>2. SqlLost(entries, lost)
    BY <1>2 DEF SqlLost
  <2>3. Len(table) = 0 /\ 1 .. Len(table) = {} /\ DOMAIN entries = {}
    BY <1>2
  <2>4. TableKnown(entries, table, {}, lost, cutoff)
    BY <1>4, <2>3 DEF TableKnown
  <2> QED
    BY <2>1, <2>2, <2>4 DEF SqlKnown
<1> QED
  BY <1>1, <1>2, <1>3, <1>4, <1>5, <1>6 DEF JournalIInv

\* The calls of an entry.
LEMMA WritesIs ==
  ASSUME NEW e, journalStore \in {"sqlite", "postgres", "mongo", "redis"}
  PROVE  /\ journalStore = "redis" => Writes(e) = RedisCalls(journal, e)
         /\ journalStore # "redis" => Writes(e) = OneRow
<1>1. CASE journalStore = "redis"
  BY <1>1 DEF Writes, RedisCalls
<1>2. CASE journalStore # "redis"
  <2>1. /\ SqliteRecordAdminAudit(e) = OneRow /\ SqliteRecordTimelineEvent(e) = OneRow /\ SqliteRecordGroupSettingsChange(e) = OneRow
        /\ PostgresRecordAdminAudit(e) = OneRow /\ PostgresRecordTimelineEvent(e) = OneRow /\ PostgresRecordGroupSettingsChange(e) = OneRow
        /\ MongoRecordAdminAudit(e) = OneRow /\ MongoRecordTimelineEvent(e) = OneRow /\ MongoRecordGroupSettingsChange(e) = OneRow
    BY DEF SqliteRecordAdminAudit, SqliteRecordTimelineEvent, SqliteRecordGroupSettingsChange, PostgresRecordAdminAudit,
           PostgresRecordTimelineEvent, PostgresRecordGroupSettingsChange, MongoRecordAdminAudit, MongoRecordTimelineEvent,
           MongoRecordGroupSettingsChange
  <2>2. Writes(e) = OneRow
    BY <1>2, <2>1 DEF Writes
  <2> QED
    BY <1>2, <2>2
<1> QED
  BY <1>1, <1>2

LEMMA PrunesIs ==
  ASSUME NEW from, journalStore \in {"sqlite", "postgres", "mongo", "redis"}
  PROVE  /\ journalStore = "redis" => Prunes(from) = <<Call("scan", All, from)>>
         /\ journalStore # "redis" => Prunes(from) = <<Call("delete", All, from)>>
BY DEF Prunes, RedisPrune, SqlitePrune, PostgresPrune, MongoPrune

\* How many entries of the log a prune counts.
LEMMA YoungIs ==
  ASSUME EntriesOK, lists[All] \in Seq(DOMAIN entries), Falls(lists[All]), NEW from \in Int
  PROVE  /\ Young(from) \in 0 .. Len(lists[All])
         /\ \A i \in 1 .. Len(lists[All]) : entries[lists[All][i]].ts >= from <=> i <= Young(from)
<1> DEFINE s == lists[All]
<1>1. PICK k : Heads(s, from, k)
  BY HeadsExist
<1>2. Young(from) = Cardinality({i \in DOMAIN s : \A j \in 1 .. i : entries[s[j]].ts >= from})
  BY DEF Young
<1>3. DOMAIN s = 1 .. Len(s) /\ Len(s) \in Nat
  OBVIOUS
<1> HIDE DEF s
<1>4. k \in 0 .. Len(s) /\ \A i \in 1 .. Len(s) : entries[s[i]].ts >= from <=> i <= k
  BY <1>1 DEF Heads
<1>5. {i \in DOMAIN s : \A j \in 1 .. i : entries[s[j]].ts >= from} = 1 .. k
  <2>1. \A i \in 1 .. Len(s) : (\A j \in 1 .. i : entries[s[j]].ts >= from) => i <= k
    <3> TAKE i \in 1 .. Len(s)
    <3>1. i \in 1 .. i
      OBVIOUS
    <3> QED
      BY <1>4, <3>1
  <2>2. \A i \in 1 .. k : i \in 1 .. Len(s) /\ \A j \in 1 .. i : j \in 1 .. Len(s) /\ j <= k
    BY <1>3, <1>4
  <2>3. \A i \in 1 .. Len(s) : i <= k => i \in 1 .. k
    BY <1>3, <1>4
  <2> QED
    BY <1>3, <1>4, <2>1, <2>2, <2>3
<1>6. k \in Nat
  BY <1>4
<1>7. Young(from) = k
  BY <1>2, <1>5, <1>6, OneToN
<1> QED
  BY <1>4, <1>7 DEF s

\* A list as it is known.
LEMMA ListIsKnown ==
  ASSUME JournalIInv, journalStore = "redis", NEW key \in Keys(journal)
  PROVE  /\ lists[key] \in Seq(DOMAIN entries) /\ Sinks(lists[key]) /\ Falls(lists[key])
         /\ \A i \in 1 .. Len(lists[key]) : lists[key][i] \in Pushed(journal, entries, underway, lost, key)
<1> DEFINE s == lists[key]
           P == Pushed(journal, entries, underway, lost, key)
<1>1. EntriesFit(journal, day, entries) /\ ListKnown(journal, entries, lists, underway, lost, cutoff, raced, key)
      /\ lists \in [Lists -> Seq(DOMAIN entries)] /\ GoodJournal(journal)
  BY DEF JournalIInv, RedisKnown
<1>2. s \in Seq(DOMAIN entries)
  BY <1>1, KeysAre
<1>3. s \in Seq(P) /\ Sinks(s)
  BY <1>1 DEF ListKnown, KeyKnown
<1> HIDE DEF s, P
<1>4. \A i \in 1 .. Len(s) : s[i] \in P /\ s[i] \in DOMAIN entries
  BY <1>2, <1>3, ElementOfSeq
<1>5. DOMAIN entries \in SUBSET Nat /\ \A m, n \in DOMAIN entries : m <= n => entries[m].ts <= entries[n].ts
  BY <1>1, EntriesAre DEF EntriesFit
<1>6. \A n \in DOMAIN entries : entries[n].ts \in Nat
  BY <1>1, EntriesAre
<1>7. Falls(s)
  <2> SUFFICES ASSUME NEW i \in 1 .. Len(s), NEW k \in 1 .. Len(s), i < k PROVE entries[s[i]].ts >= entries[s[k]].ts
    BY DEF Falls
  <2>1. s[i] > s[k] /\ s[i] \in DOMAIN entries /\ s[k] \in DOMAIN entries
    BY <1>3, <1>4 DEF Sinks
  <2>2. entries[s[k]].ts <= entries[s[i]].ts
    BY <1>5, <2>1
  <2> QED
    BY <1>6, <2>1, <2>2
<1> QED
  BY <1>2, <1>3, <1>4, <1>7 DEF s, P

-----------------------------------------------------------------------------
(* The steps of redis *)

\* What a call leaves of the rest of the state.
Kept == UNCHANGED <<journal, journalStore, day, entries>>

\* The hypotheses of the steps, together.
Ready(j, d, es, cu, ra, ls, u, lo) ==
  GoodJournal(j) /\ EntriesFit(j, d, es) /\ Times(d, cu, ra) /\ RedisKnown(j, d, es, ls, u, lo, cu, ra)
\* The method m after its call; a method that writes has made a call and goes to the end of the
\* turn, or is done.
NextOf(m, t) == t = [m EXCEPT !.calls = Tail(m.calls)]
Advances(j, d, es, u, v, t, stays) ==
  /\ stays \in BOOLEAN /\ Goes(u, v, t, stays) /\ Writer(j, d, es, u[1])
  /\ stays => Writer(j, d, es, t) /\ t.n = u[1].n /\ Done(j, es, t) = Done(j, es, u[1]) + 1
  /\ ~stays => Done(j, es, u[1]) + 1 = Len(RedisCalls(j, es[u[1].n]))
\* The call pushes the entry to its list; a prune about to cut that list will miss it.
Pushes(c, u, ls, lt, ra, rb) ==
  /\ c = u[1].calls[1] /\ c.op = "push" /\ Becomes(lt, ls, c.key, <<u[1].n>> \o ls[c.key]) /\ rb \in Nat /\ ra <= rb
  /\ c.key = All /\ CutWaits(u) => rb = ra + 1
\* The call trims its list.
Trimmed(c, u, ls, lt) == c = u[1].calls[1] /\ c.op = "trim" /\ Becomes(lt, ls, c.key, Cut(ls[c.key], c.arg))
\* The call of a prune has found that k entries are young enough.
Scanned(j, d, es, u, v, t, stays, ls, k) ==
  /\ stays \in BOOLEAN /\ Goes(u, v, t, stays) /\ Pruner(j, d, u[1]) /\ k \in 0 .. Len(ls[All])
  /\ \A i \in 1 .. Len(ls[All]) : es[ls[All][i]].ts >= d - Retention <=> i <= k
  /\ stays => Pruner(j, d, t) /\ t.calls[1].arg = k
  /\ ~stays => k = Len(ls[All])
\* The call of a prune cuts the list of all entries.
Shortened(j, d, u, v, t, stays, ls, lt) ==
  /\ stays \in BOOLEAN /\ ~stays /\ Goes(u, v, t, stays) /\ Pruner(j, d, u[1]) /\ u[1].calls[1].op = "cut"
  /\ Becomes(lt, ls, All, Cut(ls[All], u[1].calls[1].arg))

LEMMA Advancing ==
  ASSUME NEW j, NEW d, NEW es, GoodJournal(j), EntriesFit(j, d, es), NEW u, NEW m, m = u[1], Writer(j, d, es, m),
         NEW t, NextOf(m, t), NEW v, NEW stays, stays \in BOOLEAN, stays <=> Tail(m.calls) # <<>>, Goes(u, v, t, stays)
  PROVE  Advances(j, d, es, u, v, t, stays)
<1>1. t = [m EXCEPT !.calls = Tail(m.calls)]
  BY DEF NextOf
<1>2. /\ Tail(m.calls) # <<>> => Writer(j, d, es, t) /\ t.n = m.n /\ Done(j, es, t) = Done(j, es, m) + 1
      /\ Tail(m.calls) = <<>> => Done(j, es, m) + 1 = Len(RedisCalls(j, es[m.n]))
  BY <1>1, WriterGoes
<1> QED
  BY <1>2 DEF Advances

LEMMA PushGoes ==
  ASSUME NEW j, NEW d, NEW es, NEW cu, NEW ra, NEW ls, NEW u, NEW lo, Ready(j, d, es, cu, ra, ls, u, lo),
         NEW v, NEW t, NEW stays, Advances(j, d, es, u, v, t, stays), NEW c, NEW lt, NEW rb, Pushes(c, u, ls, lt, ra, rb)
  PROVE  RedisKnown(j, d, es, lt, v, lo, cu, rb)
<1>1. GoodJournal(j) /\ EntriesFit(j, d, es) /\ Times(d, cu, ra) /\ RedisKnown(j, d, es, ls, u, lo, cu, ra)
  BY DEF Ready
<1>2. /\ stays \in BOOLEAN /\ Goes(u, v, t, stays) /\ Writer(j, d, es, u[1])
      /\ stays => Writer(j, d, es, t) /\ t.n = u[1].n /\ Done(j, es, t) = Done(j, es, u[1]) + 1
      /\ ~stays => Done(j, es, u[1]) + 1 = Len(RedisCalls(j, es[u[1].n]))
  BY DEF Advances
<1>3. c = u[1].calls[1] /\ c.op = "push" /\ Becomes(lt, ls, c.key, <<u[1].n>> \o ls[c.key]) /\ rb \in Nat /\ ra <= rb
  BY DEF Pushes
<1>4. c.key = All /\ CutWaits(u) => rb = ra + 1
  BY DEF Pushes
<1> QED
  BY <1>1, <1>2, <1>3, <1>4, RedisPush

LEMMA TrimGoes ==
  ASSUME NEW j, NEW d, NEW es, NEW cu, NEW ra, NEW ls, NEW u, NEW lo, Ready(j, d, es, cu, ra, ls, u, lo),
         NEW v, NEW t, NEW stays, Advances(j, d, es, u, v, t, stays), NEW c, NEW lt, Trimmed(c, u, ls, lt)
  PROVE  RedisKnown(j, d, es, lt, v, lo, cu, ra)
<1>1. GoodJournal(j) /\ EntriesFit(j, d, es) /\ Times(d, cu, ra) /\ RedisKnown(j, d, es, ls, u, lo, cu, ra)
  BY DEF Ready
<1>2. /\ stays \in BOOLEAN /\ Goes(u, v, t, stays) /\ Writer(j, d, es, u[1])
      /\ stays => Writer(j, d, es, t) /\ t.n = u[1].n /\ Done(j, es, t) = Done(j, es, u[1]) + 1
      /\ ~stays => Done(j, es, u[1]) + 1 = Len(RedisCalls(j, es[u[1].n]))
  BY DEF Advances
<1>3. c = u[1].calls[1] /\ c.op = "trim" /\ Becomes(lt, ls, c.key, Cut(ls[c.key], c.arg))
  BY DEF Trimmed
<1> QED
  BY <1>1, <1>2, <1>3, RedisTrim

LEMMA ScanGoes ==
  ASSUME NEW j, NEW d, NEW es, NEW cu, NEW ra, NEW ls, NEW u, NEW lo, Ready(j, d, es, cu, ra, ls, u, lo),
         NEW v, NEW t, NEW stays, NEW k, Scanned(j, d, es, u, v, t, stays, ls, k),
         NEW cb, cb = IF stays THEN cu ELSE d - Retention
  PROVE  RedisKnown(j, d, es, ls, v, lo, cb, ra)
BY RedisScan DEF Ready, Scanned

LEMMA CutGoes ==
  ASSUME NEW j, NEW d, NEW es, NEW cu, NEW ra, NEW ls, NEW u, NEW lo, Ready(j, d, es, cu, ra, ls, u, lo),
         NEW v, NEW t, NEW stays, NEW lt, Shortened(j, d, u, v, t, stays, ls, lt)
  PROVE  RedisKnown(j, d, es, lt, v, lo, d - Retention, ra)
<1>1. GoodJournal(j) /\ EntriesFit(j, d, es) /\ Times(d, cu, ra) /\ RedisKnown(j, d, es, ls, u, lo, cu, ra)
  BY DEF Ready
<1>2. /\ stays \in BOOLEAN /\ ~stays /\ Goes(u, v, t, stays) /\ Pruner(j, d, u[1]) /\ u[1].calls[1].op = "cut"
      /\ Becomes(lt, ls, All, Cut(ls[All], u[1].calls[1].arg))
  BY DEF Shortened
<1>3. ASSUME NEW from, from = d - Retention PROVE RedisKnown(j, d, es, lt, v, lo, from, ra)
  BY <1>1, <1>2, <1>3, RedisCuts
<1> QED
  BY <1>3

LEMMA RedisExecutes ==
  ASSUME JournalIInv, journalStore = "redis", Kept, underway # <<>>, NEW m, m = underway[1], NEW ok \in BOOLEAN,
         Perform(m, RemoveAt(underway, 1), ok), underway' = RemoveAt(underway, 1) \o Left(m, ok)
  PROVE  RedisKnown(journal', day', entries', lists', underway', lost', cutoff', raced') /\ Times(day', cutoff', raced')
         /\ cutoff' \in -Retention .. MaxDay /\ table' \in Seq(DOMAIN entries') /\ lists' \in [Lists -> Seq(DOMAIN entries')]
<1> DEFINE others == RemoveAt(underway, 1)
           c == Head(m.calls)
           rest == IF ~ok THEN <<>> ELSE IF c.op = "scan" THEN RedisCut(c.arg) ELSE Tail(m.calls)
           stays == rest # <<>>
           t == [m EXCEPT !.calls = rest]
<1>1. /\ GoodJournal(journal) /\ EntriesFit(journal, day, entries) /\ Times(day, cutoff, raced) /\ cutoff \in -Retention .. MaxDay
      /\ table \in Seq(DOMAIN entries) /\ lists \in [Lists -> Seq(DOMAIN entries)]
      /\ RedisKnown(journal, day, entries, lists, underway, lost, cutoff, raced) /\ InTurn(journal, day, entries, underway)
  BY DEF JournalIInv, RedisKnown
<1>2. journal' = journal /\ day' = day /\ entries' = entries
  BY DEF Kept
<1>3. /\ underway \in Seq(Methods) /\ Len(underway) \in Nat /\ 1 \in 1 .. Len(underway) /\ m \in Methods
      /\ (Writer(journal, day, entries, m) \/ Pruner(journal, day, m))
  <2>1. underway \in Seq(Methods) /\ Len(underway) \in Nat /\ \A i \in 1 .. Len(underway) : underway[i] \in Methods
    BY <1>1, DoneIs
  <2>2. 1 \in 1 .. Len(underway)
    BY <2>1, EmptySeq
  <2> QED
    BY <1>1, <2>1, <2>2 DEF InTurn
<1>4. m.calls \in Seq(CallSet) /\ Len(m.calls) \in Nat /\ 0 < Len(m.calls) /\ c = m.calls[1] /\ c \in CallSet /\ Tail(m.calls) \in Seq(CallSet)
  <2>1. m.calls \in Seq(CallSet) /\ Len(m.calls) \in Nat
    BY <1>3, MethodIs
  <2>2. 0 < Len(m.calls)
    <3>1. CASE Writer(journal, day, entries, m)
      <4>1. Len(m.calls) \in 1 .. Len(RedisCalls(journal, entries[m.n]))
        BY <3>1 DEF Writer
      <4> QED
        BY <2>1, <4>1
    <3>2. CASE Pruner(journal, day, m) BY <3>2 DEF Pruner
    <3> QED
      BY <1>3, <3>1, <3>2
  <2>3. c = m.calls[1] /\ 1 \in 1 .. Len(m.calls)
    BY <2>1, <2>2
  <2>4. c \in CallSet
    BY <2>1, <2>3, ElementOfSeq
  <2>5. m.calls # <<>>
    BY <2>2
  <2> QED
    BY <2>1, <2>2, <2>3, <2>4, <2>5, HeadTailProperties
<1>5. Left(m, ok) = (IF stays THEN <<t>> ELSE <<>>)
  <2>1. Left(m, ok) = (IF rest = <<>> THEN <<>> ELSE <<t>>)
    BY Zenon DEF Left
  <2> QED
    BY <2>1, Zenon
<1>6. \A v : v = others \o (IF stays THEN <<t>> ELSE <<>>) /\ t \in Methods => Goes(underway, v, t, stays)
  BY <1>3, GoesOn
<1>7. (m.calls[1].op # "scan" \/ ~ok => rest \in Seq(CallSet)) /\ (rest \in Seq(CallSet) => t \in Methods /\ t.n = m.n /\ t.from = m.from /\ t.calls = rest)
  <2>1. rest \in Seq(CallSet) => t \in Methods /\ t.n = m.n /\ t.from = m.from /\ t.calls = rest
    <3> HIDE DEF rest
    <3> QED
      BY <1>3, MethodIs
  <2> QED
    BY <1>4, <2>1
<1>8. /\ IF ok THEN /\ table' = Tabled(c, m.n) /\ lists' = Listed(c, m.n) /\ lost' = lost
                ELSE lost' = lost \union Unmade(m) /\ table' = table /\ lists' = lists
      /\ raced' = IF ok /\ c.op = "push" /\ c.key = All /\ \E i \in DOMAIN others : Head(others[i].calls).op = "cut"
                    THEN raced + 1 ELSE raced
      /\ cutoff' = IF ok /\ (c.op \in {"delete", "cut"} \/ (c.op = "scan" /\ RedisCut(c.arg) = <<>>)) THEN m.from ELSE cutoff
  BY DEF Perform
<1>9. stays \in BOOLEAN /\ (stays <=> rest # <<>>) /\ rest = (IF ~ok THEN <<>> ELSE IF c.op = "scan" THEN RedisCut(c.arg) ELSE Tail(m.calls))
      /\ t = [m EXCEPT !.calls = rest] /\ underway' = others \o Left(m, ok)
  OBVIOUS
<1>10. Removed(others, underway, 1)
  BY <1>3, RemovedIs
<1> HIDE DEF others, c, rest, stays, t
<1>11. rest \in Seq(CallSet) => t \in Methods /\ Goes(underway, underway', t, stays)
  BY <1>5, <1>6, <1>7, <1>9
<1>12. Retention \in Nat /\ MaxDay \in Nat /\ day \in Nat /\ day \in 0 .. MaxDay /\ raced \in Nat /\ cutoff \in Int /\ cutoff <= day - Retention
  BY <1>1, EntriesAre, JournalAssumption DEF JournalAssumption, EntriesFit, Times
<1>13. raced' \in Nat /\ raced <= raced' /\ (raced' = raced \/ (ok /\ c.op = "push"))
  BY <1>8, <1>12
<1>14. /\ \A from : from = day - Retention => Times(day, from, raced') /\ from \in -Retention .. MaxDay
       /\ Times(day, cutoff, raced')
  BY <1>12, <1>13 DEF Times
<1>15. CASE ~ok
  <2>1. rest = <<>> /\ ~stays /\ rest \in Seq(CallSet)
    BY <1>9, <1>15
  <2>2. lost' = lost \union Unmade(m) /\ table' = table /\ lists' = lists /\ raced' = raced /\ cutoff' = cutoff
    BY <1>8, <1>15
  <2>3. Goes(underway, underway', t, stays)
    BY <1>11, <2>1
  <2>4. RedisKnown(journal, day, entries, lists, underway', lost', cutoff, raced)
    BY <1>1, <1>9, <2>1, <2>2, <2>3, RedisFails
  <2> QED
    BY <1>1, <1>2, <1>14, <2>2, <2>4
<1>16. CASE ok /\ Writer(journal, day, entries, m)
  <2>1. /\ c.key \in Keys(journal) /\ (c.op = "push" \/ (c.op = "trim" /\ c.arg = Length(journal, c.key)))
    BY <1>1, <1>4, <1>16, CallIs
  <2>2. rest = Tail(m.calls) /\ rest \in Seq(CallSet)
    BY <1>4, <1>9, <1>16, <2>1
  <2>3. Goes(underway, underway', t, stays) /\ t = [m EXCEPT !.calls = Tail(m.calls)]
    BY <1>9, <1>11, <2>2
  <2>4. Advances(journal, day, entries, underway, underway', t, stays) /\ Ready(journal, day, entries, cutoff, raced, lists, underway, lost)
    <3>1. stays \in BOOLEAN /\ (stays <=> Tail(m.calls) # <<>>) /\ m = underway[1]
      BY <1>9, <2>2
    <3>2. NextOf(m, t)
      BY <2>3 DEF NextOf
    <3>3. Advances(journal, day, entries, underway, underway', t, stays)
      BY <1>1, <1>16, <2>3, <3>1, <3>2, Advancing
    <3> QED
      BY <1>1, <3>3 DEF Ready
  <2>5. table' = table /\ lost' = lost /\ cutoff' = cutoff /\ lists' = Listed(c, m.n)
    BY <1>8, <1>16, <2>1 DEF Tabled
  <2>6. c.key \in Lists /\ lists[c.key] \in Seq(DOMAIN entries) /\ m.n \in DOMAIN entries /\ Length(journal, c.key) \in Nat
    BY <1>1, <1>16, <2>1, KeysAre DEF Writer
  <2>7. CASE c.op = "push"
    <3>1. lists' = [lists EXCEPT ![c.key] = <<m.n>> \o @]
      BY <2>5, <2>7 DEF Listed
    <3>2. c.key = All /\ CutWaits(underway) => raced' = raced + 1
      <4> SUFFICES ASSUME c.key = All, NEW i \in 1 .. Len(underway), i # 1, underway[i].calls[1].op = "cut" PROVE raced' = raced + 1
        BY DEF CutWaits
      <4>1. i - 1 \in 1 .. Len(others) /\ ~(i - 1 < 1) /\ i - 1 + 1 = i
        BY <1>10 DEF Removed
      <4>2. others[i - 1] = underway[i] /\ DOMAIN others = 1 .. Len(others)
        BY <1>10, <4>1 DEF Removed
      <4>3. Head(underway[i].calls) = underway[i].calls[1]
        OBVIOUS
      <4>4. \E k \in DOMAIN others : Head(others[k].calls).op = "cut"
        BY <4>1, <4>2, <4>3
      <4> QED
        BY <1>8, <1>16, <2>7, <4>4
    <3>5. Becomes(lists', lists, c.key, <<m.n>> \o lists[c.key])
      BY <1>1, <3>1 DEF Becomes
    <3>3. RedisKnown(journal, day, entries, lists', underway', lost, cutoff, raced')
      <4>1. c = underway[1].calls[1] /\ m = underway[1]
        BY <1>4
      <4>2. Pushes(c, underway, lists, lists', raced, raced')
        BY <1>13, <2>7, <3>2, <3>5, <4>1 DEF Pushes
      <4> QED
        BY <2>4, <4>2, PushGoes
    <3>4. lists' \in [Lists -> Seq(DOMAIN entries)]
      <4>1. <<m.n>> \o lists[c.key] \in Seq(DOMAIN entries)
        BY <2>6
      <4> QED
        BY <1>1, <2>6, <3>1, <4>1
    <3> QED
      BY <1>1, <1>2, <1>14, <2>5, <3>3, <3>4
  <2>8. CASE c.op = "trim"
    <3>1. lists' = [lists EXCEPT ![c.key] = Cut(@, c.arg)]
      BY <2>5, <2>8 DEF Listed
    <3>2. raced' = raced
      BY <1>13, <2>8
    <3>3. RedisKnown(journal, day, entries, lists', underway', lost, cutoff, raced)
      <4>1. c = underway[1].calls[1] /\ m = underway[1]
        BY <1>4
      <4>2. Trimmed(c, underway, lists, lists')
        <5>1. Becomes(lists', lists, c.key, Cut(lists[c.key], c.arg))
          BY <1>1, <2>6, <3>1 DEF Becomes
        <5> QED
          BY <2>8, <4>1, <5>1 DEF Trimmed
      <4> QED
        BY <2>4, <4>2, TrimGoes
    <3>4. lists' \in [Lists -> Seq(DOMAIN entries)]
      <4>1. c.arg \in Nat
        BY <2>1, <2>6, <2>8
      <4>2. Cut(lists[c.key], c.arg) \in Seq(DOMAIN entries)
        BY <2>6, <4>1, CutIs
      <4> QED
        BY <1>1, <2>6, <3>1, <4>2
    <3> QED
      BY <1>1, <1>2, <1>14, <2>5, <3>2, <3>3, <3>4
  <2> QED
    BY <2>1, <2>7, <2>8
<1>17. CASE ok /\ Pruner(journal, day, m)
  <2> DEFINE from == day - Retention
             s == lists[All]
  <2>1. /\ m.n = 0 /\ journal = "audit" /\ m.from = from /\ Len(m.calls) = 1
        /\ (c = Call("scan", All, from) \/ (c = Call("cut", All, c.arg) /\ c.arg \in Nat))
    BY <1>4, <1>17 DEF Pruner
  <2>2. All \in Keys(journal) /\ All \in Lists /\ from \in Int
    BY <1>1, <1>12, <2>1, KeysAre
  <2>3. s \in Seq(DOMAIN entries) /\ Falls(s)
    BY <2>2, ListIsKnown
  <2>4. CASE c = Call("scan", All, from)
    <3>1. c.op = "scan" /\ c.arg = from
      BY <2>4 DEF Call
    <3>2. Young(from) \in 0 .. Len(s) /\ \A i \in 1 .. Len(s) : entries[s[i]].ts >= from <=> i <= Young(from)
      <4>1. EntriesOK
        BY <1>1 DEF EntriesFit, EntriesOK
      <4> QED
        BY <2>2, <2>3, <4>1, YoungIs
    <3>3. rest = RedisCut(from) /\ RedisCut(from) = IF Young(from) = Len(s) THEN <<>> ELSE <<Call("cut", All, Young(from))>>
      BY <1>9, <1>17, <3>1 DEF RedisCut
    <3> DEFINE k == Young(from)
    <3>4. k \in Nat /\ k \in Int
      BY <3>2
    <3> HIDE DEF k, s, from
    <3>5. Call("cut", All, k) \in CallSet
      BY <2>2, <3>4 DEF Call, CallSet
    <3>6. rest \in Seq(CallSet) /\ (stays <=> k # Len(s)) /\ (stays => rest = <<Call("cut", All, k)>>)
      <4>1. rest = IF k = Len(s) THEN <<>> ELSE <<Call("cut", All, k)>>
        BY <3>3 DEF k
      <4>2. <<Call("cut", All, k)>> \in Seq(CallSet) /\ <<>> \in Seq(CallSet) /\ <<Call("cut", All, k)>> # <<>>
        BY <3>5
      <4> QED
        BY <1>9, <4>1, <4>2
    <3>7. stays => Pruner(journal, day, t) /\ t.calls[1].arg = k
      <4> HAVE stays
      <4>1. t \in Methods /\ t.n = 0 /\ t.from = day - Retention /\ t.calls = <<Call("cut", All, k)>>
        BY <1>7, <2>1, <3>6 DEF from
      <4>2. Len(t.calls) = 1 /\ t.calls[1] = Call("cut", All, k) /\ t.calls[1].arg = k
        BY <4>1 DEF Call
      <4> QED
        BY <2>1, <3>4, <4>1, <4>2 DEF Pruner
    <3>8. /\ table' = table /\ lists' = lists /\ lost' = lost /\ raced' = raced /\ cutoff' = IF stays THEN cutoff ELSE from
      <4>1. rest = RedisCut(c.arg)
        BY <3>1, <3>3
      <4> QED
        BY <1>8, <1>9, <1>13, <1>17, <2>1, <3>1, <4>1 DEF Tabled, Listed
    <3>9. RedisKnown(journal, day, entries, lists, underway', lost, cutoff', raced)
      <4>1. Goes(underway, underway', t, stays)
        BY <1>11, <3>6
      <4>2. Scanned(journal, day, entries, underway, underway', t, stays, lists, k)
        BY <1>9, <1>17, <3>2, <3>6, <3>7, <4>1 DEF Scanned, from, s, k
      <4>3. Ready(journal, day, entries, cutoff, raced, lists, underway, lost)
        BY <1>1 DEF Ready
      <4>4. cutoff' = IF stays THEN cutoff ELSE day - Retention
        BY <3>8 DEF from
      <4> QED
        BY <4>2, <4>3, <4>4, ScanGoes
    <3> QED
      BY <1>1, <1>2, <1>14, <3>8, <3>9 DEF from
  <2>5. CASE c = Call("cut", All, c.arg) /\ c.arg \in Nat
    <3>1. c.op = "cut" /\ c.key = All
      BY <2>5 DEF Call
    <3>2. rest = <<>> /\ ~stays /\ rest \in Seq(CallSet)
      BY <1>4, <1>9, <1>17, <2>1, <3>1
    <3>3. table' = table /\ lost' = lost /\ cutoff' = from /\ raced' = raced /\ lists' = [lists EXCEPT ![All] = Cut(@, c.arg)]
      BY <1>8, <1>13, <1>17, <2>1, <3>1 DEF Tabled, Listed
    <3>6. Becomes(lists', lists, All, Cut(lists[All], c.arg))
      BY <1>1, <2>2, <3>3 DEF Becomes
    <3>4. RedisKnown(journal, day, entries, lists', underway', lost, from, raced)
      <4>1. Goes(underway, underway', t, stays) /\ c = underway[1].calls[1]
        BY <1>4, <1>11, <3>2
      <4>2. Shortened(journal, day, underway, underway', t, stays, lists, lists')
        BY <1>9, <1>17, <3>1, <3>2, <3>6, <4>1 DEF Shortened
      <4>3. Ready(journal, day, entries, cutoff, raced, lists, underway, lost)
        BY <1>1 DEF Ready
      <4> QED
        BY <4>2, <4>3, CutGoes
    <3>5. lists' \in [Lists -> Seq(DOMAIN entries)]
      <4>1. Cut(s, c.arg) \in Seq(DOMAIN entries)
        BY <2>3, <2>5, CutIs
      <4> QED
        BY <1>1, <2>2, <3>3, <4>1
    <3> QED
      BY <1>1, <1>2, <1>14, <3>3, <3>4, <3>5
  <2> QED
    BY <2>1, <2>4, <2>5
<1> QED
  BY <1>3, <1>15, <1>16, <1>17

-----------------------------------------------------------------------------
(* The steps of the table *)

\* A method waits for the table, and it goes.
SqlReady(es, w, i, v) ==
  /\ journalStore # "redis" /\ GoodJournal(journal) /\ EntriesFit(journal, day, es) /\ Times(day, cutoff, raced)
  /\ cutoff \in -Retention .. MaxDay /\ SqlKnown(journal, day, es, table, w, lost, cutoff)
  /\ i \in 1 .. Len(w) /\ Removed(v, w, i)
\* What that leaves of the state.
SqlLeaves(es, v) ==
  /\ SqlKnown(journal, day, es, table', v, lost', cutoff') /\ Times(day, cutoff', raced')
  /\ cutoff' \in -Retention .. MaxDay /\ table' \in Seq(DOMAIN es) /\ lists' = lists

LEMMA SqlPerforms ==
  ASSUME NEW es, NEW w, NEW i, NEW v, SqlReady(es, w, i, v), NEW m, m = w[i], NEW others, NEW ok \in BOOLEAN,
         Perform(m, others, ok), m.n = 0 => es = entries
  PROVE  SqlLeaves(es, v) /\ Left(m, ok) = <<>>
<1>0. /\ journalStore # "redis" /\ GoodJournal(journal) /\ EntriesFit(journal, day, es) /\ Times(day, cutoff, raced)
      /\ cutoff \in -Retention .. MaxDay /\ SqlKnown(journal, day, es, table, w, lost, cutoff)
      /\ i \in 1 .. Len(w) /\ Removed(v, w, i)
  BY DEF SqlReady
<1>1. SqlGoesOn(journal, day, es, table, w, lost, cutoff, raced, i, v)
  BY <1>0 DEF SqlGoesOn
<1>2. SqlWriter(day, es, m) \/ SqlPruner(journal, day, m)
  BY <1>0 DEF SqlKnown, SqlQueue
<1>3. m.n \in Nat /\ m.from \in Int /\ m \in Methods
  BY <1>0, InsertsIs DEF SqlKnown
<1>4. Retention \in Nat /\ MaxDay \in Nat /\ day \in Nat /\ day \in 0 .. MaxDay /\ raced \in Nat /\ cutoff \in Int /\ cutoff <= day - Retention
  BY <1>0, EntriesAre, JournalAssumption DEF JournalAssumption, EntriesFit, Times
<1> DEFINE c == Head(m.calls)
<1>5. /\ Tail(m.calls) = <<>>
      /\ SqlWriter(day, es, m) => c = Call("insert", All, 0)
      /\ SqlPruner(journal, day, m) => c = Call("delete", All, m.from)
  <2>1. ASSUME SqlWriter(day, es, m) PROVE Tail(m.calls) = <<>> /\ c = Call("insert", All, 0)
    <3>1. m.calls = OneRow
      BY <2>1 DEF SqlWriter
    <3> QED
      BY <3>1, OneRowIs
  <2>2. ASSUME SqlPruner(journal, day, m) PROVE Tail(m.calls) = <<>> /\ c = Call("delete", All, m.from)
    <3>1. m.calls = <<Call("delete", All, m.from)>>
      BY <2>2 DEF SqlPruner
    <3>2. /\ Head(<<Call("delete", All, m.from)>>) = Call("delete", All, m.from)
          /\ Tail(<<Call("delete", All, m.from)>>) = <<>>
      BY <1>3, OneRowIs
    <3> QED
      BY <3>1, <3>2
  <2> QED
    BY <1>2, <2>1, <2>2
<1>6. c.op = "insert" \/ c.op = "delete"
  BY <1>2, <1>5 DEF Call
<1>7. /\ IF ok THEN /\ table' = Tabled(c, m.n) /\ lists' = Listed(c, m.n) /\ lost' = lost
                ELSE lost' = lost \union Unmade(m) /\ table' = table /\ lists' = lists
      /\ raced' = IF ok /\ c.op = "push" /\ c.key = All /\ \E k \in DOMAIN others : Head(others[k].calls).op = "cut"
                    THEN raced + 1 ELSE raced
      /\ cutoff' = IF ok /\ (c.op \in {"delete", "cut"} \/ (c.op = "scan" /\ RedisCut(c.arg) = <<>>)) THEN m.from ELSE cutoff
  BY DEF Perform
<1>8. Left(m, ok) = <<>>
  BY <1>5, <1>6 DEF Left
<1> HIDE DEF c
<1>9. raced' = raced
  BY <1>6, <1>7
<1>10. lists' = lists
  BY <1>6, <1>7 DEF Listed
<1>11. ASSUME NEW tc, NEW lp, NEW cu, SqlKnown(journal, day, es, tc, v, lp, cu) PROVE tc \in Seq(DOMAIN es)
  BY <1>11 DEF SqlKnown, TableKnown
<1>12. CASE ~ok
  <2>1. lost' = lost \union Unmade(m) /\ table' = table /\ cutoff' = cutoff
    BY <1>7, <1>12
  <2>2. SqlKnown(journal, day, es, table, v, lost', cutoff)
    BY <1>1, <2>1, SqlFails
  <2> QED
    BY <1>0, <1>8, <1>9, <1>10, <1>11, <2>1, <2>2 DEF SqlLeaves
<1>13. CASE ok /\ SqlWriter(day, es, m)
  <2>1. c.op = "insert"
    BY <1>5, <1>13 DEF Call
  <2>2. table' = Append(table, m.n) /\ lost' = lost /\ cutoff' = cutoff
    BY <1>7, <1>13, <2>1 DEF Tabled
  <2>3. SqlKnown(journal, day, es, table', v, lost, cutoff)
    BY <1>1, <1>13, <2>2, SqlInserts
  <2> QED
    BY <1>0, <1>8, <1>9, <1>10, <1>11, <2>2, <2>3 DEF SqlLeaves
<1>14. CASE ok /\ SqlPruner(journal, day, m)
  <2>1. c.op = "delete" /\ c.arg = m.from
    BY <1>5, <1>14 DEF Call
  <2>2. table' = Only(table, {n \in DOMAIN es : es[n].ts >= m.from}) /\ lost' = lost /\ cutoff' = m.from
    <3>1. m.n = 0
      BY <1>14 DEF SqlPruner
    <3>2. table' = Since(table, m.from) /\ lost' = lost /\ cutoff' = m.from
      BY <1>7, <1>14, <2>1 DEF Tabled
    <3> QED
      BY <3>1, <3>2 DEF Since
  <2>3. SqlKnown(journal, day, es, table', v, lost, m.from)
    BY <1>1, <1>14, <2>2, SqlDeletes
  <2>4. m.from = day - Retention
    BY <1>14 DEF SqlPruner
  <2>5. Times(day, m.from, raced) /\ m.from \in -Retention .. MaxDay
    BY <1>4, <2>4 DEF Times
  <2> QED
    BY <1>8, <1>9, <1>10, <1>11, <2>2, <2>3, <2>5 DEF SqlLeaves
<1> QED
  BY <1>2, <1>12, <1>13, <1>14

LEMMA SqlExecutes ==
  ASSUME JournalIInv, Kept, journalStore # "redis", NEW i \in DOMAIN underway, NEW ok \in BOOLEAN,
         Perform(underway[i], RemoveAt(underway, i), ok), underway' = RemoveAt(underway, i) \o Left(underway[i], ok)
  PROVE  JournalIInv'
<1> DEFINE others == RemoveAt(underway, i)
           m == underway[i]
<1>1. /\ GoodJournal(journal) /\ EntriesFit(journal, day, entries) /\ Times(day, cutoff, raced) /\ cutoff \in -Retention .. MaxDay
      /\ lists \in [Lists -> Seq(DOMAIN entries)] /\ SqlKnown(journal, day, entries, table, underway, lost, cutoff)
      /\ journalStore \in {"sqlite", "postgres", "mongo", "redis"} /\ (journalStore = "sqlite" => underway = <<>>)
  BY DEF JournalIInv
<1>2. journal' = journal /\ journalStore' = journalStore /\ day' = day /\ entries' = entries
  BY DEF Kept
<1>3. underway \in Seq(Methods) /\ i \in 1 .. Len(underway) /\ underway # <<>>
  BY <1>1 DEF SqlKnown, SqlQueue
<1>4. Removed(others, underway, i)
  BY <1>3, RemovedIs
<1>5. SqlReady(entries, underway, i, others)
  BY <1>1, <1>3, <1>4 DEF SqlReady
<1>6. /\ SqlKnown(journal, day, entries, table', others, lost', cutoff') /\ Times(day, cutoff', raced')
      /\ cutoff' \in -Retention .. MaxDay /\ table' \in Seq(DOMAIN entries) /\ lists' = lists /\ Left(m, ok) = <<>>
  <2>1. Perform(m, others, ok) /\ m = underway[i]
    OBVIOUS
  <2> HIDE DEF others, m
  <2>2. SqlLeaves(entries, others) /\ Left(m, ok) = <<>>
    BY <1>5, <2>1, SqlPerforms
  <2> QED
    BY <2>2 DEF SqlLeaves
<1>7. underway' = others
  <2>1. underway' = others \o <<>>
    BY <1>6
  <2>2. others \in Seq(Methods)
    BY <1>4 DEF Removed
  <2> HIDE DEF others
  <2> QED
    BY <2>1, <2>2, ConcatEmptySeq
<1>8. SqlKnown(journal', day', entries', table', underway', lost', cutoff')
  BY <1>2, <1>6, <1>7
<1> QED
  BY <1>1, <1>2, <1>3, <1>6, <1>8 DEF JournalIInv

LEMMA ExecutedKeeps == ASSUME JournalIInv, Executed PROVE JournalIInv'
<1>1. Kept
  BY DEF Executed, Kept
<1>2. PICK i \in DOMAIN underway, ok \in BOOLEAN :
        /\ journalStore = "redis" => i = 1
        /\ Perform(underway[i], RemoveAt(underway, i), ok)
        /\ underway' = RemoveAt(underway, i) \o Left(underway[i], ok)
  BY DEF Executed
<1>3. CASE journalStore = "redis"
  <2>1. i = 1 /\ underway # <<>>
    BY <1>2, <1>3
  <2>2. /\ RedisKnown(journal', day', entries', lists', underway', lost', cutoff', raced') /\ Times(day', cutoff', raced')
        /\ cutoff' \in -Retention .. MaxDay /\ table' \in Seq(DOMAIN entries') /\ lists' \in [Lists -> Seq(DOMAIN entries')]
    <3>1. Perform(underway[1], RemoveAt(underway, 1), ok) /\ underway' = RemoveAt(underway, 1) \o Left(underway[1], ok)
      BY <1>2, <2>1
    <3> QED
      BY <1>1, <1>3, <2>1, <3>1, RedisExecutes
  <2>3. journal' = journal /\ journalStore' = journalStore /\ day' = day /\ entries' = entries
    BY <1>1 DEF Kept
  <2>4. GoodJournal(journal') /\ EntriesFit(journal', day', entries')
    BY <2>3 DEF JournalIInv
  <2> QED
    BY <1>3, <2>2, <2>3, <2>4 DEF JournalIInv
<1>4. CASE journalStore # "redis"
  BY <1>1, <1>2, <1>4, SqlExecutes
<1> QED
  BY <1>3, <1>4

LEMMA InsertsMore ==
  ASSUME NEW u, NEW m, NEW v, Longer(v, u, m)
  PROVE  Inserts(v) = Inserts(u) \union ({m.n} \ {0})
<1>1. /\ Len(u) \in Nat /\ Len(v) = Len(u) + 1 /\ v[Len(u) + 1] = m
      /\ \A i \in 1 .. Len(u) : v[i] = u[i] /\ i \in 1 .. Len(v)
      /\ \A i \in 1 .. Len(v) : i \in 1 .. Len(u) \/ i = Len(u) + 1
  BY DEF Longer
<1>2. Len(u) + 1 \in 1 .. Len(v)
  BY <1>1
<1>3. \A n : (\E i \in 1 .. Len(v) : v[i].n = n) <=> n = m.n \/ \E i \in 1 .. Len(u) : u[i].n = n
  BY <1>1, <1>2
<1> QED
  BY <1>3 DEF Inserts

LEMMA SqlEnters ==
  ASSUME NEW j, NEW d, NEW es, EntriesFit(j, d, es), NEW tb, NEW u, NEW lo, NEW cu, SqlKnown(j, d, es, tb, u, lo, cu),
         NEW e, e.ts = d, NEW fs, EntriesFit(j, d, fs), Entered(es, e, fs), NEW m \in Methods, m.n = Len(es) + 1, m.calls = OneRow,
         NEW v, v = Append(u, m)
  PROVE  SqlKnown(j, d, fs, tb, v, lo, cu)
<1> DEFINE N == Len(es) + 1
           I == Inserts(u)
           J == Inserts(v)
<1>1. SqlQueue(j, d, es, u) /\ SqlLost(es, lo) /\ TableKnown(es, tb, I, lo, cu)
  BY DEF SqlKnown
<1>2. /\ Len(fs) = N /\ fs[N] = e /\ DOMAIN es \subseteq DOMAIN fs /\ N \in DOMAIN fs
      /\ \A n \in DOMAIN fs : n \in DOMAIN es \/ n = N
      /\ \A n \in DOMAIN es : fs[n] = es[n] /\ n < N
  BY DEF Entered
<1>3. Len(es) \in Nat /\ N \in Nat /\ N # 0 /\ N \notin DOMAIN es
  BY EntriesAre
<1>4. /\ u \in Seq(Methods) /\ \A i \in 1 .. Len(u) : SqlWriter(d, es, u[i]) \/ SqlPruner(j, d, u[i])
      /\ \A i, k \in 1 .. Len(u) : u[i].n = u[k].n /\ u[i].n # 0 => i = k
  BY <1>1 DEF SqlQueue
<1>5. Longer(v, u, m)
  BY <1>4, LongerIs
<1>6. J = I \union {N} /\ m.n = N
  <2>1. J = I \union ({m.n} \ {0})
    BY <1>5, InsertsMore
  <2> QED
    BY <1>3, <2>1
<1>7. I \subseteq DOMAIN es /\ \A i \in 1 .. Len(u) : u[i].n = 0 \/ u[i].n \in DOMAIN es
  BY <1>1, <1>4, InsertsIs DEF SqlWriter, SqlPruner
<1> HIDE DEF N, I, J
<1>8. \A x : SqlWriter(d, es, x) => SqlWriter(d, fs, x)
  BY <1>2 DEF SqlWriter
<1>9. SqlWriter(d, fs, m)
  BY <1>2, <1>6 DEF SqlWriter
<1>10. SqlQueue(j, d, fs, v)
  <2>1. /\ v \in Seq(Methods) /\ Len(u) \in Nat /\ v[Len(u) + 1] = m
        /\ \A i \in 1 .. Len(u) : v[i] = u[i]
        /\ \A i \in 1 .. Len(v) : i \in 1 .. Len(u) \/ i = Len(u) + 1
    BY <1>5 DEF Longer
  <2>2. \A i \in 1 .. Len(v) : SqlWriter(d, fs, v[i]) \/ SqlPruner(j, d, v[i])
    BY <1>4, <1>8, <1>9, <2>1
  <2>3. \A i, k \in 1 .. Len(v) : v[i].n = v[k].n /\ v[i].n # 0 => i = k
    BY <1>3, <1>4, <1>6, <1>7, <2>1
  <2> QED
    BY <2>1, <2>2, <2>3 DEF SqlQueue
<1>11. SqlLost(fs, lo) /\ ~Gone(N, lo)
  <2>1. 0 .. Len(es) \subseteq 0 .. Len(fs) /\ N \notin 0 .. Len(es)
    BY <1>2, <1>3 DEF N
  <2> QED
    BY <1>1, <2>1 DEF SqlLost, Gone
<1>12. TableKnown(fs, tb, J, lo, cu)
  <2>1. /\ tb \in Seq(DOMAIN es) /\ \A k, l \in 1 .. Len(tb) : tb[k] = tb[l] => k = l
        /\ \A k \in 1 .. Len(tb) : tb[k] \notin I /\ ~Gone(tb[k], lo) /\ es[tb[k]].ts >= cu
        /\ \A x \in DOMAIN es : es[x].ts < cu \/ Gone(x, lo) \/ x \in I \/ \E k \in 1 .. Len(tb) : tb[k] = x
        /\ \A x \in I : x \in DOMAIN es /\ ~Gone(x, lo)
    BY <1>1 DEF TableKnown
  <2>2. \A k \in 1 .. Len(tb) : tb[k] \in DOMAIN es
    BY <2>1, ElementOfSeq
  <2>3. tb \in Seq(DOMAIN fs)
    BY <1>2, <2>1
  <2>4. \A k \in 1 .. Len(tb) : tb[k] \notin J /\ ~Gone(tb[k], lo) /\ fs[tb[k]].ts >= cu
    BY <1>2, <1>3, <1>6, <2>1, <2>2
  <2>5. \A x \in DOMAIN fs : fs[x].ts < cu \/ Gone(x, lo) \/ x \in J \/ \E k \in 1 .. Len(tb) : tb[k] = x
    BY <1>2, <1>6, <2>1
  <2>6. \A x \in J : x \in DOMAIN fs /\ ~Gone(x, lo)
    BY <1>2, <1>6, <1>11, <2>1
  <2> QED
    BY <2>1, <2>3, <2>4, <2>5, <2>6 DEF TableKnown
<1> QED
  BY <1>10, <1>11, <1>12 DEF SqlKnown, J

LEMMA SqlPrunes ==
  ASSUME NEW j, NEW d, NEW es, EntriesFit(j, d, es), NEW tb, NEW u, NEW lo, NEW cu, SqlKnown(j, d, es, tb, u, lo, cu),
         NEW m \in Methods, SqlPruner(j, d, m), NEW v, v = Append(u, m)
  PROVE  SqlKnown(j, d, es, tb, v, lo, cu)
<1>1. SqlQueue(j, d, es, u) /\ SqlLost(es, lo) /\ TableKnown(es, tb, Inserts(u), lo, cu) /\ m.n = 0
  BY DEF SqlKnown, SqlPruner
<1>2. u \in Seq(Methods) /\ \A i \in 1 .. Len(u) : SqlWriter(d, es, u[i]) \/ SqlPruner(j, d, u[i])
  BY <1>1 DEF SqlQueue
<1>3. Longer(v, u, m)
  BY <1>2, LongerIs
<1>4. Inserts(v) = Inserts(u)
  <2>1. Inserts(v) = Inserts(u) \union ({m.n} \ {0})
    BY <1>3, InsertsMore
  <2> QED
    BY <1>1, <2>1
<1>5. SqlQueue(j, d, es, v)
  <2>1. /\ v \in Seq(Methods) /\ Len(u) \in Nat /\ v[Len(u) + 1] = m
        /\ \A i \in 1 .. Len(u) : v[i] = u[i]
        /\ \A i \in 1 .. Len(v) : i \in 1 .. Len(u) \/ i = Len(u) + 1
    BY <1>3 DEF Longer
  <2>2. \A i \in 1 .. Len(v) : SqlWriter(d, es, v[i]) \/ SqlPruner(j, d, v[i])
    BY <1>2, <2>1
  <2>3. \A i, k \in 1 .. Len(u) : u[i].n = u[k].n /\ u[i].n # 0 => i = k
    BY <1>1 DEF SqlQueue
  <2>4. \A i, k \in 1 .. Len(v) : v[i].n = v[k].n /\ v[i].n # 0 => i = k
    BY <1>1, <2>1, <2>3
  <2> QED
    BY <2>1, <2>2, <2>4 DEF SqlQueue
<1> QED
  BY <1>1, <1>4, <1>5 DEF SqlKnown

-----------------------------------------------------------------------------
(* The actions *)

LEMMA EnterKeeps ==
  ASSUME JournalIInv, NEW who \in Whos \union {NoEntity}, NEW what \in Whats, Enter(who, what)
  PROVE  JournalIInv'
<1> DEFINE e == [ts |-> day, who |-> who, what |-> what]
           m == [n |-> Len(entries) + 1, from |-> 0, calls |-> Writes(e)]
<1>1. /\ GoodJournal(journal) /\ journalStore \in {"sqlite", "postgres", "mongo", "redis"}
      /\ EntriesFit(journal, day, entries) /\ Times(day, cutoff, raced) /\ cutoff \in -Retention .. MaxDay
      /\ table \in Seq(DOMAIN entries) /\ lists \in [Lists -> Seq(DOMAIN entries)]
      /\ journalStore = "redis" => RedisKnown(journal, day, entries, lists, underway, lost, cutoff, raced)
      /\ journalStore # "redis" => SqlKnown(journal, day, entries, table, underway, lost, cutoff)
      /\ journalStore = "sqlite" => underway = <<>>
  BY DEF JournalIInv
<1>2. /\ Len(entries) < MaxEntries /\ (who = NoEntity => journal = "timeline") /\ entries' = Append(entries, e) /\ Begin(m)
      /\ journal' = journal /\ journalStore' = journalStore /\ day' = day
  BY DEF Enter
<1>3. e \in [ts : 0 .. MaxDay, who : Whos \union {NoEntity}, what : Whats] /\ e.ts = day /\ GoodEntry(journal, e)
  BY <1>1, <1>2 DEF EntriesFit, GoodEntry
<1>4. Len(entries) \in Nat /\ Len(entries) + 1 \in Nat
  BY <1>1, EntriesAre
<1>5. m.n = Len(entries) + 1 /\ m.from = 0 /\ m.calls = Writes(e)
  OBVIOUS
<1>6. /\ journalStore = "redis" => m = [n |-> Len(entries) + 1, from |-> 0, calls |-> RedisCalls(journal, e)]
      /\ journalStore # "redis" => m.calls = OneRow /\ m \in Methods
  <2>1. OneRow \in Seq(CallSet) /\ 0 \in Int
    BY OneRowIs
  <2>2. \A c \in Seq(CallSet) : [n |-> Len(entries) + 1, from |-> 0, calls |-> c] \in Methods
    BY <1>4, <2>1 DEF Methods
  <2> QED
    BY <1>1, <2>1, <2>2, WritesIs
<1> HIDE DEF e, m
<1>7. EntriesFit(journal, day, entries') /\ Entered(entries, e, entries')
  BY <1>1, <1>2, <1>3, EntryFits
<1>8. table \in Seq(DOMAIN entries') /\ lists \in [Lists -> Seq(DOMAIN entries')]
  <2>1. DOMAIN entries \subseteq DOMAIN entries'
    BY <1>7 DEF Entered
  <2>2. \A s \in Seq(DOMAIN entries) : s \in Seq(DOMAIN entries')
    BY <2>1
  <2>3. \A key \in Lists : lists[key] \in Seq(DOMAIN entries')
    BY <1>1, <2>2
  <2> QED
    BY <1>1, <2>2, <2>3
<1>9. CASE journalStore = "redis"
  <2>1. /\ underway' = Append(underway, m) /\ table' = table /\ lists' = lists /\ lost' = lost /\ raced' = raced /\ cutoff' = cutoff
    BY <1>2, <1>9 DEF Begin
  <2>2. RedisKnown(journal, day, entries', lists, underway', lost, cutoff, raced)
    BY <1>1, <1>3, <1>6, <1>7, <1>9, <2>1, RedisEnters
  <2> QED
    BY <1>1, <1>2, <1>7, <1>8, <1>9, <2>1, <2>2 DEF JournalIInv
<1>10. CASE journalStore \in {"postgres", "mongo"}
  <2>1. /\ underway' = Append(underway, m) /\ table' = table /\ lists' = lists /\ lost' = lost /\ raced' = raced /\ cutoff' = cutoff
    BY <1>2, <1>10 DEF Begin
  <2>2. SqlKnown(journal, day, entries', table, underway', lost, cutoff)
    BY <1>1, <1>3, <1>5, <1>6, <1>7, <1>10, <2>1, SqlEnters
  <2> QED
    BY <1>1, <1>2, <1>7, <1>8, <1>10, <2>1, <2>2 DEF JournalIInv
<1>11. CASE journalStore = "sqlite"
  <2> DEFINE w == Append(<<>>, m)
  <2>1. PICK ok \in BOOLEAN : Perform(m, underway, ok) /\ underway' = underway
    BY <1>2, <1>11 DEF Begin
  <2>2. SqlKnown(journal, day, entries', table, w, lost, cutoff)
    BY <1>1, <1>3, <1>5, <1>6, <1>7, <1>11, SqlEnters
  <2>3. Len(w) = 1 /\ w[1] = m /\ 1 \in 1 .. Len(w)
    OBVIOUS
  <2> HIDE DEF w
  <2>4. Removed(<<>>, w, 1)
    BY <2>3 DEF Removed
  <2>5. SqlReady(entries', w, 1, <<>>)
    BY <1>1, <1>7, <1>11, <2>2, <2>3, <2>4 DEF SqlReady
  <2>6. SqlLeaves(entries', <<>>)
    BY <1>4, <1>5, <2>1, <2>3, <2>5, SqlPerforms
  <2>7. /\ SqlKnown(journal, day, entries', table', <<>>, lost', cutoff') /\ Times(day, cutoff', raced')
        /\ cutoff' \in -Retention .. MaxDay /\ table' \in Seq(DOMAIN entries') /\ lists' = lists
    BY <2>6 DEF SqlLeaves
  <2> QED
    BY <1>1, <1>2, <1>7, <1>8, <1>11, <2>1, <2>7 DEF JournalIInv
<1> QED
  BY <1>1, <1>9, <1>10, <1>11

LEMMA PruneKeeps == ASSUME JournalIInv, PruneOnce PROVE JournalIInv'
<1> DEFINE from == day - Retention
           m == [n |-> 0, from |-> from, calls |-> Prunes(from)]
<1>1. /\ GoodJournal(journal) /\ journalStore \in {"sqlite", "postgres", "mongo", "redis"}
      /\ EntriesFit(journal, day, entries) /\ Times(day, cutoff, raced) /\ cutoff \in -Retention .. MaxDay
      /\ table \in Seq(DOMAIN entries) /\ lists \in [Lists -> Seq(DOMAIN entries)]
      /\ journalStore = "redis" => RedisKnown(journal, day, entries, lists, underway, lost, cutoff, raced)
      /\ journalStore # "redis" => SqlKnown(journal, day, entries, table, underway, lost, cutoff)
      /\ journalStore = "sqlite" => underway = <<>>
  BY DEF JournalIInv
<1>2. journal = "audit" /\ Begin(m) /\ journal' = journal /\ journalStore' = journalStore /\ day' = day /\ entries' = entries
  BY DEF PruneOnce
<1>3. from \in Int
  BY <1>1, EntriesAre, JournalAssumption DEF JournalAssumption
<1>4. m.n = 0 /\ m.from = from /\ m.calls = Prunes(from)
  OBVIOUS
<1>5. \A c \in Seq(CallSet) : [n |-> 0, from |-> from, calls |-> c] \in Methods
  BY <1>3 DEF Methods
<1>6. journalStore # "redis" => m \in Methods /\ SqlPruner(journal, day, m)
  <2> HAVE journalStore # "redis"
  <2>1. m.calls = <<Call("delete", All, from)>> /\ <<Call("delete", All, from)>> \in Seq(CallSet)
    BY <1>1, <1>3, <1>4, PrunesIs, OneRowIs
  <2>2. m \in Methods
    BY <1>4, <1>5, <2>1
  <2> HIDE DEF m
  <2> QED
    BY <1>2, <1>4, <2>1, <2>2 DEF SqlPruner
<1>7. journalStore = "redis" => Pruner(journal, day, m) /\ m.calls[1].op = "scan"
  <2> HAVE journalStore = "redis"
  <2>1. m.calls = <<Call("scan", All, from)>>
    BY <1>1, <1>4, PrunesIs
  <2>2. Call("scan", All, from) \in CallSet /\ Call("scan", All, from).op = "scan"
    BY <1>3 DEF Call, CallSet, Lists, Filters
  <2>3. \A c \in CallSet : <<c>> \in Seq(CallSet) /\ Len(<<c>>) = 1 /\ <<c>>[1] = c
    OBVIOUS
  <2>4. m.calls \in Seq(CallSet) /\ Len(m.calls) = 1 /\ m.calls[1] = Call("scan", All, from)
    BY <2>1, <2>2, <2>3
  <2>5. m \in Methods
    BY <1>4, <1>5, <2>4
  <2> HIDE DEF m
  <2> QED
    BY <1>2, <1>4, <2>2, <2>4, <2>5 DEF Pruner
<1> HIDE DEF m, from
<1>8. CASE journalStore = "redis"
  <2>1. /\ underway' = Append(underway, m) /\ table' = table /\ lists' = lists /\ lost' = lost /\ raced' = raced /\ cutoff' = cutoff
    BY <1>2, <1>8 DEF Begin
  <2>2. RedisKnown(journal, day, entries, lists, underway', lost, cutoff, raced)
    BY <1>1, <1>2, <1>7, <1>8, <2>1, RedisPrunes
  <2> QED
    BY <1>1, <1>2, <1>8, <2>1, <2>2 DEF JournalIInv
<1>9. CASE journalStore \in {"postgres", "mongo"}
  <2>1. /\ underway' = Append(underway, m) /\ table' = table /\ lists' = lists /\ lost' = lost /\ raced' = raced /\ cutoff' = cutoff
    BY <1>2, <1>9 DEF Begin
  <2>2. SqlKnown(journal, day, entries, table, underway', lost, cutoff)
    BY <1>1, <1>6, <1>9, <2>1, SqlPrunes
  <2> QED
    BY <1>1, <1>2, <1>9, <2>1, <2>2 DEF JournalIInv
<1>10. CASE journalStore = "sqlite"
  <2> DEFINE w == Append(<<>>, m)
  <2>1. PICK ok \in BOOLEAN : Perform(m, underway, ok) /\ underway' = underway
    BY <1>2, <1>10 DEF Begin
  <2>2. SqlKnown(journal, day, entries, table, w, lost, cutoff)
    BY <1>1, <1>6, <1>10, SqlPrunes
  <2>3. Len(w) = 1 /\ w[1] = m /\ 1 \in 1 .. Len(w)
    OBVIOUS
  <2> HIDE DEF w
  <2>4. Removed(<<>>, w, 1)
    BY <2>3 DEF Removed
  <2>5. SqlReady(entries, w, 1, <<>>)
    BY <1>1, <1>10, <2>2, <2>3, <2>4 DEF SqlReady
  <2>6. SqlLeaves(entries, <<>>)
    BY <2>1, <2>3, <2>5, SqlPerforms
  <2>7. /\ SqlKnown(journal, day, entries, table', <<>>, lost', cutoff') /\ Times(day, cutoff', raced')
        /\ cutoff' \in -Retention .. MaxDay /\ table' \in Seq(DOMAIN entries) /\ lists' = lists
    BY <2>6 DEF SqlLeaves
  <2> QED
    BY <1>1, <1>2, <1>10, <2>1, <2>7 DEF JournalIInv
<1> QED
  BY <1>1, <1>8, <1>9, <1>10

LEMMA DayKeeps == ASSUME JournalIInv, NextDay PROVE JournalIInv'
<1>1. /\ GoodJournal(journal) /\ journalStore \in {"sqlite", "postgres", "mongo", "redis"}
      /\ EntriesFit(journal, day, entries) /\ Times(day, cutoff, raced) /\ cutoff \in -Retention .. MaxDay
      /\ table \in Seq(DOMAIN entries) /\ lists \in [Lists -> Seq(DOMAIN entries)]
      /\ journalStore = "redis" => RedisKnown(journal, day, entries, lists, underway, lost, cutoff, raced)
      /\ journalStore # "redis" => SqlKnown(journal, day, entries, table, underway, lost, cutoff)
      /\ journalStore = "sqlite" => underway = <<>>
  BY DEF JournalIInv
<1>2. /\ day < MaxDay /\ underway = <<>> /\ day' = day + 1
      /\ UNCHANGED <<journal, journalStore, entries, table, lists, underway, lost, raced, cutoff>>
  BY DEF NextDay
<1>3. EntriesFit(journal, day', entries) /\ Times(day', cutoff, raced)
  BY <1>1, <1>2, EntriesNextDay
<1>4. journalStore = "redis" => RedisKnown(journal, day', entries, lists, underway, lost, cutoff, raced)
  BY <1>1, <1>2, RedisDay
<1>5. journalStore # "redis" => SqlKnown(journal, day', entries, table, underway, lost, cutoff)
  BY <1>1, <1>2, EmptyQueue DEF SqlKnown
<1> QED
  BY <1>1, <1>2, <1>3, <1>4, <1>5 DEF JournalIInv

LEMMA CrashKeeps == ASSUME JournalIInv, JournalCrash PROVE JournalIInv'
<1>1. /\ GoodJournal(journal) /\ journalStore \in {"sqlite", "postgres", "mongo", "redis"}
      /\ EntriesFit(journal, day, entries) /\ Times(day, cutoff, raced) /\ cutoff \in -Retention .. MaxDay
      /\ table \in Seq(DOMAIN entries) /\ lists \in [Lists -> Seq(DOMAIN entries)]
      /\ journalStore = "redis" => RedisKnown(journal, day, entries, lists, underway, lost, cutoff, raced)
      /\ journalStore # "redis" => SqlKnown(journal, day, entries, table, underway, lost, cutoff)
  BY DEF JournalIInv
<1>2. /\ underway' = <<>> /\ lost' = lost \union UNION {Unmade(underway[i]) : i \in DOMAIN underway}
      /\ UNCHANGED <<journal, journalStore, day, entries, table, lists, raced, cutoff>>
  BY DEF JournalCrash
<1>3. DOMAIN underway = 1 .. Len(underway)
  <2>1. underway \in Seq(Methods)
    BY <1>1 DEF RedisKnown, InTurn, SqlKnown, SqlQueue
  <2> QED
    BY <2>1
<1>4. lost' = lost \union UNION {Unmade(underway[i]) : i \in 1 .. Len(underway)}
  BY <1>2, <1>3
<1>5. journalStore = "redis" => RedisKnown(journal, day, entries, lists, <<>>, lost', cutoff, raced)
  BY <1>1, <1>4, RedisCrashes
<1>6. journalStore # "redis" => SqlKnown(journal, day, entries, table, <<>>, lost', cutoff)
  BY <1>1, <1>4, SqlCrashes
<1> QED
  BY <1>1, <1>2, <1>5, <1>6 DEF JournalIInv

LEMMA JournalStep == ASSUME JournalIInv, [JournalsNext]_journalVars PROVE JournalIInv'
<1>1. CASE \E who \in Whos \union {NoEntity}, what \in Whats : Enter(who, what)
  BY <1>1, EnterKeeps
<1>2. CASE PruneOnce BY <1>2, PruneKeeps
<1>3. CASE Executed BY <1>3, ExecutedKeeps
<1>4. CASE NextDay BY <1>4, DayKeeps
<1>5. CASE JournalCrash BY <1>5, CrashKeeps
<1>6. CASE UNCHANGED journalVars
  BY <1>6 DEF JournalIInv, journalVars
<1> QED
  BY <1>1, <1>2, <1>3, <1>4, <1>5, <1>6 DEF JournalsNext

-----------------------------------------------------------------------------
(* What the journals tell *)

LEMMA FilteredAre ==
  ASSUME JournalIInv
  PROVE  /\ Filtered = Keys(journal)
         /\ \A filter \in Filtered : Cap(filter) = Length(journal, filter) /\ Cap(filter) \in Nat
         /\ \A n, filter : Matches(n, filter) <=> Told(entries[n], filter)
<1>1. GoodJournal(journal)
  BY DEF JournalIInv
<1>2. Filtered = Keys(journal)
  BY <1>1 DEF Filtered, Keys, GoodJournal
<1>3. \A filter : Cap(filter) = Length(journal, filter) /\ Cap(filter) \in Nat
  BY JournalAssumption DEF JournalAssumption, Cap, Length
<1>4. \A n, filter : Matches(n, filter) <=> Told(entries[n], filter)
  BY DEF Matches, Told
<1> QED
  BY <1>2, <1>3, <1>4

LEMMA StoresShape == ASSUME JournalIInv PROVE StoreShape /\ JournalTypeOK
<1>1. /\ GoodJournal(journal) /\ journalStore \in {"sqlite", "postgres", "mongo", "redis"}
      /\ EntriesFit(journal, day, entries) /\ cutoff \in -Retention .. MaxDay
      /\ table \in Seq(DOMAIN entries) /\ lists \in [Lists -> Seq(DOMAIN entries)]
      /\ journalStore # "redis" => SqlKnown(journal, day, entries, table, underway, lost, cutoff)
  BY DEF JournalIInv
<1>2. entries \in Seq([ts : 0 .. MaxDay, who : Whos \union {NoEntity}, what : Whats])
  BY <1>1 DEF EntriesFit
<1>3. EntriesShape
  BY <1>1 DEF EntriesFit, EntriesShape, EntriesOK, GoodJournal, Sql
<1>4. Sql => TableShape
  BY <1>1 DEF Sql, SqlKnown, TableKnown, TableShape
<1>5. ASSUME journalStore = "redis", NEW key \in Filtered PROVE ListShape(key)
  <2>1. key \in Keys(journal) /\ \A n : Matches(n, key) <=> Told(entries[n], key)
    BY <1>5, FilteredAre
  <2>2. /\ lists[key] \in Seq(DOMAIN entries) /\ Sinks(lists[key])
        /\ \A i \in 1 .. Len(lists[key]) : lists[key][i] \in Pushed(journal, entries, underway, lost, key)
    BY <1>5, <2>1, ListIsKnown
  <2>3. \A i \in 1 .. Len(lists[key]) : Matches(lists[key][i], key)
    BY <2>1, <2>2 DEF Pushed
  <2>4. \A i, j \in 1 .. Len(lists[key]) : i < j => lists[key][i] > lists[key][j]
    BY <2>2 DEF Sinks
  <2> QED
    BY <2>2, <2>3, <2>4 DEF ListShape
<1> QED
  BY <1>1, <1>2, <1>3, <1>4, <1>5 DEF StoreShape, JournalTypeOK

\* What redis lists and owes.
LEMMA RedisOwes ==
  ASSUME JournalIInv, journalStore = "redis", underway = <<>>, NEW filter \in Filtered,
         NEW P, P = Pushed(journal, entries, underway, lost, filter), NEW bar, bar = Bar(filter, cutoff)
  PROVE  /\ \A n : n \in Owed(filter) <=> n \in P /\ entries[n].ts >= bar
         /\ NewestOwed(filter) = Top(P, Cap(filter), entries, bar)
<1>1. /\ EntriesFit(journal, day, entries) /\ RedisKnown(journal, day, entries, lists, underway, lost, cutoff, raced)
      /\ cutoff \in Int
  BY DEF JournalIInv, Times
<1>2. P = {n \in DOMAIN entries : Told(entries[n], filter) /\ <<n, "push", filter>> \notin lost}
  BY <1>1, EmptyTurn DEF Pushed
<1>3. \A n : <<n, "insert", All>> \notin lost
  BY <1>1 DEF RedisKnown, RedisLost
<1>4. \A n \in DOMAIN entries : entries[n].ts \in Nat
  BY <1>1, EntriesAre
<1>5. ASSUME NEW n PROVE n \in Owed(filter) <=> n \in P /\ entries[n].ts >= bar
  <2>1. n \in P <=> n \in DOMAIN entries /\ Told(entries[n], filter) /\ <<n, "push", filter>> \notin lost
    BY <1>2
  <2>2. n \in DOMAIN entries => (entries[n].ts >= bar <=> (filter = All => entries[n].ts >= cutoff))
    BY <1>4 DEF Bar
  <2>3. n \in Owed(filter) <=> /\ n \in DOMAIN entries /\ Told(entries[n], filter)
                               /\ <<n, "push", filter>> \notin lost /\ (filter = All => entries[n].ts >= cutoff)
    BY <1>3, FilteredAre DEF Owed
  <2> QED
    BY <2>1, <2>2, <2>3
<1>6. \A n \in Owed(filter) : {k \in Owed(filter) : k > n} = Later(P, n)
  <2> TAKE n \in Owed(filter)
  <2>a. n \in P /\ entries[n].ts >= bar
    BY <1>5
  <2>b. P \subseteq DOMAIN entries
    BY <1>2
  <2>c. DOMAIN entries \in SUBSET Nat
    BY <1>1, EntriesAre
  <2>d. bar \in Int
    BY <1>1 DEF Bar
  <2>1. n \in P /\ entries[n].ts >= bar /\ P \subseteq DOMAIN entries /\ DOMAIN entries \in SUBSET Nat /\ bar \in Int
    BY <2>a, <2>b, <2>c, <2>d
  <2>2. \A k \in P : k > n => entries[k].ts >= bar
    <3> TAKE k \in P
    <3> HAVE k > n
    <3>1. n <= k /\ k \in DOMAIN entries /\ n \in DOMAIN entries
      BY <2>1
    <3>2. entries[n].ts <= entries[k].ts
      BY <1>1, <3>1 DEF EntriesFit
    <3> QED
      BY <1>4, <2>1, <3>1, <3>2
  <2> QED
    BY <1>5, <2>2 DEF Later
<1>7. NewestOwed(filter) = {n \in Owed(filter) : Cardinality(Later(P, n)) < Cap(filter)}
  BY <1>6 DEF NewestOwed
<1> QED
  BY <1>5, <1>7 DEF Top

LEMMA RedisTells ==
  ASSUME JournalIInv, journalStore = "redis", underway = <<>>, NEW filter \in Filtered, NEW s, s = lists[filter]
  PROVE  /\ Cardinality(NewestOwed(filter) \ ToSet(s)) <= IF filter = All THEN raced ELSE 0
         /\ ToSet(s) \subseteq Owed(filter)
         /\ Len(s) > Cap(filter) => <<s[1], "trim", filter>> \in lost
<1> DEFINE P == Pushed(journal, entries, underway, lost, filter)
           W == Waits(journal, entries, underway, filter)
           T == Trims(journal, entries, underway, lost, filter)
           bar == Bar(filter, cutoff)
           r == Missed(filter, raced)
<1>1. RedisKnown(journal, day, entries, lists, underway, lost, cutoff, raced) /\ filter \in Keys(journal)
      /\ Cap(filter) = Length(journal, filter)
  BY FilteredAre DEF JournalIInv
<1>2. KeyKnown(s, P, W, T, Cap(filter), entries, bar, r)
  BY <1>1 DEF RedisKnown, ListKnown
<1>3. /\ \A n : n \in Owed(filter) <=> n \in P /\ entries[n].ts >= bar
      /\ NewestOwed(filter) = Top(P, Cap(filter), entries, bar)
  BY RedisOwes
<1>4. \A n \in T : <<n, "trim", filter>> \in lost
  BY EmptyTurn DEF Trims
<1>5. r = IF filter = All THEN raced ELSE 0
  BY DEF Missed
<1> HIDE DEF P, W, T, bar, r
<1>6. /\ s \in Seq(P) /\ \A i \in 1 .. Len(s) : entries[s[i]].ts >= bar
      /\ Len(s) > Cap(filter) => s[1] \in T
      /\ Cardinality(Top(P, Cap(filter), entries, bar) \ Firsts(s, Len(s))) <= r
  BY <1>2 DEF KeyKnown
<1>7. DOMAIN s = 1 .. Len(s) /\ Len(s) \in Nat /\ \A i \in 1 .. Len(s) : s[i] \in P
  BY <1>6, ElementOfSeq
<1>8. ToSet(s) = Firsts(s, Len(s))
  <2>1. {i \in 1 .. Len(s) : i <= Len(s)} = DOMAIN s
    BY <1>7
  <2> QED
    BY <2>1 DEF ToSet, Firsts
<1>9. ToSet(s) \subseteq Owed(filter)
  BY <1>3, <1>6, <1>7 DEF ToSet
<1> QED
  BY <1>3, <1>4, <1>5, <1>6, <1>8, <1>9

LEMMA SqlTells ==
  ASSUME JournalIInv, journalStore # "redis", underway = <<>>, NEW filter \in Filtered
  PROVE  ToSet(Rows(filter, 0)) = Owed(filter) /\ NewestOwed(filter) = Owed(filter)
<1> DEFINE s == Rows(filter, 0)
           S == Found(filter, 0)
<1>1. /\ EntriesFit(journal, day, entries) /\ SqlLost(entries, lost) /\ TableKnown(entries, table, {}, lost, cutoff)
      /\ EntriesShape /\ TableShape
  <2>1. StoreShape /\ Sql
    BY StoresShape DEF JournalIInv, Sql
  <2> QED
    BY <2>1, EmptyQueue DEF JournalIInv, SqlKnown, StoreShape
<1>2. Enumerates(s, S, NewerIn(S)) /\ IsFiniteSet(S)
  <2>1. Enumerates(s, S, NewerIn(S))
    BY <1>1, RowsIs
  <2>2. S \in SUBSET ToSet(table)
    BY DEF Found
  <2> QED
    BY <1>1, <2>1, <2>2, NewerIs
<1>3. ToSet(s) = S
  <2> HIDE DEF s, S
  <2>1. s \in [1 .. Cardinality(S) -> S] /\ \A x \in S : \E i \in 1 .. Cardinality(S) : s[i] = x
    BY <1>2 DEF Enumerates
  <2>2. DOMAIN s = 1 .. Cardinality(S)
    BY <2>1
  <2> QED
    BY <2>1, <2>2 DEF ToSet
<1>4. /\ table \in Seq(DOMAIN entries)
      /\ \A k \in 1 .. Len(table) : ~Gone(table[k], lost) /\ entries[table[k]].ts >= cutoff
      /\ \A n \in DOMAIN entries : entries[n].ts < cutoff \/ Gone(n, lost) \/ \E k \in 1 .. Len(table) : table[k] = n
  BY <1>1 DEF TableKnown
<1>5. DOMAIN table = 1 .. Len(table) /\ \A k \in 1 .. Len(table) : table[k] \in DOMAIN entries
  BY <1>4, ElementOfSeq
<1>6. \A n \in DOMAIN entries : entries[n].ts \in Nat /\ entries[n].ts >= 0
  <2>1. \A n \in DOMAIN entries : entries[n].ts \in Nat
    BY <1>1, EntriesAre
  <2> QED
    BY <2>1
<1>7. cutoff \in Int
  BY DEF JournalIInv, Times
<1>8. \A n : n \in Owed(filter) <=> n \in DOMAIN entries /\ Matches(n, filter) /\ ~Gone(n, lost) /\ entries[n].ts >= cutoff
  <2>1. \A n : <<n, "push", filter>> \notin lost
    BY <1>1 DEF SqlLost
  <2> QED
    BY <2>1 DEF Owed, Gone
<1>9. \A n : n \in S <=> (\E k \in 1 .. Len(table) : table[k] = n) /\ Matches(n, filter) /\ n \in DOMAIN entries
  BY <1>5, <1>6 DEF Found, ToSet
<1>10. S = Owed(filter)
  <2>1. \A n : n \in S => n \in Owed(filter)
    BY <1>4, <1>8, <1>9
  <2>2. \A n : n \in Owed(filter) => n \in S
    <3> TAKE n
    <3> HAVE n \in Owed(filter)
    <3>1. n \in DOMAIN entries /\ Matches(n, filter) /\ ~Gone(n, lost) /\ entries[n].ts >= cutoff
      BY <1>8
    <3>2. ~(entries[n].ts < cutoff)
      BY <1>6, <1>7, <3>1
    <3> QED
      BY <1>4, <1>9, <3>1, <3>2
  <2> HIDE DEF S
  <2> QED
    BY <2>1, <2>2
<1>11. NewestOwed(filter) = Owed(filter)
  BY DEF NewestOwed
<1> QED
  BY <1>3, <1>10, <1>11

LEMMA NothingIsMissing == ASSUME JournalIInv PROVE NothingMissing
<1> SUFFICES ASSUME underway = <<>>, NEW filter \in Filtered
             PROVE  /\ Cardinality(NewestOwed(filter) \ ToSet(Whole(filter))) <= IF filter = All THEN raced ELSE 0
                    /\ ToSet(Whole(filter)) \subseteq Owed(filter)
                    /\ journalStore = "redis" /\ Len(Whole(filter)) > Cap(filter) => <<Whole(filter)[1], "trim", filter>> \in lost
  BY DEF NothingMissing
<1>1. Whole(filter) = Source(filter)
  BY StoresShape, WholeIs
<1>2. CASE journalStore = "redis"
  <2>1. Whole(filter) = lists[filter]
    BY <1>1, <1>2 DEF Source
  <2> QED
    BY <1>2, <2>1, RedisTells
<1>3. CASE journalStore # "redis"
  <2>1. Whole(filter) = Rows(filter, 0)
    BY <1>1, <1>3 DEF Source
  <2>2. ToSet(Whole(filter)) = Owed(filter) /\ NewestOwed(filter) = Owed(filter)
    BY <1>3, <2>1, SqlTells
  <2>3. NewestOwed(filter) \ ToSet(Whole(filter)) = {} /\ Cardinality({}) = 0
    BY <2>2, FS_EmptySet
  <2>4. raced \in Nat
    BY DEF JournalIInv, Times
  <2> QED
    BY <1>3, <2>2, <2>3, <2>4
<1> QED
  BY <1>2, <1>3

LEMMA JournalHolds == ASSUME JournalIInv PROVE JournalInv
BY StoresShape, PagesDoFit, NothingIsMissing DEF JournalInv

\* In every state the rows of the table, or the lists of redis, are what the entries,
\* the calls to come and the calls that were lost make of them.
THEOREM JournalsAreKnown == JournalsSpec => []JournalIInv
<1>1. JournalsInit => JournalIInv
  BY JournalFirst
<1>2. JournalIInv /\ [JournalsNext]_journalVars => JournalIInv'
  BY JournalStep
<1> QED
  BY <1>1, <1>2, PTL DEF JournalsSpec

\* JournalInv: on every store each journal tells every entry it was given, newest first,
\* page by page and with its total, but for what failures, crashes, redis' limits and
\* its prunes cost; and the log of all commands holds nothing older than the retention.
THEOREM JournalsTellAll == JournalsSpec => []JournalInv
<1>1. JournalIInv => JournalInv
  BY JournalHolds
<1> QED
  BY <1>1, JournalsAreKnown, PTL

=============================================================================

--------------------------- MODULE FindingViewProofs ---------------------------
(*****************************************************************************)
(* What a client sees of the findings, for every set of rows and every       *)
(* limit.  Every list is built by putting elements in an order and cutting   *)
(* it; the first part says what that returns, the second what it means for   *)
(* the orders of the query and of the ranking.                               *)
(*****************************************************************************)
EXTENDS FindingViews, FiniteSetTheorems, SequenceTheorems, WellFoundedInduction, TLAPS

-------------------------------------------------------------------------------
(* A set of numbers that is not empty has a least one.                       *)
LEMMA LeastNumber ==
  ASSUME NEW T \in SUBSET Nat, T # {}
  PROVE  \E i \in T : \A j \in T : i <= j
<1> DEFINE Less == {p \in Nat \X Nat : p[1] < p[2]}
<1>1. IsWellFoundedOn(Less, Nat)
  BY NatLessThanWellFounded DEF OpToRel
<1> HIDE DEF Less
<1>2. PICK i \in T : \A j \in T : ~ (<<j, i>> \in Less)
  BY <1>1, WFMin, Zenon
<1>3. \A j \in T : ~ (j < i)
  BY <1>2 DEF Less
<1>4. QED  BY <1>3

(* R compares any two elements of S and puts none before itself.             *)
IsOrder(S, R) ==
  /\ \A x \in S : <<x, x>> \notin R
  /\ \A x, y, z \in S : <<x, y>> \in R /\ <<y, z>> \in R => <<x, z>> \in R
  /\ \A x, y \in S : x = y \/ <<x, y>> \in R \/ <<y, x>> \in R

(* s lists the elements of S, each once, in the order R.                     *)
Lists(s, S, R) ==
  /\ s \in [1..Cardinality(S) -> S]
  /\ \A x \in S : \E n \in 1..Cardinality(S) : s[n] = x
  /\ \A m, n \in 1..Cardinality(S) : m < n => <<s[m], s[n]>> \in R

(* Counting the elements before each puts them in order.                     *)
LEMMA InOrderLists ==
  ASSUME NEW S, IsFiniteSet(S), NEW R, IsOrder(S, R)
  PROVE  Lists(InOrder(S, R), S, R)
<1> DEFINE Below(x) == {y \in S : <<y, x>> \in R}
           place == [x \in S |-> Cardinality(Below(x)) + 1]
           n == Cardinality(S)
<1>1. n \in Nat
  BY FS_CardinalityType
<1>2. \A x \in S : IsFiniteSet(Below(x)) /\ Cardinality(Below(x)) \in Nat
  BY FS_Subset, FS_CardinalityType
<1>3. \A x \in S : Cardinality(Below(x)) + 1 <= n
  <2> TAKE x \in S
  <2>1. Below(x) \in SUBSET S /\ x \notin Below(x)
    BY DEF IsOrder
  <2>2. Cardinality(Below(x)) <= n /\ Cardinality(Below(x)) # n
    BY <2>1, FS_Subset
  <2>3. QED  BY <1>1, <1>2, <2>2
<1>4. place \in [S -> 1..n]
  <2>1. \A x \in S : Cardinality(Below(x)) + 1 \in 1..n
    BY <1>1, <1>2, <1>3
  <2> HIDE DEF Below, n
  <2>2. QED  BY <2>1
<1>5. \A x, y \in S : <<x, y>> \in R => place[x] < place[y]
  <2> SUFFICES ASSUME NEW x \in S, NEW y \in S, <<x, y>> \in R
               PROVE  place[x] < place[y]
    OBVIOUS
  <2>1. Below(x) \in SUBSET Below(y) /\ x \in Below(y) /\ x \notin Below(x)
    BY DEF IsOrder
  <2>2. Cardinality(Below(x)) <= Cardinality(Below(y))
        /\ Cardinality(Below(x)) # Cardinality(Below(y))
    BY <1>2, <2>1, FS_Subset
  <2> HIDE DEF Below
  <2>3. place[x] = Cardinality(Below(x)) + 1 /\ place[y] = Cardinality(Below(y)) + 1
    OBVIOUS
  <2> HIDE DEF place
  <2>4. QED  BY <1>2, <2>2, <2>3
<1> HIDE DEF place
<1>6. \A x, y \in S : place[x] = place[y] => x = y
  <2> SUFFICES ASSUME NEW x \in S, NEW y \in S, place[x] = place[y], x # y
               PROVE  FALSE
    OBVIOUS
  <2>1. place[x] < place[y] \/ place[y] < place[x]
    BY <1>5 DEF IsOrder
  <2>2. place[x] \in Int /\ place[y] \in Int
    BY <1>1, <1>4
  <2>3. QED  BY <2>1, <2>2
<1>7. \A p \in 1..n : \E x \in S : place[x] = p
  <2>1. place \in Injection(S, 1..n)
    BY <1>4, <1>6 DEF Injection, IsInjective
  <2>2. IsFiniteSet(1..n) /\ Cardinality(1..n) = n
    BY <1>1, FS_Interval
  <2>3. place \in Surjection(S, 1..n)
    BY <2>1, <2>2, FS_Injection
  <2>4. QED  BY <2>3 DEF Surjection
<1>8. InOrder(S, R) = [p \in 1..n |-> CHOOSE x \in S : Cardinality(Below(x)) + 1 = p]
  BY DEF InOrder
<1>9. \A p \in 1..n : InOrder(S, R)[p] \in S /\ place[InOrder(S, R)[p]] = p
  <2> TAKE p \in 1..n
  <2>1. \E x \in S : Cardinality(Below(x)) + 1 = p
    BY <1>7 DEF place
  <2> HIDE DEF Below
  <2>2. InOrder(S, R)[p] = CHOOSE x \in S : Cardinality(Below(x)) + 1 = p
    BY <1>8
  <2>3. InOrder(S, R)[p] \in S /\ Cardinality(Below(InOrder(S, R)[p])) + 1 = p
    BY <2>1, <2>2
  <2>4. QED  BY <2>3 DEF place
<1>10. \A x \in S : place[x] \in 1..n /\ InOrder(S, R)[place[x]] = x
  BY <1>4, <1>6, <1>9
<1>11. \A p, q \in 1..n : p < q => <<InOrder(S, R)[p], InOrder(S, R)[q]>> \in R
  <2> SUFFICES ASSUME NEW p \in 1..n, NEW q \in 1..n, p < q
               PROVE  <<InOrder(S, R)[p], InOrder(S, R)[q]>> \in R
    OBVIOUS
  <2> DEFINE x == InOrder(S, R)[p]
             y == InOrder(S, R)[q]
  <2>1. x \in S /\ y \in S /\ place[x] = p /\ place[y] = q
    BY <1>9
  <2> HIDE DEF x, y
  <2>2. x # y /\ ~ (<<y, x>> \in R)
    BY <1>1, <1>5, <2>1
  <2>3. <<x, y>> \in R
    BY <2>1, <2>2 DEF IsOrder
  <2>4. QED  BY <2>3 DEF x, y
<1>12. InOrder(S, R) \in [1..n -> S]
  BY <1>8, <1>9
<1>13. QED  BY <1>10, <1>11, <1>12 DEF Lists

(* A sequence of elements of S is a function on 1..n into S.                 *)
LEMMA FunctionIsSequence ==
  ASSUME NEW S, NEW n \in Nat, NEW s \in [1..n -> S]
  PROVE  s \in Seq(S) /\ Len(s) = n
OBVIOUS

(* Cutting a sequence keeps its beginning.                                   *)
LEMMA FirstNKeeps ==
  ASSUME NEW S, NEW s \in Seq(S), NEW n \in Nat
  PROVE  /\ FirstN(s, n) \in Seq(S)
         /\ Len(FirstN(s, n)) = IF Len(s) < n THEN Len(s) ELSE n
         /\ \A i \in 1..Len(FirstN(s, n)) : i \in 1..Len(s) /\ FirstN(s, n)[i] = s[i]
<1> DEFINE k == IF Len(s) < n THEN Len(s) ELSE n
<1>1. Len(s) \in Nat /\ k \in Nat /\ k <= Len(s) /\ \A i \in 1..Len(s) : s[i] \in S
  OBVIOUS
<1>2. FirstN(s, n) = SubSeq(s, 1, k)
  BY DEF FirstN
<1> HIDE DEF k
<1>3. \A i \in 1..k : s[i] \in S
  BY <1>1
<1>4. /\ SubSeq(s, 1, k) \in Seq(S)
      /\ Len(SubSeq(s, 1, k)) = IF 1 <= k THEN k - 1 + 1 ELSE 0
      /\ \A i \in 1..(k - 1 + 1) : SubSeq(s, 1, k)[i] = s[1 + i - 1]
  BY <1>1, <1>3, SubSeqProperties
<1>5. Len(SubSeq(s, 1, k)) = k /\ \A i \in 1..k : SubSeq(s, 1, k)[i] = s[i]
  BY <1>1, <1>4
<1>6. QED  BY <1>1, <1>2, <1>4, <1>5 DEF k

(* ElementsAt picks the places of P, in their order.                         *)
LEMMA ElementsAtPicks ==
  ASSUME NEW S, NEW s \in Seq(S), NEW P \in SUBSET (1..Len(s))
  PROVE  /\ ElementsAt(s, P) \in Seq(S)
         /\ \E f \in [1..Len(ElementsAt(s, P)) -> P] :
              /\ \A m \in 1..Len(ElementsAt(s, P)) : ElementsAt(s, P)[m] = s[f[m]]
              /\ \A i \in P : \E m \in 1..Len(ElementsAt(s, P)) : f[m] = i
              /\ \A m, n \in 1..Len(ElementsAt(s, P)) : m < n => f[m] < f[n]
<1> DEFINE R == {p \in P \X P : p[1] < p[2]}
           f == InOrder(P, R)
           k == Cardinality(P)
<1>1. IsFiniteSet(P) /\ k \in Nat
  <2>1. Len(s) \in Nat
    OBVIOUS
  <2>2. IsFiniteSet(1..Len(s))
    BY <2>1, FS_Interval
  <2>3. QED  BY <2>2, FS_Subset, FS_CardinalityType
<1>2. \A i, j \in P : <<i, j>> \in R <=> i < j
  OBVIOUS
<1>3. ElementsAt(s, P) = [n \in 1..k |-> s[f[n]]]
  BY DEF ElementsAt
<1> HIDE DEF R
<1>4. IsOrder(P, R)
  BY <1>2 DEF IsOrder
<1>5. Lists(f, P, R)
  BY <1>1, <1>4, InOrderLists
<1> HIDE DEF f, k
<1>6. f \in [1..k -> P] /\ (\A i \in P : \E m \in 1..k : f[m] = i)
      /\ \A m, n \in 1..k : m < n => f[m] < f[n]
  BY <1>2, <1>5 DEF Lists, k
<1>7. \A n \in 1..k : s[f[n]] \in S
  <2>1. \A i \in 1..Len(s) : s[i] \in S
    OBVIOUS
  <2>2. QED  BY <1>6, <2>1
<1>8. ElementsAt(s, P) \in Seq(S) /\ Len(ElementsAt(s, P)) = k
  BY <1>1, <1>3, <1>7, FunctionIsSequence
<1>9. \A m \in 1..k : ElementsAt(s, P)[m] = s[f[m]]
  BY <1>3
<1>10. QED  BY <1>6, <1>8, <1>9

-------------------------------------------------------------------------------
(* The order of tuples of numbers.                                           *)
LEMMA BeforeIsOrder ==
  ASSUME NEW n \in Nat, NEW k \in [1..n -> Int], NEW l \in [1..n -> Int], NEW m \in [1..n -> Int]
  PROVE  /\ ~ Before(k, k)
         /\ Before(k, l) /\ Before(l, m) => Before(k, m)
         /\ k = l \/ Before(k, l) \/ Before(l, k)
<1>1. ~ Before(k, k)
  BY DEF Before
<1>2. ASSUME Before(k, l), Before(l, m)
      PROVE  Before(k, m)
  <2>1. PICK i \in 1..n : k[i] < l[i] /\ \A j \in 1..(i - 1) : k[j] = l[j]
    BY <1>2 DEF Before
  <2>2. PICK h \in 1..n : l[h] < m[h] /\ \A j \in 1..(h - 1) : l[j] = m[j]
    BY <1>2 DEF Before
  <2>3. CASE i < h
    <3>1. k[i] < m[i] /\ \A j \in 1..(i - 1) : k[j] = m[j]
      BY <2>1, <2>2, <2>3
    <3>2. QED  BY <3>1 DEF Before
  <2>4. CASE i = h
    <3>1. k[i] < m[i] /\ \A j \in 1..(i - 1) : k[j] = m[j]
      BY <2>1, <2>2, <2>4
    <3>2. QED  BY <3>1 DEF Before
  <2>5. CASE h < i
    <3>1. k[h] < m[h] /\ \A j \in 1..(h - 1) : k[j] = m[j]
      BY <2>1, <2>2, <2>5
    <3>2. QED  BY <3>1 DEF Before
  <2>6. QED  BY <2>3, <2>4, <2>5
<1>3. ASSUME k # l
      PROVE  Before(k, l) \/ Before(l, k)
  <2> DEFINE T == {i \in 1..n : k[i] # l[i]}
  <2>1. T \in SUBSET Nat /\ T # {}
    <3>1. \E i \in 1..n : k[i] # l[i]
      BY <1>3
    <3>2. PICK i \in 1..n : k[i] # l[i]
      BY <3>1
    <3>3. i \in T
      BY <3>2
    <3>4. T \in SUBSET Nat
      OBVIOUS
    <3> HIDE DEF T
    <3>5. QED  BY <3>3, <3>4
  <2>2. PICK i \in T : \A j \in T : i <= j
    BY <2>1, LeastNumber
  <2>3. i \in 1..n /\ k[i] # l[i] /\ \A j \in 1..(i - 1) : k[j] = l[j] /\ l[j] = k[j]
    BY <2>2
  <2>4. k[i] < l[i] \/ l[i] < k[i]
    BY <2>3
  <2>5. QED  BY <2>3, <2>4 DEF Before
<1>4. QED  BY <1>1, <1>2, <1>3

-------------------------------------------------------------------------------
(* The keys of the two orders are tuples of numbers.                         *)
LEMMA KeysAreNumbers ==
  ASSUME NEW x \in Rows
  PROVE  /\ SortKey(x) \in [1..6 -> Int]
         /\ QueryOrder(x) \in [1..3 -> Int]
         /\ SeverityOrder(x.severity) \in 0..4
         /\ TextOrder(x.severity) \in 0..4
<1>1. x.policy \in Int /\ x.resource \in Int /\ x.severity \in Severities /\ x.minutes \in Nat
  BY ViewsAssumption
<1>2. SeverityOrder(x.severity) \in 0..4 /\ TextOrder(x.severity) \in 0..4
      /\ SeverityRiskBase(x.severity) \in Int
  BY <1>1 DEF Severities, SeverityOrder, TextOrder, SeverityRiskBase
<1>3. RiskScore(x) \in Int
  BY <1>2 DEF RiskScore, AtMost100
<1>4. Rank(Internet(x)) \in Int /\ Rank(Sensitive(x)) \in Int /\ Rank(x.mapped) \in Int
  BY DEF Rank
<1>5. SortKey(x) \in [1..6 -> Int]
  BY <1>1, <1>2, <1>3, <1>4 DEF SortKey
<1>6. QueryOrder(x) \in [1..3 -> Int]
  BY <1>1, <1>2 DEF QueryOrder
<1>7. QED  BY <1>2, <1>5, <1>6

(* Sorting keeps the elements and puts none before one that ranks higher.    *)
LEMMA SortedSorts ==
  ASSUME NEW s \in Seq(Rows)
  PROVE  /\ Sorted(s) \in Seq(Rows)
         /\ Len(Sorted(s)) = Len(s)
         /\ Elements(Sorted(s)) = Elements(s)
         /\ \A p, q \in 1..Len(s) : p <= q => ~ Before(SortKey(Sorted(s)[q]), SortKey(Sorted(s)[p]))
<1> DEFINE n == Len(s)
           f == InOrder(1..n, Earlier(s))
           Key(i) == SortKey(s[i])
<1>1. n \in Nat /\ DOMAIN s = 1..n /\ \A i \in 1..n : s[i] \in Rows
  OBVIOUS
<1>2. IsFiniteSet(1..n) /\ Cardinality(1..n) = n
  <2>1. IsFiniteSet(1..n) /\ Cardinality(1..n) = IF 1 > n THEN 0 ELSE n - 1 + 1
    BY <1>1, FS_Interval
  <2> HIDE DEF n
  <2>2. QED  BY <1>1, <2>1
<1>3. \A i \in 1..n : Key(i) \in [1..6 -> Int]
  BY <1>1, KeysAreNumbers
<1>4. \A i, j \in 1..n : <<i, j>> \in Earlier(s) <=> Before(Key(i), Key(j)) \/ (Key(i) = Key(j) /\ i < j)
  <2> TAKE i, j \in 1..n
  <2>1. i \in DOMAIN s /\ j \in DOMAIN s
    BY <1>1
  <2> HIDE DEF n
  <2>2. QED  BY <2>1 DEF Earlier
<1>5. Sorted(s) = [p \in 1..n |-> s[f[p]]]
  BY <1>1 DEF Sorted
<1> HIDE DEF n, f, Key
<1>6. /\ \A i \in 1..n : ~ Before(Key(i), Key(i))
      /\ \A i, j, h \in 1..n : Before(Key(i), Key(j)) /\ Before(Key(j), Key(h)) => Before(Key(i), Key(h))
      /\ \A i, j \in 1..n : Key(i) = Key(j) \/ Before(Key(i), Key(j)) \/ Before(Key(j), Key(i))
  BY <1>3, BeforeIsOrder
<1>7. IsOrder(1..n, Earlier(s))
  <2>1. \A i \in 1..n : <<i, i>> \notin Earlier(s)
    BY <1>1, <1>4, <1>6
  <2>2. \A i, j, h \in 1..n :
          <<i, j>> \in Earlier(s) /\ <<j, h>> \in Earlier(s) => <<i, h>> \in Earlier(s)
    <3> TAKE i, j, h \in 1..n
    <3> HAVE <<i, j>> \in Earlier(s) /\ <<j, h>> \in Earlier(s)
    <3>1. Before(Key(i), Key(j)) \/ (Key(i) = Key(j) /\ i < j)
      BY <1>4
    <3>2. Before(Key(j), Key(h)) \/ (Key(j) = Key(h) /\ j < h)
      BY <1>4
    <3>3. Before(Key(i), Key(h)) \/ (Key(i) = Key(h) /\ i < h)
      BY <1>1, <1>6, <3>1, <3>2
    <3>4. QED  BY <1>4, <3>3
  <2>3. \A i, j \in 1..n : i = j \/ <<i, j>> \in Earlier(s) \/ <<j, i>> \in Earlier(s)
    <3> TAKE i, j \in 1..n
    <3>1. Key(i) = Key(j) \/ Before(Key(i), Key(j)) \/ Before(Key(j), Key(i))
      BY <1>6
    <3>2. i = j \/ i < j \/ j < i
      BY <1>1
    <3>3. QED  BY <1>4, <3>1, <3>2
  <2>4. QED  BY <2>1, <2>2, <2>3 DEF IsOrder
<1>8. Lists(f, 1..n, Earlier(s))
  BY <1>2, <1>7, InOrderLists DEF f
<1>9. /\ f \in [1..n -> 1..n]
      /\ \A i \in 1..n : \E p \in 1..n : f[p] = i
      /\ \A p, q \in 1..n : p < q => <<f[p], f[q]>> \in Earlier(s)
  BY <1>2, <1>8 DEF Lists
<1>10. Sorted(s) \in Seq(Rows) /\ Len(Sorted(s)) = n
  <2>1. \A p \in 1..n : s[f[p]] \in Rows
    BY <1>1, <1>9
  <2>2. QED  BY <1>1, <1>5, <2>1, FunctionIsSequence
<1>11. Elements(Sorted(s)) = Elements(s)
  <2>1. DOMAIN Sorted(s) = 1..n
    BY <1>5
  <2>2. \A p \in 1..n : Sorted(s)[p] = s[f[p]] /\ f[p] \in 1..n
    BY <1>5, <1>9
  <2>3. \A i \in 1..n : \E p \in 1..n : Sorted(s)[p] = s[i]
    <3> TAKE i \in 1..n
    <3>1. PICK p \in 1..n : f[p] = i
      BY <1>9
    <3>2. QED  BY <2>2, <3>1
  <2>4. Elements(Sorted(s)) \subseteq Elements(s)
    BY <1>1, <2>1, <2>2 DEF Elements
  <2>5. Elements(s) \subseteq Elements(Sorted(s))
    BY <1>1, <2>1, <2>3 DEF Elements
  <2>6. QED  BY <2>4, <2>5
<1>12. \A p, q \in 1..n : p <= q => ~ Before(SortKey(Sorted(s)[q]), SortKey(Sorted(s)[p]))
  <2> TAKE p, q \in 1..n
  <2> HAVE p <= q
  <2>1. f[p] \in 1..n /\ f[q] \in 1..n /\ Sorted(s)[p] = s[f[p]] /\ Sorted(s)[q] = s[f[q]]
    BY <1>5, <1>9
  <2>2. CASE p = q
    BY <1>6, <2>1, <2>2 DEF Key
  <2>3. CASE p < q
    <3>1. Before(Key(f[p]), Key(f[q])) \/ Key(f[p]) = Key(f[q])
      BY <1>4, <1>9, <2>1, <2>3
    <3>2. ~ Before(Key(f[q]), Key(f[p]))
      BY <1>6, <2>1, <3>1
    <3>3. QED  BY <2>1, <3>2 DEF Key
  <2>4. QED  BY <1>1, <2>2, <2>3
<1>13. QED  BY <1>10, <1>11, <1>12 DEF n

(* The failures of a list are those of its elements.                         *)
LEMMA FailsAreFailing ==
  ASSUME NEW s \in Seq(Rows)
  PROVE  Fails(s) \in Seq(Rows) /\ Elements(Fails(s)) = Failing(Elements(s))
<1> DEFINE P == {i \in DOMAIN s : s[i].result = "fail"}
           t == Fails(s)
<1>1. DOMAIN s = 1..Len(s) /\ P \in SUBSET (1..Len(s))
  OBVIOUS
<1>2. t = ElementsAt(s, P)
  BY DEF Fails
<1> HIDE DEF t
<1>3. /\ t \in Seq(Rows)
      /\ \E f \in [1..Len(t) -> P] :
           /\ \A m \in 1..Len(t) : t[m] = s[f[m]]
           /\ \A i \in P : \E m \in 1..Len(t) : f[m] = i
  <2> HIDE DEF P
  <2>1. QED  BY <1>1, <1>2, ElementsAtPicks
<1>4. PICK f \in [1..Len(t) -> P] :
           /\ \A m \in 1..Len(t) : t[m] = s[f[m]]
           /\ \A i \in P : \E m \in 1..Len(t) : f[m] = i
  BY <1>3
<1>5. DOMAIN t = 1..Len(t)
  BY <1>3
<1>6. Elements(t) \subseteq Failing(Elements(s))
  <2>1. \A m \in 1..Len(t) : f[m] \in P /\ t[m] = s[f[m]]
    BY <1>4
  <2>2. QED  BY <1>1, <1>5, <2>1 DEF Elements, Failing
<1>7. Failing(Elements(s)) \subseteq Elements(t)
  <2> SUFFICES ASSUME NEW i \in P PROVE s[i] \in Elements(t)
    BY DEF Elements, Failing
  <2>1. \E m \in 1..Len(t) : t[m] = s[i]
    BY <1>4
  <2>2. QED  BY <1>5, <2>1 DEF Elements
<1>8. QED  BY <1>3, <1>6, <1>7 DEF t

(* UNIQUE (policy_id, resource_id), as far as one scan goes.                 *)
Keyed(rows) == \A x, y \in rows : x.policy = y.policy /\ x.resource = y.resource => x = y

(* A page holds distinct rows, all of them if they fit, and otherwise those  *)
(* that come first by the text of their severity.                            *)
LEMMA PageIsFirst ==
  ASSUME NEW rows \in SUBSET Rows, IsFiniteSet(rows), Keyed(rows), NEW limit \in Nat
  PROVE  /\ Page(rows, limit) \in Seq(rows)
         /\ Cardinality(rows) <= limit => Elements(Page(rows, limit)) = rows
         /\ \A x \in rows \ Elements(Page(rows, limit)) :
              /\ Len(Page(rows, limit)) = limit
              /\ \A y \in Elements(Page(rows, limit)) : TextOrder(y.severity) <= TextOrder(x.severity)
<1> DEFINE R == {p \in rows \X rows : Before(QueryOrder(p[1]), QueryOrder(p[2]))}
           all == InOrder(rows, R)
           page == Page(rows, limit)
           n == Cardinality(rows)
<1>1. n \in Nat
  BY FS_CardinalityType
<1>2. \A x, y \in rows : <<x, y>> \in R <=> Before(QueryOrder(x), QueryOrder(y))
  OBVIOUS
<1>3. page = FirstN(all, limit)
  BY DEF Page
<1> HIDE DEF R, page
<1>4. \A x \in rows : QueryOrder(x) \in [1..3 -> Int]
  BY KeysAreNumbers
<1>5. \A x, y \in rows : QueryOrder(x) = QueryOrder(y) => x = y
  BY DEF QueryOrder, Keyed
<1>6. IsOrder(rows, R)
  <2>1. \A k, l, m \in [1..3 -> Int] :
          /\ ~ Before(k, k)
          /\ Before(k, l) /\ Before(l, m) => Before(k, m)
          /\ k = l \/ Before(k, l) \/ Before(l, k)
    BY BeforeIsOrder
  <2>2. \A x \in rows : <<x, x>> \notin R
    BY <1>2, <1>4, <2>1
  <2>3. \A x, y, z \in rows : <<x, y>> \in R /\ <<y, z>> \in R => <<x, z>> \in R
    BY <1>2, <1>4, <2>1
  <2>4. \A x, y \in rows : x = y \/ <<x, y>> \in R \/ <<y, x>> \in R
    BY <1>2, <1>4, <1>5, <2>1
  <2>5. QED  BY <2>2, <2>3, <2>4 DEF IsOrder
<1>7. Lists(all, rows, R)
  BY <1>6, InOrderLists
<1> HIDE DEF all, n
<1>8. /\ all \in [1..n -> rows]
      /\ \A x \in rows : \E i \in 1..n : all[i] = x
      /\ \A i, j \in 1..n : i < j => Before(QueryOrder(all[i]), QueryOrder(all[j]))
  BY <1>2, <1>7 DEF Lists, n
<1>9. all \in Seq(rows) /\ Len(all) = n
  BY <1>1, <1>8, FunctionIsSequence
<1>10. /\ page \in Seq(rows)
       /\ Len(page) = IF n < limit THEN n ELSE limit
       /\ \A i \in 1..Len(page) : i \in 1..n /\ page[i] = all[i]
  BY <1>3, <1>9, FirstNKeeps
<1>11. DOMAIN page = 1..Len(page)
  BY <1>10
<1>12. n <= limit => Elements(page) = rows
  <2> HAVE n <= limit
  <2>1. Len(page) = n
    BY <1>1, <1>10
  <2>2. \A x \in rows : \E i \in 1..n : page[i] = x
    BY <1>8, <1>10, <2>1
  <2>3. \A i \in 1..n : page[i] \in rows
    BY <1>10, <2>1
  <2>4. QED  BY <1>11, <2>1, <2>2, <2>3 DEF Elements
<1>13. ASSUME NEW x \in rows \ Elements(page)
       PROVE  /\ Len(page) = limit
              /\ \A y \in Elements(page) : TextOrder(y.severity) <= TextOrder(x.severity)
  <2>1. Len(page) = limit
    BY <1>1, <1>10, <1>12, <1>13
  <2>2. PICK j \in 1..n : all[j] = x
    BY <1>8
  <2>3. ~ (j <= Len(page))
    BY <1>1, <1>10, <1>11, <2>2 DEF Elements
  <2>4. ASSUME NEW i \in 1..Len(page)
        PROVE  TextOrder(page[i].severity) <= TextOrder(x.severity)
    <3>1. i \in 1..n /\ i < j /\ page[i] = all[i] /\ all[i] \in rows
      BY <1>1, <1>8, <1>10, <2>1, <2>3
    <3>2. Before(QueryOrder(page[i]), QueryOrder(x))
      BY <1>8, <2>2, <3>1
    <3>3. TextOrder(page[i].severity) \in Int /\ TextOrder(x.severity) \in Int
      <4>1. page[i] \in Rows /\ x \in Rows
        BY <3>1
      <4>2. \A y \in Rows : TextOrder(y.severity) \in 0..4
        BY KeysAreNumbers
      <4>3. QED  BY <4>1, <4>2
    <3>4. QED  BY <3>2, <3>3 DEF Before, QueryOrder
  <2>5. QED  BY <1>11, <2>1, <2>4 DEF Elements
<1>14. QED  BY <1>10, <1>12, <1>13 DEF page, n

(* The score of a severity is its base and at most 20 more.                  *)
LEMMA ScoreBounds ==
  ASSUME NEW x \in Rows
  PROVE  /\ RiskScore(x) \in Int
         /\ SeverityRiskBase(x.severity) <= RiskScore(x)
         /\ RiskScore(x) <= SeverityRiskBase(x.severity) + 20
         /\ RiskScore(x) <= 100
<1>1. SeverityRiskBase(x.severity) \in 0..100
  BY ViewsAssumption DEF Severities, SeverityRiskBase
<1>2. /\ Internet(x) => Sensitive(x) /\ ~ Identity(x)
      /\ Sensitive(x) => ~ Identity(x)
  BY ViewsAssumption DEF Internet, Sensitive, Identity
<1>3. QED  BY <1>1, <1>2 DEF RiskScore, AtMost100

(* Of two failures the ranking puts the more severe first, except that an    *)
(* exposed one of severity info may come before a low one.                   *)
LEMMA RankFollowsSeverity ==
  ASSUME NEW x \in Rows, NEW y \in Rows, ~ Before(SortKey(y), SortKey(x)),
         x.severity # "info" \/ y.severity \in Grave
  PROVE  SeverityOrder(x.severity) <= SeverityOrder(y.severity)
<1> SUFFICES ASSUME SeverityOrder(y.severity) < SeverityOrder(x.severity)
             PROVE  Before(SortKey(y), SortKey(x))
  BY KeysAreNumbers
<1>1. x.severity \in Severities /\ y.severity \in Severities
  BY ViewsAssumption
<1>2. RiskScore(x) <= RiskScore(y)
  BY <1>1, ScoreBounds DEF Severities, Grave, SeverityOrder, SeverityRiskBase
<1>3. RiskScore(x) \in Int /\ RiskScore(y) \in Int
  BY ScoreBounds
<1>4. /\ DOMAIN SortKey(y) = 1..6
      /\ SortKey(x)[1] = -RiskScore(x) /\ SortKey(y)[1] = -RiskScore(y)
      /\ SortKey(x)[2] = SeverityOrder(x.severity) /\ SortKey(y)[2] = SeverityOrder(y.severity)
  BY DEF SortKey
<1>5. CASE RiskScore(x) < RiskScore(y)
  <2>1. SortKey(y)[1] < SortKey(x)[1] /\ \A j \in 1..(1 - 1) : SortKey(y)[j] = SortKey(x)[j]
    BY <1>3, <1>4, <1>5
  <2>2. QED  BY <1>4, <2>1 DEF Before
<1>6. CASE RiskScore(x) = RiskScore(y)
  <2>1. SortKey(y)[2] < SortKey(x)[2] /\ \A j \in 1..(2 - 1) : SortKey(y)[j] = SortKey(x)[j]
    BY <1>4, <1>6
  <2>2. QED  BY <1>4, <2>1 DEF Before
<1>7. QED  BY <1>2, <1>3, <1>5, <1>6

(* Of rows that the text puts first, none of high severity is missing while  *)
(* a lesser one is there.                                                    *)
LEMMA TextKeepsGrave ==
  ASSUME NEW x \in Rows, NEW y \in Rows, x.severity \in Grave,
         TextOrder(y.severity) <= TextOrder(x.severity)
  PROVE  SeverityOrder(y.severity) <= SeverityOrder(x.severity)
<1>1. y.severity \in Severities
  BY ViewsAssumption
<1>2. QED  BY <1>1 DEF Severities, Grave, SeverityOrder, TextOrder

-------------------------------------------------------------------------------
(* The table: finitely many rows, one for each policy and resource.          *)
FindingsStand == findings \in SUBSET Rows /\ IsFiniteSet(findings) /\ Keyed(findings)

LEMMA LimitsAreNumbers ==
  {MaxRows, PageLimit, ResourceLimit, TopN, MaxItems} \subseteq Nat \ {0}
BY ViewsAssumption

(* A part of the table is a table.                                           *)
LEMMA PartStands ==
  ASSUME FindingsStand, NEW rows \in SUBSET findings
  PROVE  rows \in SUBSET Rows /\ IsFiniteSet(rows) /\ Keyed(rows)
<1>1. IsFiniteSet(rows)
  BY FS_Subset DEF FindingsStand
<1>2. QED  BY <1>1 DEF FindingsStand, Keyed

(* What is listed was stored.                                                *)
LEMMA SequenceOfPart ==
  ASSUME NEW S, NEW T \in SUBSET S, NEW s \in Seq(T)
  PROVE  s \in Seq(S) /\ DOMAIN s = 1..Len(s) /\ Elements(s) \subseteq T
<1>1. DOMAIN s = 1..Len(s) /\ \A i \in 1..Len(s) : s[i] \in T
  OBVIOUS
<1>2. QED  BY <1>1 DEF Elements

(* The fix list, as a property of the rows it is made of.                    *)
FixList(rows) == FirstN(Sorted(Page(rows, PageLimit)), MaxItems)

LEMMA FixListIsRanked ==
  ASSUME FindingsStand, NEW rows \in SUBSET findings
  PROVE  /\ FixList(rows) \in Seq(rows)
         /\ \A i, j \in DOMAIN FixList(rows) : i < j =>
              ~ Before(SortKey(FixList(rows)[j]), SortKey(FixList(rows)[i]))
         /\ \A x \in rows \ Elements(FixList(rows)) : x.severity \in Grave =>
              /\ Len(FixList(rows)) \in {PageLimit, MaxItems}
              /\ \A i \in DOMAIN FixList(rows) :
                   SeverityOrder(FixList(rows)[i].severity) <= SeverityOrder(x.severity)
<1> DEFINE page == Page(rows, PageLimit)
           sorted == Sorted(page)
           items == FixList(rows)
<1>1. PageLimit \in Nat /\ MaxItems \in Nat
  BY LimitsAreNumbers
<1>2. rows \in SUBSET Rows /\ IsFiniteSet(rows) /\ Keyed(rows)
  BY PartStands
<1>3. items = FirstN(sorted, MaxItems)
  BY DEF FixList
<1> HIDE DEF items
<1>4. /\ page \in Seq(rows)
      /\ \A x \in rows \ Elements(page) :
           /\ Len(page) = PageLimit
           /\ \A y \in Elements(page) : TextOrder(y.severity) <= TextOrder(x.severity)
  BY <1>1, <1>2, PageIsFirst
<1>5. page \in Seq(Rows) /\ Elements(page) \subseteq rows
  BY <1>2, <1>4, SequenceOfPart
<1>6. /\ sorted \in Seq(Rows) /\ Len(sorted) = Len(page) /\ Elements(sorted) = Elements(page)
      /\ \A p, q \in 1..Len(page) : p <= q => ~ Before(SortKey(sorted[q]), SortKey(sorted[p]))
  BY <1>5, SortedSorts
<1> HIDE DEF page, sorted
<1>7. DOMAIN sorted = 1..Len(sorted) /\ Len(page) \in Nat
  BY <1>5, <1>6
<1>8. /\ items \in Seq(Rows)
      /\ Len(items) = IF Len(sorted) < MaxItems THEN Len(sorted) ELSE MaxItems
      /\ \A i \in 1..Len(items) : i \in 1..Len(sorted) /\ items[i] = sorted[i]
  BY <1>1, <1>3, <1>6, FirstNKeeps
<1>9. DOMAIN items = 1..Len(items) /\ Len(items) \in Nat
  BY <1>8
<1>10. \A i \in DOMAIN items : items[i] \in Elements(page) /\ items[i] \in rows
  BY <1>5, <1>6, <1>7, <1>8, <1>9 DEF Elements
<1>11. items \in Seq(rows)
  BY <1>8, <1>9, <1>10
<1>12. \A i, j \in DOMAIN items : i < j => ~ Before(SortKey(items[j]), SortKey(items[i]))
  BY <1>6, <1>7, <1>8, <1>9
<1>13. ASSUME NEW x \in rows \ Elements(items), x.severity \in Grave
       PROVE  /\ Len(items) \in {PageLimit, MaxItems}
              /\ \A i \in DOMAIN items : SeverityOrder(items[i].severity) <= SeverityOrder(x.severity)
  <2>1. CASE x \notin Elements(page)
    <3>1. Len(page) = PageLimit
          /\ \A y \in Elements(page) : TextOrder(y.severity) <= TextOrder(x.severity)
      BY <1>4, <2>1
    <3>2. Len(items) \in {PageLimit, MaxItems}
      BY <1>6, <1>8, <3>1
    <3>3. \A i \in DOMAIN items : items[i] \in Rows
                                 /\ TextOrder(items[i].severity) <= TextOrder(x.severity)
      BY <1>2, <1>10, <3>1
    <3>4. QED  BY <1>2, <1>13, <3>2, <3>3, TextKeepsGrave
  <2>2. CASE x \in Elements(page)
    <3>1. PICK q \in 1..Len(page) : sorted[q] = x
      BY <1>6, <1>7, <2>2 DEF Elements
    <3>2. ~ (q <= Len(items))
      BY <1>7, <1>8, <1>9, <3>1 DEF Elements
    <3>3. Len(items) = MaxItems
      <4>1. Len(items) = IF Len(page) < MaxItems THEN Len(page) ELSE MaxItems
        BY <1>6, <1>8
      <4>2. QED  BY <1>1, <1>7, <3>2, <4>1
    <3>4. ASSUME NEW i \in DOMAIN items
          PROVE  SeverityOrder(items[i].severity) <= SeverityOrder(x.severity)
      <4>1. i \in 1..Len(page) /\ i <= q /\ items[i] = sorted[i]
        BY <1>6, <1>7, <1>8, <1>9, <3>2
      <4>2. ~ Before(SortKey(x), SortKey(items[i]))
        BY <1>6, <3>1, <4>1
      <4>3. x \in Rows /\ items[i] \in Rows
        BY <1>2, <1>10
      <4>4. QED  BY <1>13, <4>2, <4>3, RankFollowsSeverity
    <3>5. QED  BY <3>3, <3>4
  <2>3. QED  BY <2>1, <2>2
<1>14. QED  BY <1>11, <1>12, <1>13 DEF items

(* Once per policy: the first of each, in their order.                       *)
LEMMA OncePerPolicyPicks ==
  ASSUME NEW s \in Seq(Rows)
  PROVE  /\ OncePerPolicy(s) \in Seq(Rows)
         /\ \E f \in [1..Len(OncePerPolicy(s)) -> 1..Len(s)] :
              /\ \A m \in 1..Len(OncePerPolicy(s)) : OncePerPolicy(s)[m] = s[f[m]]
              /\ \A m, n \in 1..Len(OncePerPolicy(s)) : m < n => f[m] < f[n]
              /\ \A m, n \in 1..Len(OncePerPolicy(s)) : s[f[m]].policy = s[f[n]].policy => m = n
              /\ \A i \in 1..Len(s) : \E m \in 1..Len(OncePerPolicy(s)) :
                   f[m] <= i /\ s[f[m]].policy = s[i].policy
<1> DEFINE P == FirstOfPolicy(s)
           t == OncePerPolicy(s)
<1>1. Len(s) \in Nat /\ DOMAIN s = 1..Len(s)
  OBVIOUS
<1>2. P = {i \in 1..Len(s) : \A j \in 1..(i - 1) : s[j].policy # s[i].policy}
  BY <1>1 DEF FirstOfPolicy
<1>3. t = ElementsAt(s, P)
  BY DEF OncePerPolicy
<1> HIDE DEF P, t
<1>4. P \in SUBSET (1..Len(s))
  BY <1>2
<1>5. /\ t \in Seq(Rows)
      /\ \E f \in [1..Len(t) -> P] :
           /\ \A m \in 1..Len(t) : t[m] = s[f[m]]
           /\ \A i \in P : \E m \in 1..Len(t) : f[m] = i
           /\ \A m, n \in 1..Len(t) : m < n => f[m] < f[n]
  BY <1>3, <1>4, ElementsAtPicks
<1>6. PICK f \in [1..Len(t) -> P] :
           /\ \A m \in 1..Len(t) : t[m] = s[f[m]]
           /\ \A i \in P : \E m \in 1..Len(t) : f[m] = i
           /\ \A m, n \in 1..Len(t) : m < n => f[m] < f[n]
  BY <1>5
<1>7. \A m \in 1..Len(t) : f[m] \in P /\ f[m] \in 1..Len(s)
  BY <1>4, <1>6
<1>8. \A m, n \in 1..Len(t) : m < n => s[f[m]].policy # s[f[n]].policy
  <2> TAKE m, n \in 1..Len(t)
  <2> HAVE m < n
  <2>1. f[m] \in 1..(f[n] - 1)
    BY <1>6, <1>7
  <2>2. QED  BY <1>2, <1>7, <2>1
<1>9. \A m, n \in 1..Len(t) : s[f[m]].policy = s[f[n]].policy => m = n
  <2>1. Len(t) \in Nat
    BY <1>5
  <2>2. \A m, n \in 1..Len(t) : m = n \/ m < n \/ n < m
    BY <2>1
  <2>3. QED  BY <1>8, <2>2
<1>10. ASSUME NEW i \in 1..Len(s)
       PROVE  \E m \in 1..Len(t) : f[m] <= i /\ s[f[m]].policy = s[i].policy
  <2> DEFINE T == {j \in 1..Len(s) : s[j].policy = s[i].policy}
  <2>1. T \in SUBSET Nat /\ i \in T
    BY <1>1
  <2>2. PICK j \in T : \A h \in T : j <= h
    <3> HIDE DEF T
    <3>1. QED  BY <2>1, LeastNumber
  <2>3. j <= i /\ j \in 1..Len(s) /\ s[j].policy = s[i].policy
    BY <2>1, <2>2
  <2>4. \A h \in 1..(j - 1) : s[h].policy # s[j].policy
    <3> SUFFICES ASSUME NEW h \in 1..(j - 1), s[h].policy = s[j].policy
                 PROVE  FALSE
      OBVIOUS
    <3>1. h \in T /\ h < j
      BY <1>1, <2>3
    <3>2. QED  BY <1>1, <2>2, <3>1
  <2>5. j \in P
    BY <1>2, <2>3, <2>4
  <2>6. QED  BY <1>6, <2>3, <2>5
<1>11. f \in [1..Len(t) -> 1..Len(s)]
  BY <1>4, <1>6
<1> HIDE DEF t
<1>12. QED  BY <1>5, <1>6, <1>9, <1>10, <1>11 DEF t

(* The top risks of a list of failures, whatever its length.                 *)
LEMMA TopRisksRank ==
  ASSUME NEW s \in Seq(Rows), NEW n \in Nat
  PROVE  LET top == TopRisks(Sorted(s), n)
             NoWorse(t, x) == ~ Before(SortKey(x), SortKey(t))
         IN /\ \A i, j \in DOMAIN top : top[i].policy = top[j].policy => i = j
            /\ \A x \in Elements(s) :
                 \/ \E i \in DOMAIN top : top[i].policy = x.policy /\ NoWorse(top[i], x)
                 \/ Len(top) = n /\ \A i \in DOMAIN top : NoWorse(top[i], x)
<1> DEFINE r == Sorted(s)
           once == OncePerPolicy(r)
           top == TopRisks(r, n)
<1>1. /\ r \in Seq(Rows) /\ Len(r) = Len(s) /\ Elements(r) = Elements(s)
      /\ \A p, q \in 1..Len(s) : p <= q => ~ Before(SortKey(r[q]), SortKey(r[p]))
  BY SortedSorts
<1>2. top = FirstN(once, n)
  BY DEF TopRisks
<1> HIDE DEF r, top
<1>3. /\ once \in Seq(Rows)
      /\ \E f \in [1..Len(once) -> 1..Len(r)] :
           /\ \A m \in 1..Len(once) : once[m] = r[f[m]]
           /\ \A m, k \in 1..Len(once) : m < k => f[m] < f[k]
           /\ \A m, k \in 1..Len(once) : r[f[m]].policy = r[f[k]].policy => m = k
           /\ \A i \in 1..Len(r) : \E m \in 1..Len(once) : f[m] <= i /\ r[f[m]].policy = r[i].policy
  BY <1>1, OncePerPolicyPicks
<1> HIDE DEF once
<1>4. PICK f \in [1..Len(once) -> 1..Len(r)] :
           /\ \A m \in 1..Len(once) : once[m] = r[f[m]]
           /\ \A m, k \in 1..Len(once) : m < k => f[m] < f[k]
           /\ \A m, k \in 1..Len(once) : r[f[m]].policy = r[f[k]].policy => m = k
           /\ \A i \in 1..Len(r) : \E m \in 1..Len(once) : f[m] <= i /\ r[f[m]].policy = r[i].policy
  BY <1>3
<1>5. /\ top \in Seq(Rows)
      /\ Len(top) = IF Len(once) < n THEN Len(once) ELSE n
      /\ \A i \in 1..Len(top) : i \in 1..Len(once) /\ top[i] = once[i]
  BY <1>2, <1>3, FirstNKeeps
<1>6. Len(once) \in Nat /\ Len(r) \in Nat /\ DOMAIN top = 1..Len(top) /\ DOMAIN r = 1..Len(r)
  BY <1>1, <1>3, <1>5
<1>7. \A i \in 1..Len(top) : i \in 1..Len(once) /\ top[i] = r[f[i]] /\ f[i] \in 1..Len(r)
  BY <1>4, <1>5
<1>8. \A i, j \in DOMAIN top : top[i].policy = top[j].policy => i = j
  <2> SUFFICES ASSUME NEW i \in 1..Len(top), NEW j \in 1..Len(top), top[i].policy = top[j].policy
               PROVE  i = j
    BY <1>6
  <2>1. r[f[i]].policy = r[f[j]].policy
    BY <1>7
  <2>2. i \in 1..Len(once) /\ j \in 1..Len(once)
    BY <1>7
  <2>3. QED  BY <1>4, <2>1, <2>2
<1>9. ASSUME NEW x \in Elements(s)
      PROVE  \/ \E i \in DOMAIN top : top[i].policy = x.policy /\ ~ Before(SortKey(x), SortKey(top[i]))
             \/ Len(top) = n /\ \A i \in DOMAIN top : ~ Before(SortKey(x), SortKey(top[i]))
  <2>1. PICK q \in 1..Len(r) : r[q] = x
    BY <1>1, <1>6 DEF Elements
  <2>2. PICK m \in 1..Len(once) : f[m] <= q /\ r[f[m]].policy = r[q].policy
    BY <1>4
  <2>3. \A p \in 1..Len(r) : p <= q => ~ Before(SortKey(x), SortKey(r[p]))
    BY <1>1, <2>1
  <2>4. CASE m <= Len(top)
    <3>1. m \in 1..Len(top)
      BY <1>6, <2>4
    <3>2. top[m].policy = x.policy /\ ~ Before(SortKey(x), SortKey(top[m]))
      BY <1>7, <2>1, <2>2, <2>3, <3>1
    <3>3. QED  BY <1>6, <3>1, <3>2
  <2>5. CASE ~ (m <= Len(top))
    <3>1. Len(top) = n
      BY <1>5, <1>6, <2>5
    <3>2. \A i \in 1..Len(top) : i < m
      BY <1>6, <2>5, <3>1
    <3>3. \A i \in 1..Len(top) : f[i] <= q
      <4> TAKE i \in 1..Len(top)
      <4>1. i \in 1..Len(once) /\ i < m
        BY <1>7, <3>2
      <4>2. f[i] < f[m]
        BY <1>4, <4>1
      <4>3. f[i] \in Int /\ f[m] \in Int /\ q \in Int
        BY <1>6, <4>1
      <4>4. QED  BY <2>2, <4>2, <4>3
    <3>4. \A i \in 1..Len(top) : ~ Before(SortKey(x), SortKey(top[i]))
      BY <1>7, <2>3, <3>3
    <3>5. QED  BY <1>6, <3>1, <3>4
  <2>6. QED  BY <2>4, <2>5
<1>10. QED  BY <1>8, <1>9 DEF top, r

-------------------------------------------------------------------------------
(* What the summary counts, as a property of the page it read.               *)
LEMMA SummaryCounts ==
  ASSUME FindingsStand
  PROVE  LET page   == Page(findings, PageLimit)
             fails  == Fails(page)
             Of(sev) == OfSeverity(Elements(fails), sev)
             All(sev) == OfSeverity(Failing(findings), sev)
             fits   == Cardinality(findings) <= PageLimit
         IN /\ page \in Seq(Rows) /\ fails \in Seq(Rows)
            /\ Elements(fails) = Failing(Elements(page))
            /\ fits => Elements(fails) = Failing(findings)
            /\ \A sev \in Severities :
                 /\ Cardinality(Of(sev)) <= Cardinality(All(sev))
                 /\ fits => Cardinality(Of(sev)) = Cardinality(All(sev))
            /\ \A sev \in Grave : Cardinality(Of(sev)) < Cardinality(All(sev)) =>
                 /\ Len(page) = PageLimit
                 /\ \A x \in Elements(page) : SeverityOrder(x.severity) <= SeverityOrder(sev)
<1> DEFINE page   == Page(findings, PageLimit)
           fails  == Fails(page)
           Of(sev) == OfSeverity(Elements(fails), sev)
           All(sev) == OfSeverity(Failing(findings), sev)
           fits   == Cardinality(findings) <= PageLimit
<1>1. PageLimit \in Nat /\ findings \in SUBSET Rows /\ IsFiniteSet(findings) /\ Keyed(findings)
  BY LimitsAreNumbers DEF FindingsStand
<1>2. /\ page \in Seq(findings)
      /\ fits => Elements(page) = findings
      /\ \A x \in findings \ Elements(page) :
           /\ Len(page) = PageLimit
           /\ \A y \in Elements(page) : TextOrder(y.severity) <= TextOrder(x.severity)
  BY <1>1, PageIsFirst
<1>3. page \in Seq(Rows) /\ Elements(page) \subseteq findings
  BY <1>1, <1>2, SequenceOfPart
<1>4. fails \in Seq(Rows) /\ Elements(fails) = Failing(Elements(page))
  BY <1>3, FailsAreFailing
<1> HIDE DEF page, fails, fits
<1>5. fits => Elements(fails) = Failing(findings)
  BY <1>2, <1>4
<1>6. \A sev : Of(sev) \in SUBSET All(sev) /\ All(sev) \in SUBSET findings
  BY <1>3, <1>4 DEF OfSeverity, Failing
<1>7. \A sev : Cardinality(Of(sev)) <= Cardinality(All(sev)) /\ (fits => Of(sev) = All(sev))
  <2>1. \A sev : IsFiniteSet(All(sev))
    BY <1>1, <1>6, FS_Subset
  <2>2. \A sev : Cardinality(Of(sev)) <= Cardinality(All(sev))
    BY <1>6, <2>1, FS_Subset
  <2>3. QED  BY <1>5, <2>2
<1>8. ASSUME NEW sev \in Grave, Cardinality(Of(sev)) < Cardinality(All(sev))
      PROVE  /\ Len(page) = PageLimit
             /\ \A x \in Elements(page) : SeverityOrder(x.severity) <= SeverityOrder(sev)
  <2>1. Of(sev) # All(sev)
    <3> HIDE DEF Of, All
    <3>1. IsFiniteSet(All(sev)) /\ Cardinality(All(sev)) \in Nat
      BY <1>1, <1>6, FS_Subset, FS_CardinalityType
    <3>2. QED  BY <1>8, <3>1
  <2>2. PICK x \in All(sev) : x \notin Of(sev)
    BY <1>6, <2>1
  <2>3. x \in findings /\ x \notin Elements(page) /\ x.severity = sev
    BY <1>4, <2>2 DEF OfSeverity, Failing
  <2>4. x \in Rows /\ \A y \in Elements(page) : y \in Rows
    BY <1>1, <1>3, <2>3
  <2>5. QED  BY <1>2, <1>8, <2>3, <2>4, TextKeepsGrave
<1>9. QED  BY <1>3, <1>4, <1>5, <1>7, <1>8 DEF page, fails, fits

(* The resources a list of failures leaves out are protected.                *)
LEMMA ProtectedAreCounted ==
  ASSUME FindingsStand, NEW fails \in Seq(Rows), Elements(fails) = Failing(findings)
  PROVE  Cardinality(Inventory) - Cardinality({fails[i].resource : i \in DOMAIN fails})
           = Cardinality({r \in Inventory : \A x \in Failing(findings) : x.resource # r})
<1> DEFINE risky == {fails[i].resource : i \in DOMAIN fails}
           safe  == {r \in Inventory : \A x \in Failing(findings) : x.resource # r}
<1>1. risky = {x.resource : x \in Failing(findings)}
  BY DEF Elements
<1>2. \A x \in Failing(findings) : x.resource \in Inventory
  BY ViewsAssumption DEF Failing, FindingsStand
<1>3. risky \in SUBSET Inventory /\ safe = Inventory \ risky
  BY <1>1, <1>2
<1> HIDE DEF risky, safe
<1>4. IsFiniteSet(Inventory)
  BY ViewsAssumption
<1>5. Inventory \cap risky = risky
  BY <1>3
<1>6. Cardinality(safe) = Cardinality(Inventory) - Cardinality(risky)
  <2>1. Cardinality(Inventory \ risky) = Cardinality(Inventory) - Cardinality(Inventory \cap risky)
    BY <1>4, FS_Difference
  <2>2. QED  BY <1>3, <1>5, <2>1
<1>7. QED  BY <1>6 DEF risky, safe

(* The least of the severities in a list that is not empty.                  *)
LEMMA LevelIsLeast ==
  ASSUME NEW s \in Seq(Rows)
  PROVE  /\ Elements(s) = {} => RiskLevel(s) = "healthy"
         /\ Elements(s) # {} =>
              \E x \in Elements(s) :
                /\ RiskLevel(s) = x.severity
                /\ \A y \in Elements(s) : SeverityOrder(x.severity) <= SeverityOrder(y.severity)
<1>1. DOMAIN s = 1..Len(s) /\ Len(s) \in Nat /\ \A i \in 1..Len(s) : s[i] \in Rows
  OBVIOUS
<1>2. Elements(s) = {} <=> s = <<>>
  <2>1. Elements(s) = {} <=> Len(s) = 0
    <3>1. Len(s) # 0 => 1 \in 1..Len(s)
      BY <1>1
    <3>2. Len(s) = 0 => DOMAIN s = {}
      BY <1>1
    <3>3. QED  BY <1>1, <3>1, <3>2 DEF Elements
  <2>2. Len(s) = 0 <=> s = <<>>
    BY EmptySeq
  <2>3. QED  BY <2>1, <2>2
<1>3. ASSUME Elements(s) # {}
      PROVE  \E x \in Elements(s) :
               /\ RiskLevel(s) = x.severity
               /\ \A y \in Elements(s) : SeverityOrder(x.severity) <= SeverityOrder(y.severity)
  <2> DEFINE T == {SeverityOrder(s[i].severity) : i \in 1..Len(s)}
             Least(sev) == \A i \in DOMAIN s : SeverityOrder(sev) <= SeverityOrder(s[i].severity)
  <2>1. \A i \in 1..Len(s) : SeverityOrder(s[i].severity) \in 0..4
    BY <1>1, KeysAreNumbers
  <2>2. T \in SUBSET Nat /\ T # {}
    BY <1>1, <1>3, <2>1 DEF Elements
  <2>3. \E n \in T : \A k \in T : n <= k
    <3> HIDE DEF T
    <3>1. QED  BY <2>2, LeastNumber
  <2>4. \E sev \in {s[i].severity : i \in DOMAIN s} : Least(sev)
    BY <1>1, <2>3
  <2>5. RiskLevel(s) = CHOOSE sev \in {s[i].severity : i \in DOMAIN s} : Least(sev)
    BY <1>2, <1>3 DEF RiskLevel
  <2>6. RiskLevel(s) \in {s[i].severity : i \in DOMAIN s} /\ Least(RiskLevel(s))
    <3> HIDE DEF Least
    <3>1. QED  BY <2>4, <2>5
  <2>7. QED  BY <2>6 DEF Elements
<1>4. QED  BY <1>2, <1>3 DEF RiskLevel

(* What the risk of a resource says of all its failures.                     *)
LEMMA LevelOfResource ==
  ASSUME FindingsStand, NEW rows \in SUBSET Failing(findings)
  PROVE  LET level == RiskLevel(Fails(Page(rows, ResourceLimit)))
             Worst(sev) == /\ OfSeverity(rows, sev) # {}
                           /\ \A x \in rows : SeverityOrder(sev) <= SeverityOrder(x.severity)
         IN /\ level = "healthy" <=> rows = {}
            /\ \A sev \in Grave : level = sev <=> Worst(sev)
            /\ rows # {} /\ Cardinality(rows) <= ResourceLimit => Worst(level)
<1> DEFINE page  == Page(rows, ResourceLimit)
           fails == Fails(page)
           level == RiskLevel(fails)
           Worst(sev) == /\ OfSeverity(rows, sev) # {}
                         /\ \A x \in rows : SeverityOrder(sev) <= SeverityOrder(x.severity)
<1>1. ResourceLimit \in Nat /\ ResourceLimit # 0
  BY LimitsAreNumbers
<1>2. rows \in SUBSET findings /\ \A x \in rows : x.result = "fail"
  BY DEF Failing
<1>3. rows \in SUBSET Rows /\ IsFiniteSet(rows) /\ Keyed(rows)
  BY <1>2, PartStands
<1>4. /\ page \in Seq(rows)
      /\ Cardinality(rows) <= ResourceLimit => Elements(page) = rows
      /\ \A x \in rows \ Elements(page) :
           /\ Len(page) = ResourceLimit
           /\ \A y \in Elements(page) : TextOrder(y.severity) <= TextOrder(x.severity)
  BY <1>1, <1>3, PageIsFirst
<1>5. page \in Seq(Rows) /\ DOMAIN page = 1..Len(page) /\ Elements(page) \subseteq rows
  BY <1>3, <1>4, SequenceOfPart
<1>6. fails \in Seq(Rows) /\ Elements(fails) = Elements(page)
  <2>1. fails \in Seq(Rows) /\ Elements(fails) = Failing(Elements(page))
    BY <1>5, FailsAreFailing
  <2>2. Failing(Elements(page)) = Elements(page)
    BY <1>2, <1>5 DEF Failing
  <2>3. QED  BY <2>1, <2>2
<1> HIDE DEF page, fails
<1>7. /\ Elements(page) = {} => level = "healthy"
      /\ Elements(page) # {} =>
           \E x \in Elements(page) :
             /\ level = x.severity
             /\ \A y \in Elements(page) : SeverityOrder(x.severity) <= SeverityOrder(y.severity)
  BY <1>6, LevelIsLeast
<1> HIDE DEF level
<1>8. Elements(page) = {} => rows = {}
  <2> SUFFICES ASSUME NEW x \in rows, Elements(page) = {} PROVE FALSE
    OBVIOUS
  <2>1. 1 \in 1..Len(page)
    BY <1>1, <1>4
  <2>2. QED  BY <1>5, <2>1 DEF Elements
<1>9. CASE rows = {}
  <2>1. level = "healthy"
    BY <1>5, <1>7, <1>9
  <2>2. \A sev : ~ Worst(sev)
    BY <1>9 DEF OfSeverity
  <2>3. QED  BY <1>9, <2>1, <2>2 DEF Grave, level, fails, page
<1>10. CASE rows # {}
  <2>1. PICK w \in Elements(page) :
          /\ level = w.severity
          /\ \A y \in Elements(page) : SeverityOrder(w.severity) <= SeverityOrder(y.severity)
    BY <1>7, <1>8, <1>10
  <2>2. w \in rows /\ w \in Rows /\ w.severity \in Severities
    BY <1>3, <1>5, <2>1, ViewsAssumption
  <2>3. level # "healthy"
    BY <2>1, <2>2 DEF Severities
  <2>4. \A x \in Rows : x.severity \in Severities
    BY ViewsAssumption
  <2>5. ASSUME NEW sev \in Grave, level = sev
        PROVE  Worst(sev)
    <3>1. w \in OfSeverity(rows, sev)
      BY <2>1, <2>2, <2>5 DEF OfSeverity
    <3>2. ASSUME NEW x \in rows
          PROVE  SeverityOrder(sev) <= SeverityOrder(x.severity)
      <4>1. CASE x \in Elements(page)
        BY <2>1, <2>5, <4>1
      <4>2. CASE x \notin Elements(page)
        <5>1. TextOrder(w.severity) <= TextOrder(x.severity) /\ x.severity \in Severities
          BY <1>3, <1>4, <2>1, <2>4, <4>2
        <5>2. w.severity \in Grave
          BY <2>1, <2>5
        <5>3. QED  BY <2>1, <2>5, <5>1, <5>2 DEF Grave, Severities, TextOrder, SeverityOrder
      <4>3. QED  BY <4>1, <4>2
    <3>3. QED  BY <3>1, <3>2
  <2>6. ASSUME NEW sev \in Grave, Worst(sev)
        PROVE  level = sev
    <3>1. PICK x \in rows : x.severity = sev
      BY <2>6 DEF OfSeverity
    <3>2. SeverityOrder(w.severity) <= SeverityOrder(sev)
      <4>1. CASE x \in Elements(page)
        BY <2>1, <3>1, <4>1
      <4>2. CASE x \notin Elements(page)
        <5>1. TextOrder(w.severity) <= TextOrder(x.severity)
          BY <1>4, <2>1, <4>2
        <5>2. x \in Rows
          BY <1>3
        <5>3. QED  BY <2>2, <2>6, <3>1, <5>1, <5>2, TextKeepsGrave
      <4>3. QED  BY <4>1, <4>2
    <3>3. SeverityOrder(sev) <= SeverityOrder(w.severity)
      BY <2>2, <2>6
    <3>4. w.severity = sev
      BY <2>2, <3>2, <3>3 DEF Severities, Grave, SeverityOrder
    <3>5. QED  BY <2>1, <3>4
  <2>7. Cardinality(rows) <= ResourceLimit => Worst(level)
    <3> HAVE Cardinality(rows) <= ResourceLimit
    <3>1. Elements(page) = rows
      BY <1>4
    <3>2. w \in OfSeverity(rows, level)
      BY <2>1, <2>2 DEF OfSeverity
    <3>3. QED  BY <2>1, <3>1, <3>2
  <2> HIDE DEF Worst
  <2>8. /\ level = "healthy" <=> rows = {}
        /\ \A sev \in Grave : level = sev <=> Worst(sev)
        /\ rows # {} /\ Cardinality(rows) <= ResourceLimit => Worst(level)
    BY <1>10, <2>3, <2>5, <2>6, <2>7
  <2>9. QED  BY <2>8 DEF Worst, level, fails, page
<1>11. QED  BY <1>9, <1>10

-------------------------------------------------------------------------------
(* The inductive invariant: the table stands, and what was served from it    *)
(* keeps its promises.                                                       *)
NoInfo == \A x \in Rows : x.severity # "info"

ViewsInvariant ==
  /\ FindingsStand
  /\ NoInfo => SevereFirst
  /\ TopRisksAreTheWorst
  /\ WorstAreNotCut
  /\ CountsMissOnlyTheLesser
  /\ RiskLevelIsTheWorst

LEMMA InitViews == Init => ViewsInvariant
BY FS_EmptySet DEF Init, ViewsInvariant, FindingsStand, Keyed, NoView, Served, SevereFirst,
   TopRisksAreTheWorst, WorstAreNotCut, CountsMissOnlyTheLesser, RiskLevelIsTheWorst

(* Storing a finding keeps the table in order.                               *)
LEMMA FindingsStandAfter == FindingsStand /\ [Next]_vars => FindingsStand'
<1> SUFFICES ASSUME FindingsStand, [Next]_vars PROVE FindingsStand'
  OBVIOUS
<1>1. CASE StoreFinding
  <2>1. PICK x \in Rows :
          /\ \A y \in findings : y.policy # x.policy \/ y.resource # x.resource
          /\ findings' = findings \cup {x}
    BY <1>1 DEF StoreFinding
  <2>2. IsFiniteSet(findings')
    BY <2>1, FS_AddElement DEF FindingsStand
  <2>3. QED  BY <2>1, <2>2 DEF FindingsStand, Keyed
<1>2. CASE ~ StoreFinding
  <2>1. findings' = findings
    BY <1>2 DEF Next, GetRiskSummary, GetFixPriorities, GetAssetRisk, vars
  <2>2. QED  BY <2>1 DEF FindingsStand
<1>3. QED  BY <1>1, <1>2

(* A response is one of the three, and the table does not change with it.    *)
LEMMA ServedBy ==
  ASSUME Next
  PROVE  /\ Served("priorities")' =>
              findings' = findings /\ view'.items = FixList(Failing(findings))
         /\ Served("summary")' => GetRiskSummary
         /\ Served("resource")' => \E r \in Inventory : GetAssetRisk(r)
<1>1. CASE StoreFinding
  BY <1>1 DEF StoreFinding, Served, NoView
<1>2. CASE GetRiskSummary
  <2>1. view'.kind = "summary"
    BY <1>2 DEF GetRiskSummary
  <2>2. QED  BY <1>2, <2>1 DEF Served
<1>3. CASE GetFixPriorities
  <2>1. view'.kind = "priorities" /\ view'.items = FixList(Failing(findings)) /\ findings' = findings
    BY <1>3 DEF GetFixPriorities, FixList
  <2>2. QED  BY <2>1 DEF Served
<1>4. ASSUME NEW r \in Inventory, GetAssetRisk(r)
      PROVE  Served("resource")' /\ ~ Served("summary")' /\ ~ Served("priorities")'
  BY <1>4 DEF GetAssetRisk, Served
<1>5. QED  BY <1>1, <1>2, <1>3, <1>4 DEF Next

LEMMA SevereFirstServed ==
  ASSUME NoInfo, FindingsStand, Next
  PROVE  SevereFirst'
<1> SUFFICES ASSUME Served("priorities")',
                    NEW i \in DOMAIN view'.items, NEW j \in DOMAIN view'.items, i < j
             PROVE  SeverityOrder(view'.items[i].severity) <= SeverityOrder(view'.items[j].severity)
  BY DEF SevereFirst
<1> DEFINE items == FixList(Failing(findings))
<1>1. view'.items = items
  BY ServedBy
<1>2. Failing(findings) \in SUBSET findings
  BY DEF Failing
<1>3. /\ items \in Seq(Failing(findings))
      /\ \A p, q \in DOMAIN items : p < q => ~ Before(SortKey(items[q]), SortKey(items[p]))
  BY <1>2, FixListIsRanked
<1> HIDE DEF items
<1>4. \A p \in DOMAIN items : items[p] \in Rows
  BY <1>2, <1>3 DEF FindingsStand
<1>5. QED  BY <1>1, <1>3, <1>4, RankFollowsSeverity DEF NoInfo

LEMMA WorstAreNotCutServed ==
  ASSUME FindingsStand, Next
  PROVE  WorstAreNotCut'
<1> DEFINE items == FixList(Failing(findings))
<1> SUFFICES ASSUME Served("priorities")'
             PROVE  \A x \in Failing(findings') \ Elements(view'.items) : x.severity \in Grave =>
                      /\ Len(view'.items) \in {PageLimit, MaxItems}
                      /\ \A i \in DOMAIN view'.items :
                           SeverityOrder(view'.items[i].severity) <= SeverityOrder(x.severity)
  BY DEF WorstAreNotCut, Failing, Elements
<1>1. view'.items = items /\ findings' = findings
  BY ServedBy
<1>2. Failing(findings) \in SUBSET findings
  BY DEF Failing
<1>3. \A x \in Failing(findings) \ Elements(items) : x.severity \in Grave =>
        /\ Len(items) \in {PageLimit, MaxItems}
        /\ \A i \in DOMAIN items : SeverityOrder(items[i].severity) <= SeverityOrder(x.severity)
  BY <1>2, FixListIsRanked
<1> HIDE DEF items
<1>4. QED  BY <1>1, <1>3

(* The summary as GetRiskSummary builds it.                                  *)
LEMMA SummaryServed ==
  ASSUME FindingsStand, Next, Served("summary")'
  PROVE  LET page  == Page(findings, PageLimit)
             fails == Fails(page)
         IN /\ findings' = findings
            /\ view'.page = page
            /\ view'.counts = [sev \in Severities |-> Cardinality(OfSeverity(Elements(fails), sev))]
            /\ view'.protected = Cardinality(Inventory)
                                   - Cardinality({fails[i].resource : i \in DOMAIN fails})
            /\ view'.top = TopRisks(Sorted(fails), TopN)
<1>1. GetRiskSummary
  BY ServedBy
<1>2. QED  BY <1>1 DEF GetRiskSummary

LEMMA TopRisksServed ==
  ASSUME FindingsStand, Next
  PROVE  TopRisksAreTheWorst'
<1> DEFINE page  == Page(findings, PageLimit)
           fails == Fails(page)
           top   == TopRisks(Sorted(fails), TopN)
<1> SUFFICES ASSUME Served("summary")' PROVE TopRisksAreTheWorst'
  BY DEF TopRisksAreTheWorst
<1>1. view'.page = page /\ view'.top = top
  BY SummaryServed
<1>2. fails \in Seq(Rows) /\ Elements(fails) = Failing(Elements(page))
  BY SummaryCounts
<1>3. TopN \in Nat
  BY LimitsAreNumbers
<1> HIDE DEF page, fails
<1>4. /\ \A i, j \in DOMAIN top : top[i].policy = top[j].policy => i = j
      /\ \A x \in Elements(fails) :
           \/ \E i \in DOMAIN top : top[i].policy = x.policy /\ ~ Before(SortKey(x), SortKey(top[i]))
           \/ Len(top) = TopN /\ \A i \in DOMAIN top : ~ Before(SortKey(x), SortKey(top[i]))
  BY <1>2, <1>3, TopRisksRank
<1> HIDE DEF top
<1>5. QED  BY <1>1, <1>2, <1>4 DEF TopRisksAreTheWorst, Failing, Elements

LEMMA CountsServed ==
  ASSUME FindingsStand, Next
  PROVE  CountsMissOnlyTheLesser'
<1> DEFINE page  == Page(findings, PageLimit)
           fails == Fails(page)
           N(sev) == Cardinality(OfSeverity(Failing(findings), sev))
           fits  == Cardinality(findings) <= PageLimit
<1> SUFFICES ASSUME Served("summary")' PROVE CountsMissOnlyTheLesser'
  BY DEF CountsMissOnlyTheLesser
<1>1. /\ findings' = findings /\ view'.page = page
      /\ view'.counts = [sev \in Severities |-> Cardinality(OfSeverity(Elements(fails), sev))]
      /\ view'.protected = Cardinality(Inventory)
                             - Cardinality({fails[i].resource : i \in DOMAIN fails})
  BY SummaryServed
<1>2. /\ fails \in Seq(Rows)
      /\ fits => Elements(fails) = Failing(findings)
      /\ \A sev \in Severities :
           /\ Cardinality(OfSeverity(Elements(fails), sev)) <= N(sev)
           /\ fits => Cardinality(OfSeverity(Elements(fails), sev)) = N(sev)
      /\ \A sev \in Grave : Cardinality(OfSeverity(Elements(fails), sev)) < N(sev) =>
           /\ Len(page) = PageLimit
           /\ \A x \in Elements(page) : SeverityOrder(x.severity) <= SeverityOrder(sev)
  BY SummaryCounts
<1> HIDE DEF page, fails, fits
<1>3. fits => view'.protected =
        Cardinality({r \in Inventory : \A x \in Failing(findings) : x.resource # r})
  BY <1>1, <1>2, ProtectedAreCounted
<1>4. \A sev \in Severities : view'.counts[sev] = Cardinality(OfSeverity(Elements(fails), sev))
  BY <1>1
<1>5. Grave \subseteq Severities
  BY DEF Grave, Severities
<1>6. /\ \A sev \in Severities : view'.counts[sev] <= N(sev) /\ (fits => view'.counts[sev] = N(sev))
      /\ \A sev \in Grave : view'.counts[sev] < N(sev) =>
           /\ Len(view'.page) = PageLimit
           /\ \A x \in Elements(view'.page) : SeverityOrder(x.severity) <= SeverityOrder(sev)
  BY <1>1, <1>2, <1>4, <1>5
<1>7. QED  BY <1>1, <1>3, <1>6 DEF CountsMissOnlyTheLesser, fits, Failing, Elements, OfSeverity

LEMMA LevelServed ==
  ASSUME FindingsStand, Next
  PROVE  RiskLevelIsTheWorst'
<1> SUFFICES ASSUME Served("resource")' PROVE RiskLevelIsTheWorst'
  BY DEF RiskLevelIsTheWorst
<1>1. PICK r \in Inventory : GetAssetRisk(r)
  BY ServedBy
<1> DEFINE rows == RowsOfResource(r)
           level == RiskLevel(Fails(Page(rows, ResourceLimit)))
<1>2. findings' = findings /\ view'.resource = r /\ view'.level = level
  BY <1>1 DEF GetAssetRisk
<1>3. rows = {x \in Failing(findings) : x.resource = r}
  BY DEF RowsOfResource
<1> HIDE DEF rows
<1>4. rows \in SUBSET Failing(findings)
  BY <1>3
<1>5. /\ level = "healthy" <=> rows = {}
      /\ \A sev \in Grave : level = sev <=>
           /\ OfSeverity(rows, sev) # {}
           /\ \A x \in rows : SeverityOrder(sev) <= SeverityOrder(x.severity)
      /\ rows # {} /\ Cardinality(rows) <= ResourceLimit =>
           /\ OfSeverity(rows, level) # {}
           /\ \A x \in rows : SeverityOrder(level) <= SeverityOrder(x.severity)
  BY <1>4, LevelOfResource
<1> HIDE DEF level
<1>6. QED  BY <1>2, <1>3, <1>5 DEF RiskLevelIsTheWorst, Failing, OfSeverity

LEMMA NextViews == ViewsInvariant /\ [Next]_vars => ViewsInvariant'
<1> SUFFICES ASSUME ViewsInvariant, [Next]_vars PROVE ViewsInvariant'
  OBVIOUS
<1>1. FindingsStand /\ FindingsStand'
  BY FindingsStandAfter DEF ViewsInvariant
<1>2. CASE Next
  <2>1. NoInfo => SevereFirst'
    BY <1>1, <1>2, SevereFirstServed
  <2>2. NoInfo' => NoInfo
    BY DEF NoInfo
  <2>3. QED  BY <1>1, <1>2, <2>1, <2>2, TopRisksServed, WorstAreNotCutServed, CountsServed,
                LevelServed DEF ViewsInvariant
<1>3. CASE UNCHANGED vars
  <2>1. findings' = findings /\ view' = view
    BY <1>3 DEF vars
  <2>2. QED  BY <2>1 DEF ViewsInvariant, FindingsStand, NoInfo, Served, SevereFirst,
     TopRisksAreTheWorst, WorstAreNotCut, CountsMissOnlyTheLesser, RiskLevelIsTheWorst
<1>4. QED  BY <1>2, <1>3

(* The table stands in every reachable state, and every view served from it  *)
(* keeps what the five properties say.                                       *)
THEOREM ViewsHold == Spec => []ViewsInvariant
<1>1. QED  BY InitViews, NextViews, PTL DEF Spec

(* The fix list starts with the most severe failures, whatever exposes or    *)
(* eases them, for every table without a finding of severity info (no policy *)
(* of the catalogue has it): the bonuses of the score never lift a failure   *)
(* over a more severe one (compute_risk_signals, fix_priority_sort_key).     *)
THEOREM FixListStartsWithSevere ==
  ASSUME NoInfo
  PROVE  Spec => []SevereFirst
<1>1. ViewsInvariant => SevereFirst
  BY DEF ViewsInvariant
<1>2. QED  BY <1>1, ViewsHold, PTL

(* Nothing that ranks worse is left out of the top risks, for every page and *)
(* every length of the list (build_risk_summary).                            *)
THEOREM TopRisksAreWorst == Spec => []TopRisksAreTheWorst
<1>1. ViewsInvariant => TopRisksAreTheWorst
  BY DEF ViewsInvariant
<1>2. QED  BY <1>1, ViewsHold, PTL

(* The limits of the query and of the fix list cut no critical or high       *)
(* failure before a lesser one (list_failures, build_fix_priorities).        *)
THEOREM GraveAreListed == Spec => []WorstAreNotCut
<1>1. ViewsInvariant => WorstAreNotCut
  BY DEF ViewsInvariant
<1>2. QED  BY <1>1, ViewsHold, PTL

(* The counts of the summary are exact while the page holds all rows, and    *)
(* miss a critical or high failure only for rows as severe                   *)
(* (get_scan_risk_summary).                                                  *)
THEOREM CountsAreHonest == Spec => []CountsMissOnlyTheLesser
<1>1. ViewsInvariant => CountsMissOnlyTheLesser
  BY DEF ViewsInvariant
<1>2. QED  BY <1>1, ViewsHold, PTL

(* A resource is called healthy only without a failure, and critical or high *)
(* exactly when its worst failure is (list_by_resource, build_resource_risk).*)
THEOREM LevelIsHonest == Spec => []RiskLevelIsTheWorst
<1>1. ViewsInvariant => RiskLevelIsTheWorst
  BY DEF ViewsInvariant
<1>2. QED  BY <1>1, ViewsHold, PTL

===============================================================================

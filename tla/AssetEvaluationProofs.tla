------------------------- MODULE AssetEvaluationProofs -------------------------
(*****************************************************************************)
(* Proofs about AssetEvaluation, for every snapshot an account can deliver   *)
(* and every policy.  First the logic of a policy, by induction over its     *)
(* nodes; then identities; then the inventory, whose inductive invariant is  *)
(* InventoryInvariant; and what a verdict says of the delivered resources.   *)
(*****************************************************************************)
EXTENDS AssetEvaluation, FiniteSetTheorems, WellFoundedInduction, TLAPS

(*****************************************************************************)
(* The logic of a policy                                                     *)
(*****************************************************************************)

(* A set of numbers that is not empty has a least one.                       *)
LEMMA LeastNumber ==
  ASSUME NEW T \in SUBSET Nat, T # {}
  PROVE  \E i \in T : \A j \in T : i <= j
<1> DEFINE Less == {p \in Nat \X Nat : p[1] < p[2]}
<1>1. IsWellFoundedOn(Less, Nat)
  BY NatLessThanWellFounded DEF OpToRel
<1> HIDE DEF Less
<1>2. PICK i \in T : \A j \in T : ~ (<<j, i>> \in Less)
  BY <1>1, WFMin, Zenon
<1>3. \A j \in T : ~ (j < i)
  BY <1>2 DEF Less
<1>4. QED  BY <1>3

(* What the value of a node is, given those of the nodes after it.           *)
ValueFrom(logic, a, value, i) ==
  IF logic[i].type = "field_check" THEN FieldCheck(logic[i], a[logic[i].path])
  ELSE IF logic[i].type = "compound"
  THEN Compound(logic[i].operator, [k \in DOMAIN logic[i].conditions |-> value[logic[i].conditions[k]]])
  ELSE Raised

(* It depends on nothing else.                                               *)
LEMMA ValueFromLater ==
  ASSUME NEW logic, IsLogic(logic), NEW a, NEW i \in DOMAIN logic, NEW v, NEW w,
         \A j \in DOMAIN logic : i < j => v[j] = w[j]
  PROVE  ValueFrom(logic, a, v, i) = ValueFrom(logic, a, w, i)
<1>1. CASE logic[i].type = "compound"
  <2>1. /\ Len(logic) \in Nat /\ DOMAIN logic = 1..Len(logic)
        /\ logic[i].conditions \in Seq((i + 1)..Len(logic))
    BY <1>1 DEF IsLogic
  <2> DEFINE places == logic[i].conditions
  <2>2. \A k \in DOMAIN places : places[k] \in (i + 1)..Len(logic)
    BY <2>1
  <2>3. \A k \in DOMAIN places : places[k] \in DOMAIN logic /\ i < places[k]
    BY <2>1, <2>2
  <2>4. [k \in DOMAIN places |-> v[places[k]]] = [k \in DOMAIN places |-> w[places[k]]]
    BY <2>3
  <2>5. QED  BY <2>4 DEF ValueFrom
<1>2. CASE logic[i].type # "compound"
  BY <1>2 DEF ValueFrom
<1>3. QED  BY <1>1, <1>2

(* So the values can be computed, from the last node to the first: were      *)
(* there a list of nodes at the end of the logic without values, the         *)
(* shortest would be one node longer than a list with values.                *)
LEMMA ValuesAreComputed ==
  ASSUME NEW logic, IsLogic(logic), NEW a
  PROVE  Values(logic, a) = [i \in DOMAIN logic |-> ValueFrom(logic, a, Values(logic, a), i)]
<1> DEFINE n == Len(logic)
           Computed(v, m) == v = [i \in (n - m + 1)..n |-> ValueFrom(logic, a, v, i)]
           T == {m \in 0..n : ~ \E v : Computed(v, m)}
<1>1. n \in Nat /\ DOMAIN logic = 1..n
  BY DEF IsLogic
<1>2. T = {}
  <2> SUFFICES ASSUME T # {}
               PROVE  FALSE
    OBVIOUS
  <2>1. T \in SUBSET Nat /\ \A m : m \in T <=> m \in 0..n /\ ~ \E v : Computed(v, m)
    BY <1>1
  <2>2. PICK m \in T : \A j \in T : m <= j
    BY <2>1, LeastNumber
  <2>3. 0 \notin T
    <3>1. Computed([i \in {} |-> {}], 0)
      BY <1>1
    <3> HIDE DEF Computed, T
    <3>2. QED  BY <2>1, <3>1
  <2> HIDE DEF T
  <2>4. m \in 0..n /\ m # 0 /\ m - 1 \in 0..n /\ \E v : Computed(v, m - 1)
    <3>1. m \in 0..n /\ m # 0
      BY <2>1, <2>3
    <3>2. m - 1 \in 0..n /\ ~ (m <= m - 1)
      BY <1>1, <3>1
    <3>3. m - 1 \notin T
      BY <2>2, <3>2
    <3> HIDE DEF Computed
    <3>4. QED  BY <2>1, <3>1, <3>2, <3>3
  <2>5. PICK v : Computed(v, m - 1)
    BY <2>4
  <2> DEFINE first == n - m + 1
             w == [i \in first..n |-> IF i = first THEN ValueFrom(logic, a, v, i) ELSE v[i]]
  <2>6. /\ first \in DOMAIN logic /\ first \in first..n
        /\ \A i \in first..n : i \in DOMAIN logic
        /\ \A i : i \in (first + 1)..n <=> i \in first..n /\ i # first
        /\ \A i \in first..n, j \in DOMAIN logic : i < j => j \in first..n /\ j # first
    BY <1>1, <2>4
  <2>7. v = [i \in (first + 1)..n |-> ValueFrom(logic, a, v, i)]
    <3>1. n - (m - 1) + 1 = first + 1
      BY <1>1, <2>4
    <3>2. QED  BY <2>5, <3>1
  <2> HIDE DEF first
  <2>8. ASSUME NEW i \in first..n
        PROVE  ValueFrom(logic, a, w, i) = ValueFrom(logic, a, v, i)
    <3>1. \A j \in DOMAIN logic : i < j => w[j] = v[j]
      BY <2>6
    <3>2. QED  BY <2>6, <3>1, ValueFromLater
  <2>9. \A i \in first..n : w[i] = ValueFrom(logic, a, v, i)
    BY <2>6, <2>7
  <2>10. w = [i \in first..n |-> ValueFrom(logic, a, w, i)]
    BY <2>8, <2>9
  <2>11. Computed(w, m)
    BY <2>10 DEF first
  <2> HIDE DEF w, Computed
  <2>12. QED  BY <2>1, <2>11
<1>3. \E v : v = [i \in DOMAIN logic |-> ValueFrom(logic, a, v, i)]
  <2>1. n \notin T /\ n \in 0..n /\ n - n + 1 = 1
    BY <1>1, <1>2
  <2>2. QED  BY <1>1, <2>1
<1>4. Values(logic, a) = CHOOSE v : v = [i \in DOMAIN logic |-> ValueFrom(logic, a, v, i)]
  BY Zenon DEF Values, ValueFrom
<1> HIDE DEF T
<1>5. QED  BY <1>3, <1>4, Zenon

(* Neither the order of the results nor their number matters to a compound.  *)
LEMMA CompoundIgnoresOrder ==
  ASSUME NEW op, NEW r, NEW s, Range(r) = Range(s)
  PROVE  Compound(op, s) = Compound(op, r)
<1> DEFINE holds(t) == {i \in DOMAIN t : t[i] = "true"}
<1>1. \A x : (\E i \in DOMAIN s : s[i] = x) <=> (\E i \in DOMAIN r : r[i] = x)
  <2>1. \A x : x \in Range(s) <=> \E i \in DOMAIN s : s[i] = x
    BY DEF Range
  <2>2. \A x : x \in Range(r) <=> \E i \in DOMAIN r : r[i] = x
    BY DEF Range
  <2>3. QED  BY <2>1, <2>2
<1>2. (\E i \in DOMAIN s : s[i] = Raised) <=> (\E i \in DOMAIN r : r[i] = Raised)
  BY <1>1
<1>3. (holds(s) = DOMAIN s) <=> (holds(r) = DOMAIN r)
  <2>1. (\A i \in DOMAIN s : s[i] = "true") <=> (\A i \in DOMAIN r : r[i] = "true")
    BY <1>1
  <2>2. QED  BY <2>1
<1>4. (holds(s) # {}) <=> (holds(r) # {})
  <2>1. (\E i \in DOMAIN s : s[i] = "true") <=> (\E i \in DOMAIN r : r[i] = "true")
    BY <1>1
  <2>2. QED  BY <2>1
<1>5. QED  BY <1>2, <1>3, <1>4 DEF Compound, Truth

(* The same nodes at the same places, whatever the order of the conditions.  *)
Reorders(logic, other) ==
  /\ IsLogic(other) /\ DOMAIN other = DOMAIN logic
  /\ \A i \in DOMAIN logic :
       /\ logic[i].type # "compound" => other[i] = logic[i]
       /\ logic[i].type = "compound" =>
            /\ other[i].type = "compound" /\ other[i].operator = logic[i].operator
            /\ Range(other[i].conditions) = Range(logic[i].conditions)

(* Reversing the conditions is one way of reordering them.                   *)
LEMMA ReversedReorders ==
  ASSUME NEW logic, IsLogic(logic)
  PROVE  Reorders(logic, Reversed(logic))
<1> DEFINE n == Len(logic)
           turned == Reversed(logic)
<1>1. n \in Nat /\ DOMAIN logic = 1..n /\ n # 0
  BY DEF IsLogic
<1>2. DOMAIN turned = 1..n /\ turned \in Seq(Range(turned)) /\ Len(turned) = n /\ turned # <<>>
  BY <1>1 DEF Reversed, Range
<1>3. ASSUME NEW i \in DOMAIN logic, logic[i].type = "compound"
      PROVE  /\ turned[i].type = "compound" /\ turned[i].operator = logic[i].operator
             /\ turned[i].conditions = Reverse(logic[i].conditions)
  BY <1>3 DEF Reversed
<1>4. ASSUME NEW i \in DOMAIN logic, logic[i].type # "compound"
      PROVE  turned[i] = logic[i]
  BY <1>4 DEF Reversed
<1>5. ASSUME NEW i \in DOMAIN logic, logic[i].type = "compound"
      PROVE  turned[i].conditions \in Seq((i + 1)..n)
  <2> DEFINE places == logic[i].conditions
  <2>1. places \in Seq((i + 1)..n)
    BY <1>5 DEF IsLogic
  <2>2. /\ Len(places) \in Nat
        /\ \A k \in 1..Len(places) : Len(places) - k + 1 \in 1..Len(places)
        /\ \A k \in 1..Len(places) : places[k] \in (i + 1)..n
    BY <2>1
  <2> HIDE DEF places, n
  <2>3. \A k \in 1..Len(places) : places[Len(places) - k + 1] \in (i + 1)..n
    BY <2>2
  <2>4. Reverse(places) \in Seq((i + 1)..n)
    BY <2>2, <2>3 DEF Reverse
  <2>5. QED  BY <1>3, <1>5, <2>4 DEF places
<1>6. ASSUME NEW i \in DOMAIN logic, turned[i].type = "fail_when"
      PROVE  turned[i].condition \in (i + 1)..n
  <2>1. logic[i].type # "compound"
    BY <1>3, <1>6
  <2>2. QED  BY <1>4, <1>6, <2>1 DEF IsLogic
<1>7. ASSUME NEW i \in DOMAIN logic, turned[i].type = "compound"
      PROVE  logic[i].type = "compound"
  BY <1>4, <1>7
<1>8. ASSUME NEW i \in DOMAIN logic, logic[i].type = "compound"
      PROVE  Range(turned[i].conditions) = Range(logic[i].conditions)
  <2> DEFINE places == logic[i].conditions
  <2>1. Len(places) \in Nat /\ DOMAIN places = 1..Len(places)
    <3>1. places \in Seq((i + 1)..n)
      BY <1>8 DEF IsLogic
    <3>2. QED  BY <3>1
  <2> HIDE DEF places, n
  <2>2. \A k \in 1..Len(places) :
          /\ Len(places) - k + 1 \in 1..Len(places)
          /\ Len(places) - (Len(places) - k + 1) + 1 = k
    BY <2>1
  <2>3. Reverse(places) = [k \in 1..Len(places) |-> places[Len(places) - k + 1]]
    BY DEF Reverse
  <2>4. \A x : (\E k \in 1..Len(places) : Reverse(places)[k] = x) <=> (\E k \in 1..Len(places) : places[k] = x)
    BY <2>2, <2>3
  <2>5. DOMAIN Reverse(places) = DOMAIN places
    BY <2>1, <2>3
  <2>6. Range(Reverse(places)) = Range(places)
    BY <2>1, <2>4, <2>5 DEF Range
  <2>7. QED  BY <1>3, <1>8, <2>6 DEF places
<1> HIDE DEF turned
<1>9. IsLogic(turned)
  BY <1>1, <1>2, <1>5, <1>6, <1>7 DEF IsLogic
<1>10. QED  BY <1>1, <1>2, <1>3, <1>4, <1>8, <1>9 DEF turned, Reorders

(* Two logics agree at every node when they do so where all later nodes      *)
(* agree: were there a node where they differ, they would not at the last.   *)
LEMMA ReorderedHasTheSameResult ==
  ASSUME NEW logic, IsLogic(logic), NEW other, Reorders(logic, other), NEW a
  PROVE  Result(other, a) = Result(logic, a)
<1> DEFINE n == Len(logic)
           v == Values(logic, a)
           w == Values(other, a)
           T == {m \in 0..n : \E i \in 1..n : i = n - m /\ v[i] # w[i]}
<1>1. n \in Nat /\ DOMAIN logic = 1..n /\ n # 0 /\ DOMAIN other = 1..n /\ IsLogic(other)
  BY DEF IsLogic, Reorders
<1>2. \A i \in 1..n : v[i] = ValueFrom(logic, a, v, i) /\ w[i] = ValueFrom(other, a, w, i)
  <2>1. v = [i \in 1..n |-> ValueFrom(logic, a, v, i)]
    BY <1>1, ValuesAreComputed
  <2>2. w = [i \in 1..n |-> ValueFrom(other, a, w, i)]
    BY <1>1, ValuesAreComputed
  <2> HIDE DEF v, w
  <2>3. QED  BY <2>1, <2>2
<1>3. ASSUME NEW i \in 1..n, \A j \in 1..n : i < j => v[j] = w[j]
      PROVE  v[i] = w[i]
  <2> HIDE DEF v, w
  <2>1. CASE logic[i].type # "compound"
    <3>1. other[i] = logic[i]
      BY <1>1, <2>1 DEF Reorders
    <3>2. QED  BY <1>2, <2>1, <3>1 DEF ValueFrom
  <2>2. CASE logic[i].type = "compound"
    <3> DEFINE places == logic[i].conditions
               turned == other[i].conditions
               r == [k \in DOMAIN places |-> v[places[k]]]
               s == [k \in DOMAIN turned |-> w[turned[k]]]
               op == logic[i].operator
    <3>1. other[i].type = "compound" /\ other[i].operator = op /\ Range(turned) = Range(places)
      BY <1>1, <2>2 DEF Reorders
    <3>2. v[i] = Compound(op, r) /\ w[i] = Compound(op, s)
      BY <1>2, <2>2, <3>1 DEF ValueFrom
    <3>3. \A x \in Range(places) : v[x] = w[x]
      <4>1. places \in Seq((i + 1)..n)
        BY <1>1, <2>2 DEF IsLogic
      <4>2. \A k \in DOMAIN places : places[k] \in (i + 1)..n
        BY <4>1
      <4> HIDE DEF places, n
      <4>3. \A k \in DOMAIN places : places[k] \in 1..n /\ i < places[k]
        BY <1>1, <4>2
      <4>4. QED  BY <1>3, <4>3 DEF Range
    <3> HIDE DEF op, places, turned
    <3>4. \A y : y \in Range(r) <=> \E x \in Range(places) : y = v[x]
      BY DEF Range
    <3>5. \A y : y \in Range(s) <=> \E x \in Range(turned) : y = w[x]
      BY DEF Range
    <3>6. Range(r) = Range(s)
      <4> HIDE DEF r, s
      <4>1. QED  BY <3>1, <3>3, <3>4, <3>5
    <3> HIDE DEF r, s
    <3>7. Compound(op, s) = Compound(op, r)
      BY <3>6, CompoundIgnoresOrder
    <3>8. QED  BY <3>2, <3>7
  <2>3. QED  BY <2>1, <2>2
<1> HIDE DEF v, w
<1>4. T = {}
  <2> SUFFICES ASSUME T # {}
               PROVE  FALSE
    OBVIOUS
  <2>1. /\ T \in SUBSET Nat
        /\ \A m : m \in T <=> m \in 0..n /\ \E i \in 1..n : i = n - m /\ v[i] # w[i]
    BY <1>1
  <2> HIDE DEF T
  <2>2. PICK m \in T : \A j \in T : m <= j
    BY <2>1, LeastNumber
  <2>3. m \in 0..n /\ n - m \in 1..n /\ v[n - m] # w[n - m]
    BY <1>1, <2>1
  <2>4. ASSUME NEW j \in 1..n, n - m < j
        PROVE  v[j] = w[j]
    <3>1. n - j \in 0..n /\ n - j < m /\ n - (n - j) = j
      BY <1>1, <2>3, <2>4
    <3>2. n - j \notin T
      <4>1. ~ (m <= n - j)
        BY <1>1, <2>3, <3>1
      <4>2. QED  BY <2>2, <4>1
    <3>3. QED  BY <2>1, <3>1, <3>2
  <2>5. QED  BY <1>3, <2>3, <2>4
<1>5. ASSUME NEW i \in 1..n
      PROVE  v[i] = w[i]
  <2>1. n - i \in 0..n /\ i = n - (n - i)
    BY <1>1
  <2>2. QED  BY <1>4, <2>1
<1>6. Top(logic) \in 1..n /\ Top(other) = Top(logic)
  <2>1. 1 \in DOMAIN logic
    BY <1>1
  <2>2. CASE logic[1].type = "compound"
    BY <1>1, <2>1, <2>2 DEF Top, Reorders
  <2>3. CASE logic[1].type # "compound"
    BY <1>1, <2>1, <2>3 DEF Top, IsLogic, Reorders
  <2>4. QED  BY <2>2, <2>3
<1>7. QED  BY <1>5, <1>6 DEF Result, Evaluate, v, w

(*****************************************************************************)
(* The inventory                                                             *)
(*****************************************************************************)

(* The delivered items that become rows, and those that have so far.         *)
Known == {at \in Collected : bronze[at[1]].provider_type \in KnownTypes}
Past == {at \in Known : at[1] < next}

RowOf(at) == Row(Item(at), bronze[at[1]].resource_type)

Stages ==
  /\ bronze \in Snapshots /\ policy \in Policies(bronze)
  /\ pc \in {"normalize", "failed", "insert_resources", "insert_relationships", "evaluate", "done"}
  /\ next \in 1..(Len(bronze) + 1)
  /\ pc \notin {"normalize", "failed"} => next = Len(bronze) + 1
  /\ pc \in {"insert_relationships", "evaluate", "done"} => resources = <<>>
  /\ pc \in {"evaluate", "done"} => rels = {}

(* A row, stored or not yet, is that of an item under the id of that item.   *)
RowsAreDelivered ==
  /\ resources \in Seq({RowOf(at) : at \in Past})
  /\ \A id \in DOMAIN rows : \E at \in Past : id = ResourceId(Item(at)) /\ rows[id] = RowOf(at)

(* No item is lost: its row is on the way, or its id is taken.               *)
ItemsAreKept ==
  \A at \in Past : \/ ResourceId(Item(at)) \in DOMAIN rows
                   \/ \E k \in DOMAIN resources : resources[k] = RowOf(at)

RelationshipsAreKept == \A at \in Past : Relationships(Item(at)) \subseteq rels \cup edges

VerdictsFollowRows ==
  pc = "done" =>
    verdicts = [id \in {i \in DOMAIN rows : MatchesAsset(policy, rows[i])} |->
                  Result(policy.logic, rows[id].properties)]

InventoryInvariant ==
  /\ Stages
  /\ RowsAreDelivered
  /\ ItemsAreKept
  /\ RelationshipsAreKept
  /\ VerdictsFollowRows

LEMMA DeliveredItems ==
  ASSUME Stages
  PROVE  /\ IsSnapshot(bronze) /\ Len(bronze) \in Nat /\ DOMAIN bronze = 1..Len(bronze) /\ next \in Nat
         /\ \A at \in Collected : /\ at[1] \in DOMAIN bronze /\ at[1] \in Nat
                                 /\ at[2] \in DOMAIN bronze[at[1]].items /\ at = <<at[1], at[2]>>
         /\ \A f \in DOMAIN bronze : \A i \in DOMAIN bronze[f].items : <<f, i>> \in Collected
         /\ \A at \in Collected : Item(at).type = bronze[at[1]].provider_type
<1>1. IsSnapshot(bronze)
  BY SnapshotAssumption DEF Stages
<1>2. Len(bronze) \in Nat /\ DOMAIN bronze = 1..Len(bronze) /\ next \in Nat
  <2>1. bronze \in Seq(Range(bronze))
    BY <1>1, Zenon DEF IsSnapshot
  <2>2. next \in 1..(Len(bronze) + 1)
    BY DEF Stages
  <2>3. QED  BY <2>1, <2>2
<1>3. \A at \in Collected : /\ at[1] \in DOMAIN bronze /\ at[1] \in Nat
                            /\ at[2] \in DOMAIN bronze[at[1]].items /\ at = <<at[1], at[2]>>
  BY <1>2 DEF Collected, Delivered
<1>4. \A f \in DOMAIN bronze : \A i \in DOMAIN bronze[f].items : <<f, i>> \in Collected
  BY DEF Collected, Delivered
<1>5. \A at \in Collected : Item(at).type = bronze[at[1]].provider_type
  BY <1>1 DEF IsSnapshot, Collected, Item
<1>6. QED  BY <1>1, <1>2, <1>3, <1>4, <1>5

LEMMA InitHolds == Init => InventoryInvariant
<1> SUFFICES ASSUME Init
             PROVE  InventoryInvariant
  OBVIOUS
<1> USE DEF Init
<1>1. Stages
  <2>1. IsSnapshot(bronze)
    BY SnapshotAssumption
  <2>2. bronze \in Seq(Range(bronze))
    BY <2>1, Zenon DEF IsSnapshot
  <2>3. Len(bronze) \in Nat /\ 1 \in 1..(Len(bronze) + 1)
    BY <2>2
  <2>4. QED  BY <2>3 DEF Stages
<1>2. Past = {}
  BY <1>1, DeliveredItems DEF Past, Known
<1>3. RowsAreDelivered
  BY DEF RowsAreDelivered, NoRows
<1>4. ItemsAreKept /\ RelationshipsAreKept
  BY <1>2 DEF ItemsAreKept, RelationshipsAreKept
<1>5. QED  BY <1>1, <1>3, <1>4 DEF InventoryInvariant, VerdictsFollowRows

(* The rows and relationships of the next file are those of its items.       *)
LEMMA FileBecomesPast ==
  ASSUME InventoryInvariant, NormalizeFile, ~ RaisesKeyError(bronze[next])
  PROVE  /\ Past \subseteq Past'
         /\ \A at \in Past' : at \in Past \/ at[1] = next
         /\ NormalizeBronze(bronze[next]).resources \in Seq({RowOf(at) : at \in Past'})
         /\ \A at \in Past' : at[1] = next =>
              /\ \E k \in DOMAIN NormalizeBronze(bronze[next]).resources :
                   NormalizeBronze(bronze[next]).resources[k] = RowOf(at)
              /\ Relationships(Item(at)) \subseteq NormalizeBronze(bronze[next]).relationships
<1> DEFINE file == bronze[next]
           T == {RowOf(at) : at \in Past'}
<1>1. Stages /\ next \in DOMAIN bronze /\ next' = next + 1 /\ bronze' = bronze
  BY DEF InventoryInvariant, NormalizeFile
<1>2. Known' = Known /\ \A at \in Known : at \in Collected /\ at[1] \in Nat /\ next \in Nat
  BY <1>1, DeliveredItems DEF Known, Collected
<1>3. Past' = {at \in Known : at[1] < next + 1}
  BY <1>1, <1>2 DEF Past
<1>4. Past \subseteq Past' /\ \A at \in Past' : at \in Past \/ at[1] = next
  BY <1>2, <1>3 DEF Past
<1>5. CASE file.provider_type \notin KnownTypes
  <2>1. NormalizeBronze(file).resources = <<>>
    BY <1>5 DEF NormalizeBronze
  <2>2. \A at \in Past' : at[1] # next
    BY <1>3, <1>5 DEF Known
  <2> HIDE DEF T, file
  <2>3. NormalizeBronze(file).resources \in Seq(T)
    BY <2>1
  <2>4. QED  BY <1>4, <2>2, <2>3 DEF T, file
<1>6. CASE file.provider_type \in KnownTypes
  <2> DEFINE new == NormalizeBronze(file).resources
  <2>1. /\ new = [i \in DOMAIN file.items |-> Row(file.items[i], file.resource_type)]
        /\ NormalizeBronze(file).relationships = UNION {Relationships(file.items[i]) : i \in DOMAIN file.items}
    BY <1>6 DEF NormalizeBronze
  <2>2. file.items \in Seq(Range(file.items))
    BY <1>1, DeliveredItems DEF IsSnapshot
  <2>3. Len(file.items) \in Nat /\ DOMAIN file.items = 1..Len(file.items)
    BY <2>2
  <2>4. ASSUME NEW i \in DOMAIN file.items
        PROVE  new[i] \in T
    <3> DEFINE at == <<next, i>>
    <3>1. at \in Past'
      BY <1>1, <1>2, <1>3, <1>6, DeliveredItems DEF Known
    <3>2. RowOf(at) = new[i]
      BY <2>1 DEF RowOf, Item, ItemOf
    <3>3. QED  BY <3>1, <3>2
  <2>5. new \in Seq(T)
    <3> DEFINE n == Len(file.items)
    <3>1. \A i \in 1..n : Row(file.items[i], file.resource_type) \in T
      BY <2>1, <2>3, <2>4
    <3>2. new = [i \in 1..n |-> Row(file.items[i], file.resource_type)] /\ n \in Nat
      BY <2>1, <2>3
    <3> HIDE DEF T, file, new, n
    <3>3. [i \in 1..n |-> Row(file.items[i], file.resource_type)] \in Seq(T)
      BY <3>1, <3>2
    <3>4. QED  BY <3>2, <3>3
  <2>6. ASSUME NEW at \in Past', at[1] = next
        PROVE  /\ \E k \in DOMAIN new : new[k] = RowOf(at)
               /\ Relationships(Item(at)) \subseteq NormalizeBronze(file).relationships
    <3>1. at \in Collected /\ at[2] \in DOMAIN file.items
      BY <1>1, <1>2, <1>3, <2>6, DeliveredItems
    <3>2. Item(at) = file.items[at[2]] /\ RowOf(at) = new[at[2]]
      BY <2>1, <2>6, <3>1 DEF RowOf, Item, ItemOf
    <3>3. QED  BY <2>1, <3>1, <3>2
  <2>7. QED  BY <1>4, <2>5, <2>6
<1>7. QED  BY <1>5, <1>6

LEMMA NormalizeFileKeeps ==
  InventoryInvariant /\ NormalizeFile => InventoryInvariant'
<1> SUFFICES ASSUME InventoryInvariant, NormalizeFile
             PROVE  InventoryInvariant'
  OBVIOUS
<1>1. /\ UNCHANGED <<bronze, policy, rows, edges, verdicts>> /\ pc = "normalize" /\ next \in DOMAIN bronze
      /\ Stages
  BY DEF NormalizeFile, InventoryInvariant
<1>2. \A at : RowOf(at)' = RowOf(at) /\ Item(at)' = Item(at)
  BY <1>1 DEF RowOf, Item
<1>3. CASE RaisesKeyError(bronze[next])
  <2>1. pc' = "failed" /\ UNCHANGED <<next, resources, rels>>
    BY <1>3 DEF NormalizeFile
  <2>2. Past' = Past
    BY <1>1, <2>1 DEF Past, Known, Collected
  <2>3. Stages'
    BY <1>1, <2>1 DEF Stages
  <2>4. RowsAreDelivered' /\ ItemsAreKept' /\ RelationshipsAreKept' /\ VerdictsFollowRows'
    BY <1>1, <1>2, <2>1, <2>2 DEF InventoryInvariant, RowsAreDelivered, ItemsAreKept, RelationshipsAreKept,
       VerdictsFollowRows
  <2>5. QED  BY <2>3, <2>4 DEF InventoryInvariant
<1>4. CASE ~ RaisesKeyError(bronze[next])
  <2> DEFINE new == NormalizeBronze(bronze[next]).resources
             T == {RowOf(at) : at \in Past'}
             S == {RowOf(at) : at \in Past}
  <2>1. /\ resources' = resources \o new
        /\ rels' = rels \cup NormalizeBronze(bronze[next]).relationships
        /\ next' = next + 1 /\ pc' = pc
    BY <1>4 DEF NormalizeFile
  <2>2. /\ Past \subseteq Past' /\ \A at \in Past' : at \in Past \/ at[1] = next
        /\ new \in Seq(T)
        /\ \A at \in Past' : at[1] = next =>
             /\ \E k \in DOMAIN new : new[k] = RowOf(at)
             /\ Relationships(Item(at)) \subseteq NormalizeBronze(bronze[next]).relationships
    BY <1>4, FileBecomesPast
  <2>3. resources \in Seq(T)
    <3>1. S \subseteq T
      BY <2>2
    <3>2. resources \in Seq(S)
      BY DEF InventoryInvariant, RowsAreDelivered
    <3> HIDE DEF S, T
    <3>3. QED  BY <3>1, <3>2
  <2> HIDE DEF new
  <2>4. Stages'
    <3>1. next + 1 \in 1..(Len(bronze) + 1)
      BY <1>1, DeliveredItems
    <3>2. QED  BY <1>1, <2>1, <3>1 DEF Stages
  <2>5. RowsAreDelivered'
    <3>1. {RowOf(at) : at \in Past}' = T
      BY <1>2
    <3>2. resources' \in Seq(T)
      <4> HIDE DEF T
      <4>1. QED  BY <2>1, <2>2, <2>3
    <3>3. \A id \in DOMAIN rows : \E at \in Past' : id = ResourceId(Item(at)) /\ rows[id] = RowOf(at)
      BY <2>2 DEF InventoryInvariant, RowsAreDelivered
    <3> HIDE DEF T
    <3>4. QED  BY <1>1, <1>2, <3>1, <3>2, <3>3 DEF RowsAreDelivered
  <2>6. ItemsAreKept'
    <3>1. /\ Len(resources) \in Nat /\ Len(new) \in Nat
          /\ DOMAIN resources = 1..Len(resources) /\ DOMAIN new = 1..Len(new)
          /\ DOMAIN resources' = 1..(Len(resources) + Len(new))
          /\ \A k \in 1..Len(resources) : resources'[k] = resources[k]
          /\ \A k \in 1..Len(new) : resources'[Len(resources) + k] = new[k]
      <4> HIDE DEF T
      <4>1. QED  BY <2>1, <2>2, <2>3
    <3>2. ASSUME NEW at \in Past'
          PROVE  \/ ResourceId(Item(at)) \in DOMAIN rows
                 \/ \E k \in DOMAIN resources' : resources'[k] = RowOf(at)
      <4>1. CASE at \in Past /\ ResourceId(Item(at)) \notin DOMAIN rows
        <5>1. PICK k \in DOMAIN resources : resources[k] = RowOf(at)
          BY <4>1 DEF InventoryInvariant, ItemsAreKept
        <5>2. k \in DOMAIN resources' /\ resources'[k] = RowOf(at)
          BY <3>1, <5>1
        <5>3. QED  BY <5>2
      <4>2. CASE at[1] = next
        <5>1. PICK k \in DOMAIN new : new[k] = RowOf(at)
          BY <2>2, <4>2
        <5>2. Len(resources) + k \in DOMAIN resources' /\ resources'[Len(resources) + k] = RowOf(at)
          BY <3>1, <5>1
        <5>3. QED  BY <5>2
      <4>3. QED  BY <2>2, <4>1, <4>2
    <3>3. QED  BY <1>1, <1>2, <3>2 DEF ItemsAreKept
  <2>7. RelationshipsAreKept'
    <3>1. \A at \in Past' : Relationships(Item(at)) \subseteq rels' \cup edges
      BY <2>1, <2>2 DEF InventoryInvariant, RelationshipsAreKept
    <3>2. QED  BY <1>1, <1>2, <3>1 DEF RelationshipsAreKept
  <2>8. VerdictsFollowRows'
    BY <1>1, <2>1 DEF VerdictsFollowRows
  <2>9. QED  BY <2>4, <2>5, <2>6, <2>7, <2>8 DEF InventoryInvariant
<1>5. QED  BY <1>3, <1>4

LEMMA InsertResourceKeeps ==
  InventoryInvariant /\ InsertResource => InventoryInvariant'
<1> SUFFICES ASSUME InventoryInvariant, InsertResource
             PROVE  InventoryInvariant'
  OBVIOUS
<1> DEFINE S == {RowOf(at) : at \in Past}
<1>1. UNCHANGED <<bronze, policy, next, rels, edges, verdicts>> /\ pc = "insert_resources"
  BY DEF InsertResource
<1>2. /\ Past' = Past /\ S' = S
      /\ \A at : RowOf(at)' = RowOf(at) /\ Item(at)' = Item(at)
  BY <1>1 DEF Past, Known, Collected, RowOf, Item
<1>3. RelationshipsAreKept'
  BY <1>1, <1>2 DEF InventoryInvariant, RelationshipsAreKept
<1>4. CASE resources = <<>>
  <2>1. pc' = "insert_relationships" /\ resources' = resources /\ rows' = rows
    BY <1>4 DEF InsertResource
  <2>2. Stages'
    BY <1>1, <1>4, <2>1 DEF InventoryInvariant, Stages
  <2>3. RowsAreDelivered' /\ ItemsAreKept' /\ VerdictsFollowRows'
    BY <1>2, <2>1 DEF InventoryInvariant, RowsAreDelivered, ItemsAreKept, VerdictsFollowRows
  <2>4. QED  BY <1>3, <2>2, <2>3 DEF InventoryInvariant
<1>5. CASE resources # <<>>
  <2> DEFINE row == Head(resources)
  <2>1. /\ rows' = [id \in DOMAIN rows \cup {row.id} |-> IF id \in DOMAIN rows THEN rows[id] ELSE row]
        /\ resources' = Tail(resources) /\ pc' = pc
    BY <1>5 DEF InsertResource
  <2>2. resources \in Seq(S)
    BY DEF InventoryInvariant, RowsAreDelivered
  <2>3. /\ Tail(resources) \in Seq(S) /\ row \in S /\ row = resources[1]
        /\ Len(resources) \in Nat /\ DOMAIN resources = 1..Len(resources)
        /\ DOMAIN Tail(resources) = 1..(Len(resources) - 1)
        /\ \A k \in 1..(Len(resources) - 1) : Tail(resources)[k] = resources[k + 1]
    <3> HIDE DEF S
    <3>1. QED  BY <1>5, <2>2
  <2>4. Stages'
    BY <1>1, <2>1 DEF InventoryInvariant, Stages
  <2>5. RowsAreDelivered'
    <3>1. ASSUME NEW id \in DOMAIN rows'
          PROVE  \E at \in Past : id = ResourceId(Item(at)) /\ rows'[id] = RowOf(at)
      <4>1. CASE id \in DOMAIN rows
        BY <2>1, <4>1 DEF InventoryInvariant, RowsAreDelivered
      <4>2. CASE id \notin DOMAIN rows
        <5>1. id = row.id /\ rows'[id] = row
          BY <2>1, <4>2
        <5>2. PICK at \in Past : row = RowOf(at)
          BY <2>3
        <5>3. row.id = ResourceId(Item(at))
          BY <5>2 DEF RowOf, Row
        <5>4. QED  BY <5>1, <5>2, <5>3
      <4>3. QED  BY <4>1, <4>2
    <3>2. QED  BY <1>2, <2>1, <2>3, <3>1 DEF RowsAreDelivered
  <2>6. ItemsAreKept'
    <3>1. ASSUME NEW at \in Past
          PROVE  \/ ResourceId(Item(at)) \in DOMAIN rows'
                 \/ \E k \in DOMAIN resources' : resources'[k] = RowOf(at)
      <4>1. CASE ResourceId(Item(at)) \in DOMAIN rows
        BY <2>1, <4>1
      <4>2. CASE ResourceId(Item(at)) \notin DOMAIN rows
        <5>1. PICK k \in DOMAIN resources : resources[k] = RowOf(at)
          BY <4>2 DEF InventoryInvariant, ItemsAreKept
        <5>2. CASE k = 1
          <6>1. row.id = ResourceId(Item(at))
            BY <2>3, <5>1, <5>2 DEF RowOf, Row
          <6>2. QED  BY <2>1, <6>1
        <5>3. CASE k # 1
          <6>1. k - 1 \in 1..(Len(resources) - 1) /\ (k - 1) + 1 = k
            BY <2>3, <5>3
          <6>2. QED  BY <2>1, <2>3, <5>1, <6>1
        <5>4. QED  BY <5>2, <5>3
      <4>3. QED  BY <4>1, <4>2
    <3>2. QED  BY <1>2, <3>1 DEF ItemsAreKept
  <2>7. VerdictsFollowRows'
    BY <1>1, <2>1 DEF VerdictsFollowRows
  <2>8. QED  BY <1>3, <2>4, <2>5, <2>6, <2>7 DEF InventoryInvariant
<1>6. QED  BY <1>4, <1>5

LEMMA OthersKeep ==
  InventoryInvariant /\ (NormalizedAll \/ InsertRelationships \/ EvaluatePolicy) => InventoryInvariant'
<1> SUFFICES ASSUME InventoryInvariant, NormalizedAll \/ InsertRelationships \/ EvaluatePolicy
             PROVE  InventoryInvariant'
  OBVIOUS
<1>1. UNCHANGED <<bronze, policy, next, resources, rows>> /\ rels' \cup edges' = rels \cup edges
  BY DEF NormalizedAll, InsertRelationships, EvaluatePolicy
<1>2. /\ Past' = Past
      /\ \A at : RowOf(at)' = RowOf(at) /\ Item(at)' = Item(at)
  BY <1>1 DEF Past, Known, Collected, RowOf, Item
<1>3. RowsAreDelivered' /\ ItemsAreKept'
  BY <1>1, <1>2 DEF InventoryInvariant, RowsAreDelivered, ItemsAreKept
<1>4. RelationshipsAreKept'
  BY <1>1, <1>2 DEF InventoryInvariant, RelationshipsAreKept
<1>5. Stages'
  <2>1. CASE NormalizedAll
    <3>1. Stages /\ pc = "normalize" /\ next \notin DOMAIN bronze /\ pc' = "insert_resources"
      BY <2>1 DEF InventoryInvariant, NormalizedAll
    <3>2. Len(bronze) \in Nat /\ DOMAIN bronze = 1..Len(bronze) /\ next \in 1..(Len(bronze) + 1)
      BY <3>1, DeliveredItems DEF Stages
    <3>3. next = Len(bronze) + 1
      BY <3>1, <3>2
    <3>4. QED  BY <1>1, <3>1, <3>3 DEF Stages
  <2>2. CASE InsertRelationships
    BY <1>1, <2>2 DEF InventoryInvariant, Stages, InsertRelationships
  <2>3. CASE EvaluatePolicy
    BY <1>1, <2>3 DEF InventoryInvariant, Stages, EvaluatePolicy
  <2>4. QED  BY <2>1, <2>2, <2>3
<1>6. VerdictsFollowRows'
  <2>1. CASE EvaluatePolicy
    BY <1>1, <2>1 DEF VerdictsFollowRows, EvaluatePolicy
  <2>2. CASE NormalizedAll \/ InsertRelationships
    BY <2>2 DEF VerdictsFollowRows, NormalizedAll, InsertRelationships
  <2>3. QED  BY <2>1, <2>2
<1>7. QED  BY <1>3, <1>4, <1>5, <1>6 DEF InventoryInvariant

(* Every row of the inventory is that of a delivered item under its identity,*)
(* and no delivered item is lost on the way (normalize_bronze,               *)
(* insert_resources, insert_relationships).                                  *)
THEOREM InventoryHolds == Spec => []InventoryInvariant
<1>1. Init => InventoryInvariant
  BY InitHolds
<1>2. InventoryInvariant /\ [Next]_vars => InventoryInvariant'
  <2>1. InventoryInvariant /\ Next => InventoryInvariant'
    BY NormalizeFileKeeps, InsertResourceKeeps, OthersKeep DEF Next
  <2>2. InventoryInvariant /\ UNCHANGED vars => InventoryInvariant'
    BY DEF vars, InventoryInvariant, Stages, RowsAreDelivered, ItemsAreKept, RelationshipsAreKept,
       VerdictsFollowRows, Past, Known, Collected, RowOf, Item
  <2>3. QED  BY <2>1, <2>2
<1>3. QED  BY <1>1, <1>2, PTL DEF Spec

(*****************************************************************************)
(* Identities                                                                *)
(*****************************************************************************)

(* A provider type is named by one rule.                                     *)
LEMMA OneRulePerType ==
  /\ \A t \in OwnId \cup Regional :
       t \notin RegionalDefault \cup RegionSingletons \cup AccountSingletons \cup {Bucket, Cache}
  /\ \A t \in RegionalDefault : t \notin RegionSingletons \cup AccountSingletons \cup {Bucket, Cache}
  /\ \A t \in RegionSingletons : t \notin AccountSingletons \cup {Bucket, Cache}
  /\ \A t \in AccountSingletons : t \notin {Bucket, Cache}
  /\ Bucket # Cache
  BY DEF OwnId, IamTypes, DatabaseTypes, GovernanceTypes, AzureOwnTypes, Regional, RegionalDefault,
     RegionSingletons, AccountSingletons, Bucket, Cache

(* What each rule makes of an item, and what tells it apart in the cloud.    *)
LEMMA Identities ==
  ASSUME NEW item
  PROVE  /\ item.type \in OwnId \cup Regional =>
              /\ ResourceId(item) = <<item.type, item.region, item.name>>
              /\ CloudIdentity(item) = <<item.type, item.region, item.name>>
         /\ item.type \in RegionalDefault =>
              /\ ResourceId(item) = <<item.type, item.region, IF item.given THEN item.name ELSE "default">>
              /\ CloudIdentity(item) = <<item.type, item.region>>
         /\ item.type \in RegionSingletons =>
              /\ ResourceId(item) = <<item.type, item.region, "default">>
              /\ CloudIdentity(item) = <<item.type, item.region>>
         /\ item.type \in AccountSingletons =>
              /\ ResourceId(item) = <<item.type, Global, "account">>
              /\ CloudIdentity(item) = <<item.type>>
         /\ item.type = Bucket =>
              /\ ResourceId(item) = <<item.type, Global, item.name>>
              /\ CloudIdentity(item) = <<item.type, item.name>>
         /\ item.type = Cache =>
              /\ item.given => ResourceId(item) = <<item.type, item.region, item.name>>
              /\ ~ item.given => ResourceId(item) = <<item.type, "", item.name>>
              /\ CloudIdentity(item) = <<item.type, item.region, item.name>>
  BY OneRulePerType DEF ResourceId, CloudIdentity

LEMMA FirstOfTuple ==
  /\ \A p, x : p = <<x>> => p[1] = x
  /\ \A p, x, y : p = <<x, y>> => p[1] = x
  /\ \A p, x, y, z : p = <<x, y, z>> => p[1] = x
<1>1. ASSUME NEW p, NEW x, p = <<x>>
      PROVE  p[1] = x
  <2>1. p[1] = <<x>>[1]
    BY <1>1, Zenon
  <2>2. QED  BY <2>1
<1>2. ASSUME NEW p, NEW x, NEW y, p = <<x, y>>
      PROVE  p[1] = x
  <2>1. p[1] = <<x, y>>[1]
    BY <1>2, Zenon
  <2>2. QED  BY <2>1
<1>3. ASSUME NEW p, NEW x, NEW y, NEW z, p = <<x, y, z>>
      PROVE  p[1] = x
  <2>1. p[1] = <<x, y, z>>[1]
    BY <1>3, Zenon
  <2>2. QED  BY <2>1
<1>4. QED  BY <1>1, <1>2, <1>3, Zenon

(* Both begin with the provider type.                                        *)
LEMMA TypeOfIds ==
  ASSUME NEW item, item.type \in KnownTypes
  PROVE  ResourceId(item)[1] = item.type /\ CloudIdentity(item)[1] = item.type
<1>1. \E y, z : ResourceId(item) = <<item.type, y, z>>
  <2>1. CASE item.type \in OwnId \cup Regional
    <3>1. ResourceId(item) = <<item.type, item.region, item.name>>
      BY <2>1, Identities
    <3>2. QED  BY <3>1, Zenon
  <2>2. CASE item.type \in RegionalDefault
    <3> DEFINE named == IF item.given THEN item.name ELSE "default"
    <3>1. ResourceId(item) = <<item.type, item.region, named>>
      BY <2>2, Identities
    <3> HIDE DEF named
    <3>2. QED  BY <3>1
  <2>3. CASE item.type \in RegionSingletons \cup AccountSingletons \cup {Bucket}
    BY <2>3, Identities
  <2>4. CASE item.type = Cache
    BY <2>4, Identities
  <2>5. QED  BY <2>1, <2>2, <2>3, <2>4 DEF KnownTypes
<1>2. \/ CloudIdentity(item) = <<item.type>>
      \/ \E y : CloudIdentity(item) = <<item.type, y>>
      \/ \E y, z : CloudIdentity(item) = <<item.type, y, z>>
  BY Identities DEF KnownTypes
<1>3. ResourceId(item)[1] = item.type
  <2>1. PICK y, z : ResourceId(item) = <<item.type, y, z>>
    BY <1>1
  <2>2. QED  BY <2>1, FirstOfTuple, Zenon
<1>4. CloudIdentity(item)[1] = item.type
  <2>1. CASE CloudIdentity(item) = <<item.type>>
    BY <2>1, FirstOfTuple, Zenon
  <2>2. CASE \E y : CloudIdentity(item) = <<item.type, y>>
    BY <2>2, FirstOfTuple, Zenon
  <2>3. CASE \E y, z : CloudIdentity(item) = <<item.type, y, z>>
    BY <2>3, FirstOfTuple, Zenon
  <2>4. QED  BY <1>2, <2>1, <2>2, <2>3, Zenon
<1>5. QED  BY <1>3, <1>4

(* Two items of an account have one id when they are one resource, replication*)
(* groups of one name without ARN excepted: by the rule of their type.       *)
LEMMA IdsAreIdentities ==
  ASSUME NEW i, NEW j, i.type \in KnownTypes,
         i.type = Cache => i.region # "", j.type = Cache => j.region # "",
         i.type \in RegionalDefault \cup {Cache} /\ CloudIdentity(i) = CloudIdentity(j)
           => i.name = j.name /\ i.given = j.given,
         ~ (/\ i.type = Cache /\ j.type = Cache /\ ~ i.given /\ ~ j.given
            /\ i.region # j.region /\ i.name = j.name),
         j.type \in KnownTypes
  PROVE  ResourceId(i) = ResourceId(j) <=> CloudIdentity(i) = CloudIdentity(j)
<1>1. CASE i.type # j.type
  BY <1>1, TypeOfIds
<1>2. CASE i.type = j.type /\ i.type \in OwnId \cup Regional
  <2>1. /\ ResourceId(i) = <<i.type, i.region, i.name>> /\ ResourceId(j) = <<j.type, j.region, j.name>>
        /\ CloudIdentity(i) = <<i.type, i.region, i.name>> /\ CloudIdentity(j) = <<j.type, j.region, j.name>>
    BY <1>2, Identities
  <2>2. QED  BY <2>1, Zenon
<1>3. CASE i.type = j.type /\ i.type \in RegionalDefault
  <2> DEFINE Named(item) == IF item.given THEN item.name ELSE "default"
  <2>1. CloudIdentity(i) = <<i.type, i.region>> /\ CloudIdentity(j) = <<j.type, j.region>>
    BY <1>3, Identities
  <2>2. ResourceId(i) = <<i.type, i.region, Named(i)>> /\ ResourceId(j) = <<j.type, j.region, Named(j)>>
    BY <1>3, Identities
  <2>3. CloudIdentity(i) = CloudIdentity(j) <=> <<i.type, i.region>> = <<j.type, j.region>>
    BY <2>1
  <2>4. CloudIdentity(i) = CloudIdentity(j) => Named(i) = Named(j)
    BY <1>3
  <2> HIDE DEF Named
  <2>5. ResourceId(i) = ResourceId(j) <=> <<i.type, i.region, Named(i)>> = <<j.type, j.region, Named(j)>>
    BY <2>2
  <2>6. QED  BY <1>3, <2>3, <2>4, <2>5
<1>4. CASE i.type = j.type /\ i.type \in RegionSingletons
  <2>1. /\ ResourceId(i) = <<i.type, i.region, "default">> /\ ResourceId(j) = <<j.type, j.region, "default">>
        /\ CloudIdentity(i) = <<i.type, i.region>> /\ CloudIdentity(j) = <<j.type, j.region>>
    BY <1>4, Identities
  <2>2. /\ ResourceId(i) = ResourceId(j) <=> <<i.type, i.region, "default">> = <<j.type, j.region, "default">>
        /\ CloudIdentity(i) = CloudIdentity(j) <=> <<i.type, i.region>> = <<j.type, j.region>>
    BY <2>1
  <2>3. QED  BY <1>4, <2>2
<1>5. CASE i.type = j.type /\ i.type \in AccountSingletons
  BY <1>5, Identities
<1>6. CASE i.type = Bucket /\ j.type = Bucket
  <2>1. /\ ResourceId(i) = <<i.type, Global, i.name>> /\ ResourceId(j) = <<j.type, Global, j.name>>
        /\ CloudIdentity(i) = <<i.type, i.name>> /\ CloudIdentity(j) = <<j.type, j.name>>
    BY <1>6, Identities
  <2>2. /\ ResourceId(i) = ResourceId(j) <=> <<i.type, Global, i.name>> = <<j.type, Global, j.name>>
        /\ CloudIdentity(i) = CloudIdentity(j) <=> <<i.type, i.name>> = <<j.type, j.name>>
    BY <2>1
  <2>3. QED  BY <2>2
<1>7. CASE i.type = Cache /\ j.type = Cache
  <2> DEFINE Place(item) == IF item.given THEN item.region ELSE ""
  <2>1. /\ ResourceId(i) = <<i.type, Place(i), i.name>> /\ ResourceId(j) = <<j.type, Place(j), j.name>>
        /\ CloudIdentity(i) = <<i.type, i.region, i.name>> /\ CloudIdentity(j) = <<j.type, j.region, j.name>>
    BY <1>7, Identities
  <2>2. ResourceId(i) = ResourceId(j) <=> <<i.type, Place(i), i.name>> = <<j.type, Place(j), j.name>>
    BY <2>1
  <2>3. CloudIdentity(i) = CloudIdentity(j) <=> <<i.type, i.region, i.name>> = <<j.type, j.region, j.name>>
    BY <2>1
  <2>4. ResourceId(i) = ResourceId(j) <=> Place(i) = Place(j) /\ i.name = j.name
    <3> HIDE DEF Place
    <3>1. QED  BY <1>7, <2>2
  <2>5. CloudIdentity(i) = CloudIdentity(j) <=> i.region = j.region /\ i.name = j.name
    BY <1>7, <2>3
  <2>6. i.region = j.region /\ i.name = j.name => Place(i) = Place(j)
    BY <1>7, <2>5
  <2>7. Place(i) = Place(j) /\ i.name = j.name => i.region = j.region
    BY <1>7
  <2> HIDE DEF Place
  <2>8. QED  BY <2>4, <2>5, <2>6, <2>7
<1>8. QED  BY <1>1, <1>2, <1>3, <1>4, <1>5, <1>6, <1>7 DEF KnownTypes

LEMMA CollectedIds ==
  ASSUME Stages, ~ AmbiguousCaches, NEW a \in Known, NEW b \in Known
  PROVE  ResourceId(Item(a)) = ResourceId(Item(b)) <=> CloudIdentity(Item(a)) = CloudIdentity(Item(b))
<1>1. /\ a \in Collected /\ b \in Collected
      /\ Item(a).type \in KnownTypes /\ Item(b).type \in KnownTypes
  BY DeliveredItems DEF Known
<1>2. IsSnapshot(bronze)
  BY DeliveredItems
<1>3. (Item(a).type = Cache => Item(a).region # "") /\ (Item(b).type = Cache => Item(b).region # "")
  BY <1>1, <1>2 DEF IsSnapshot, Collected, Item
<1>4. Item(a).type \in RegionalDefault \cup {Cache} /\ CloudIdentity(Item(a)) = CloudIdentity(Item(b))
        => Item(a).name = Item(b).name /\ Item(a).given = Item(b).given
  BY <1>1, <1>2 DEF IsSnapshot, Collected, Item
<1>5. ~ (/\ Item(a).type = Cache /\ Item(b).type = Cache /\ ~ Item(a).given /\ ~ Item(b).given
         /\ Item(a).region # Item(b).region /\ Item(a).name = Item(b).name)
  BY <1>1 DEF AmbiguousCaches
<1>6. QED  BY <1>1, <1>3, <1>4, <1>5, IdsAreIdentities

LEMMA CollectedIsFinite ==
  ASSUME Stages
  PROVE  IsFiniteSet(Collected)
<1> DEFINE places == {{f} \X DOMAIN bronze[f].items : f \in DOMAIN bronze}
<1>1. IsSnapshot(bronze) /\ Len(bronze) \in Nat /\ DOMAIN bronze = 1..Len(bronze)
  BY DeliveredItems
<1>2. IsFiniteSet(DOMAIN bronze)
  BY <1>1, FS_Interval
<1>3. IsFiniteSet(places)
  <2> DEFINE cells == [f \in DOMAIN bronze |-> {f} \X DOMAIN bronze[f].items]
  <2>1. cells \in Surjection(DOMAIN bronze, places)
    BY DEF Surjection
  <2> HIDE DEF cells, places
  <2>2. QED  BY <1>2, <2>1, FS_Surjection
<1>4. ASSUME NEW f \in DOMAIN bronze
      PROVE  IsFiniteSet({f} \X DOMAIN bronze[f].items)
  <2>1. bronze[f].items \in Seq(Range(bronze[f].items))
    BY <1>1, Zenon DEF IsSnapshot
  <2>2. Len(bronze[f].items) \in Nat /\ DOMAIN bronze[f].items = 1..Len(bronze[f].items)
    BY <2>1
  <2>3. IsFiniteSet({f}) /\ IsFiniteSet(DOMAIN bronze[f].items)
    <3>1. IsFiniteSet(1..Len(bronze[f].items))
      BY <2>2, FS_Interval
    <3>2. QED  BY <2>2, <3>1, FS_Singleton
  <2>4. QED  BY <2>3, FS_Product
<1>5. IsFiniteSet(UNION places)
  BY <1>3, <1>4, FS_UNION
<1>6. QED  BY <1>5 DEF Collected, Delivered

(*****************************************************************************)
(* The verdicts                                                              *)
(*****************************************************************************)

(* What a row stands for once the policy was evaluated.                      *)
LEMMA DoneMeansStored ==
  ASSUME InventoryInvariant, pc = "done"
  PROVE  /\ \A id \in DOMAIN rows :
              \E at \in Known : id = ResourceId(Item(at)) /\ rows[id] = RowOf(at)
         /\ \A at \in Known : /\ ResourceId(Item(at)) \in DOMAIN rows
                            /\ Relationships(Item(at)) \subseteq edges
<1>1. Stages /\ next = Len(bronze) + 1 /\ resources = <<>> /\ rels = {}
  BY DEF InventoryInvariant, Stages
<1>2. \A at \in Known : at[1] \in 1..Len(bronze)
  BY <1>1, DeliveredItems DEF Known
<1>3. Len(bronze) \in Nat
  BY <1>1, DeliveredItems
<1>4. Past = Known
  BY <1>1, <1>2, <1>3 DEF Past
<1>5. QED  BY <1>1, <1>4 DEF InventoryInvariant, RowsAreDelivered, ItemsAreKept, RelationshipsAreKept

(* A verdict is the one every order of the conditions gives.                 *)
EveryOrderAgrees ==
  pc = "done" =>
    \A id \in DOMAIN verdicts : \A other :
      Reorders(policy.logic, other) => verdicts[id] = Result(other, rows[id].properties)

(* In whatever order a catalogue file lists its conditions, and however often*)
(* one of them, the verdict is the same, whatever the conditions raise       *)
(* (_compound evaluates all of them).                                        *)
THEOREM AnyOrderAgrees == Spec => []EveryOrderAgrees
<1>1. InventoryInvariant => EveryOrderAgrees
  <2> SUFFICES ASSUME InventoryInvariant, pc = "done", NEW id \in DOMAIN verdicts,
                      NEW other, Reorders(policy.logic, other)
               PROVE  verdicts[id] = Result(other, rows[id].properties)
    BY DEF EveryOrderAgrees
  <2>1. IsLogic(policy.logic)
    BY PolicyAssumption DEF InventoryInvariant, Stages
  <2>2. verdicts[id] = Result(policy.logic, rows[id].properties)
    BY DEF InventoryInvariant, VerdictsFollowRows
  <2>3. QED  BY <2>1, <2>2, ReorderedHasTheSameResult
<1>2. QED  BY <1>1, InventoryHolds, PTL

(* The reverse order among them (_compound).                                 *)
THEOREM OrderHasNoInfluence == Spec => []OrderIsIrrelevant
<1>1. InventoryInvariant /\ EveryOrderAgrees => OrderIsIrrelevant
  <2> SUFFICES ASSUME InventoryInvariant, EveryOrderAgrees, pc = "done", NEW id \in DOMAIN verdicts
               PROVE  verdicts[id] = Result(Reversed(policy.logic), rows[id].properties)
    BY DEF OrderIsIrrelevant
  <2>1. IsLogic(policy.logic)
    BY PolicyAssumption DEF InventoryInvariant, Stages
  <2>2. Reorders(policy.logic, Reversed(policy.logic))
    BY <2>1, ReversedReorders
  <2>3. QED  BY <2>2 DEF EveryOrderAgrees
<1>2. QED  BY <1>1, InventoryHolds, AnyOrderAgrees, PTL

(* A relationship leads from a stored resource to the network it names, when *)
(* that network is in the snapshot (normalizer.py:168).                      *)
THEOREM InstancesReachTheirNetwork == Spec => []RelationshipsConnect
<1>1. InventoryInvariant => RelationshipsConnect
  <2> SUFFICES ASSUME InventoryInvariant, pc = "done", NEW at \in Collected, NEW v \in Collected,
                      Item(at).type = "aws_ec2_instance", Item(at).network # "",
                      Item(v).type = "aws_ec2_vpc", Item(v).name = Item(at).network,
                      Item(v).region = Item(at).region
               PROVE  \E e \in edges : e[1] = ResourceId(Item(at)) /\ {e[1], e[2]} \subseteq DOMAIN rows
    BY DEF RelationshipsConnect
  <2>1. at \in Known /\ v \in Known
    BY DeliveredItems DEF InventoryInvariant, Known, KnownTypes, OwnId, GovernanceTypes, Regional
  <2> DEFINE e == <<ResourceId(Item(at)), VpcArn(Item(at)), "member_of">>
  <2>2. e \in Relationships(Item(at))
    BY DEF Relationships
  <2>3. VpcArn(Item(at)) = ResourceId(Item(v))
    <3>1. Item(v).type \in OwnId \cup Regional
      BY DEF OwnId, GovernanceTypes
    <3>2. ResourceId(Item(v)) = <<Item(v).type, Item(v).region, Item(v).name>>
      BY <3>1, Identities
    <3>3. QED  BY <3>2 DEF VpcArn
  <2>4. e \in edges /\ {e[1], e[2]} \subseteq DOMAIN rows
    BY <2>1, <2>2, <2>3, DoneMeansStored
  <2>5. QED  BY <2>4
<1>2. QED  BY <1>1, InventoryHolds, PTL

LEMMA CountByBijection ==
  ASSUME NEW S, IsFiniteSet(S), NEW T, NEW f \in [S -> T],
         \A x, y \in S : f[x] = f[y] => x = y,
         \A t \in T : \E x \in S : f[x] = t
  PROVE  Cardinality(T) = Cardinality(S)
<1>1. f \in Bijection(S, T)
  BY DEF Bijection, Injection, Surjection, IsInjective
<1>2. ExistsBijection(S, T)
  BY <1>1 DEF ExistsBijection
<1>3. QED  BY <1>2, FS_Bijection

(* The policy is about an item when it matches the item's row.               *)
LEMMA SubjectMatches ==
  ASSUME Stages, NEW at \in Known
  PROVE  Subject(at) <=> MatchesAsset(policy, RowOf(at))
<1>1. Item(at).type = bronze[at[1]].provider_type /\ bronze[at[1]].provider_type \in KnownTypes
  BY DeliveredItems DEF Known
<1>2. /\ RowOf(at).provider = Provider(bronze[at[1]].provider_type)
      /\ RowOf(at).provider_type = bronze[at[1]].provider_type
      /\ RowOf(at).resource_type = bronze[at[1]].resource_type
  BY <1>1 DEF RowOf, Row
<1>3. QED  BY <1>1, <1>2 DEF Subject, MatchesAsset

(* Items of one id have one kind, so a policy is about all of them or none.  *)
LEMMA OneIdOneKind ==
  ASSUME Stages, NEW a \in Known, NEW b \in Known, ResourceId(Item(a)) = ResourceId(Item(b))
  PROVE  Subject(a) <=> Subject(b)
<1>1. /\ a \in Collected /\ b \in Collected /\ IsSnapshot(bronze)
      /\ a[1] \in DOMAIN bronze /\ b[1] \in DOMAIN bronze
      /\ Item(a).type = bronze[a[1]].provider_type /\ Item(a).type \in KnownTypes
      /\ Item(b).type = bronze[b[1]].provider_type /\ Item(b).type \in KnownTypes
  BY DeliveredItems DEF Known
<1>2. Item(a).type = Item(b).type
  <2>1. ResourceId(Item(a))[1] = Item(a).type /\ ResourceId(Item(b))[1] = Item(b).type
    BY <1>1, TypeOfIds
  <2>2. QED  BY <2>1
<1>3. bronze[a[1]].resource_type = bronze[b[1]].resource_type
  BY <1>1, <1>2 DEF IsSnapshot
<1>4. QED  BY <1>1, <1>2, <1>3 DEF Subject

(* The ids with a verdict are those of the items the policy is about.        *)
LEMMA JudgedIds ==
  ASSUME InventoryInvariant, pc = "done"
  PROVE  /\ \A at \in Collected : Subject(at) => at \in Known /\ ResourceId(Item(at)) \in DOMAIN verdicts
         /\ \A id \in DOMAIN verdicts :
              \E at \in Known : Subject(at) /\ id = ResourceId(Item(at)) /\ rows[id] = RowOf(at)
<1>1. \A id : id \in DOMAIN verdicts <=> id \in DOMAIN rows /\ MatchesAsset(policy, rows[id])
  BY DEF InventoryInvariant, VerdictsFollowRows
<1>2. Stages
  BY DEF InventoryInvariant
<1>3. ASSUME NEW at \in Collected, Subject(at)
      PROVE  at \in Known /\ ResourceId(Item(at)) \in DOMAIN verdicts
  <2>1. at \in Known
    BY <1>3 DEF Known, Subject
  <2> DEFINE id == ResourceId(Item(at))
  <2>2. id \in DOMAIN rows
    BY <2>1, DoneMeansStored
  <2>3. PICK b \in Known : id = ResourceId(Item(b)) /\ rows[id] = RowOf(b)
    BY <2>2, DoneMeansStored
  <2>4. Subject(b)
    BY <1>2, <1>3, <2>1, <2>3, OneIdOneKind
  <2>5. MatchesAsset(policy, rows[id])
    BY <1>2, <2>3, <2>4, SubjectMatches
  <2>6. QED  BY <1>1, <2>1, <2>2, <2>5
<1>4. ASSUME NEW id \in DOMAIN verdicts
      PROVE  \E at \in Known : Subject(at) /\ id = ResourceId(Item(at)) /\ rows[id] = RowOf(at)
  <2>1. id \in DOMAIN rows /\ MatchesAsset(policy, rows[id])
    BY <1>1
  <2>2. PICK at \in Known : id = ResourceId(Item(at)) /\ rows[id] = RowOf(at)
    BY <2>1, DoneMeansStored
  <2>3. Subject(at)
    BY <1>2, <2>1, <2>2, SubjectMatches
  <2>4. QED  BY <2>2, <2>3
<1>5. QED  BY <1>3, <1>4

(* Every resource of the kind a policy is about gets a verdict of its own,   *)
(* and nothing else gets one (normalize_bronze, insert_resources,            *)
(* matches_asset).                                                           *)
THEOREM ResourcesAreJudged == Spec => []EveryResourceIsJudged
<1>1. InventoryInvariant => EveryResourceIsJudged
  <2> DEFINE S == {c \in Collected : Subject(c)}
             clouds == {CloudIdentity(Item(at)) : at \in S}
  <2> SUFFICES ASSUME InventoryInvariant, pc = "done", ~ AmbiguousCaches
               PROVE  Cardinality(DOMAIN verdicts) = Cardinality(clouds)
    BY DEF EveryResourceIsJudged
  <2>1. Stages
    BY DEF InventoryInvariant
  <2>2. IsFiniteSet(S)
    <3>1. S \in SUBSET Collected
      OBVIOUS
    <3>2. QED  BY <2>1, <3>1, CollectedIsFinite, FS_Subset
  <2>3. \A at \in S : at \in Known /\ ResourceId(Item(at)) \in DOMAIN verdicts
    BY JudgedIds
  <2>4. \A id \in DOMAIN verdicts : \E at \in S : id = ResourceId(Item(at))
    BY JudgedIds DEF Known
  <2>5. \A x : x \in clouds <=> \E at \in S : x = CloudIdentity(Item(at))
    OBVIOUS
  <2>6. \A a, b \in S : ResourceId(Item(a)) = ResourceId(Item(b)) <=> CloudIdentity(Item(a)) = CloudIdentity(Item(b))
    BY <2>1, <2>3, CollectedIds
  <2> HIDE DEF S, clouds
  <2>7. IsFiniteSet(DOMAIN verdicts)
    <3> DEFINE idOf == [at \in S |-> ResourceId(Item(at))]
    <3>1. idOf \in Surjection(S, DOMAIN verdicts)
      <4>1. idOf \in [S -> DOMAIN verdicts]
        BY <2>3
      <4>2. \A id \in DOMAIN verdicts : \E at \in S : idOf[at] = id
        BY <2>4
      <4> HIDE DEF idOf
      <4>3. QED  BY <4>1, <4>2 DEF Surjection
    <3>2. QED  BY <2>2, <3>1, FS_Surjection
  <2> DEFINE AtOf(id) == CHOOSE at \in S : id = ResourceId(Item(at))
             cloudOf == [id \in DOMAIN verdicts |-> CloudIdentity(Item(AtOf(id)))]
  <2>8. \A id \in DOMAIN verdicts : AtOf(id) \in S /\ id = ResourceId(Item(AtOf(id)))
    BY <2>4
  <2> HIDE DEF AtOf
  <2>9. cloudOf \in [DOMAIN verdicts -> clouds]
    BY <2>5, <2>8
  <2>10. ASSUME NEW x \in DOMAIN verdicts, NEW y \in DOMAIN verdicts, cloudOf[x] = cloudOf[y]
         PROVE  x = y
    BY <2>6, <2>8, <2>10
  <2>11. ASSUME NEW t \in clouds
         PROVE  \E id \in DOMAIN verdicts : cloudOf[id] = t
    <3>1. PICK at \in S : t = CloudIdentity(Item(at))
      BY <2>5
    <3>2. ResourceId(Item(at)) \in DOMAIN verdicts
      BY <2>3
    <3>3. CloudIdentity(Item(AtOf(ResourceId(Item(at))))) = t
      BY <2>6, <2>8, <3>1, <3>2
    <3>4. QED  BY <3>2, <3>3
  <2> HIDE DEF cloudOf
  <2>12. QED  BY <2>7, <2>9, <2>10, <2>11, CountByBijection
<1>2. QED  BY <1>1, InventoryHolds, PTL

(* A verdict is what the policy says of the resource as it was delivered,    *)
(* unless it was delivered twice with different settings.                    *)
VerdictsAreOwn ==
  pc = "done" /\ ~ AmbiguousCaches =>
    \A at \in Collected :
      /\ Subject(at)
      /\ \A c \in Collected :
           CloudIdentity(Item(c)) = CloudIdentity(Item(at)) => Properties(Item(c)) = Properties(Item(at))
      => verdicts[ResourceId(Item(at))] = Result(policy.logic, Properties(Item(at)))

(* A verdict is computed from a row that is found by its id only             *)
(* (insert_resources, evaluate_scan).  Unless two regions have replication   *)
(* groups of one name without ARN, a resource is judged by its own settings; *)
(* nothing is said of one delivered twice with different settings.           *)
THEOREM JudgedByOwnSettings == Spec => []VerdictsAreOwn
<1>1. InventoryInvariant => VerdictsAreOwn
  <2> SUFFICES ASSUME InventoryInvariant, pc = "done", ~ AmbiguousCaches, NEW at \in Collected, Subject(at),
                      \A c \in Collected : CloudIdentity(Item(c)) = CloudIdentity(Item(at))
                                            => Properties(Item(c)) = Properties(Item(at))
               PROVE  verdicts[ResourceId(Item(at))] = Result(policy.logic, Properties(Item(at)))
    BY DEF VerdictsAreOwn
  <2> DEFINE id == ResourceId(Item(at))
  <2>1. Stages
    BY DEF InventoryInvariant
  <2>2. at \in Known /\ id \in DOMAIN verdicts
    BY JudgedIds
  <2>3. PICK b \in Known : id = ResourceId(Item(b)) /\ rows[id] = RowOf(b)
    BY <2>2, JudgedIds
  <2>4. Properties(Item(b)) = Properties(Item(at))
    BY <2>1, <2>2, <2>3, CollectedIds DEF Known
  <2>5. rows[id].properties = Properties(Item(at))
    BY <2>3, <2>4 DEF RowOf, Row
  <2>6. verdicts[id] = Result(policy.logic, rows[id].properties)
    BY <2>2 DEF InventoryInvariant, VerdictsFollowRows
  <2>7. QED  BY <2>5, <2>6
<1>2. QED  BY <1>1, InventoryHolds, PTL

(* A policy that fails what lacks a setting or has it off fails what has     *)
(* "off" stored for it.                                                      *)
LEMMA OffFails ==
  ASSUME NEW logic, IsLogic(logic), AbsentOrOff(logic), NEW a, a["defaulted"] = PyFalse
  PROVE  Result(logic, a) = "fail"
<1> DEFINE top == logic[Top(logic)]
           places == top.conditions
           v == Values(logic, a)
           results == [k \in DOMAIN places |-> v[places[k]]]
<1>1. /\ Len(logic) \in Nat /\ DOMAIN logic = 1..Len(logic) /\ Top(logic) \in DOMAIN logic
      /\ v = [i \in DOMAIN logic |-> ValueFrom(logic, a, v, i)]
  <2>1. Len(logic) \in Nat /\ DOMAIN logic = 1..Len(logic) /\ 1 \in DOMAIN logic
    BY DEF IsLogic
  <2>2. Top(logic) \in DOMAIN logic
    BY <2>1 DEF Top, IsLogic
  <2>3. QED  BY <2>1, <2>2, ValuesAreComputed
<1>2. top.type = "compound" /\ top.operator = "or"
  BY DEF AbsentOrOff
<1>3. \A k \in DOMAIN places : places[k] \in DOMAIN logic
  BY <1>1, <1>2 DEF IsLogic
<1> DEFINE leaves == {logic[places[k]] : k \in DOMAIN places}
           kinds == {[path |-> l.path, operator |-> l.operator] : l \in leaves}
           wanted == {[path |-> "defaulted", operator |-> o] : o \in {"missing", "eq"}}
<1>4. /\ \A l \in leaves : l.type = "field_check"
      /\ kinds = wanted
      /\ \A l \in leaves : l.operator = "eq" => l.expected = PyFalse
  BY Zenon DEF AbsentOrOff
<1>5. ASSUME NEW l \in leaves
      PROVE  l.path = "defaulted" /\ l.operator \in {"missing", "eq"}
  <2> HIDE DEF leaves
  <2>1. [path |-> l.path, operator |-> l.operator] \in wanted
    BY <1>4
  <2>2. PICK o \in {"missing", "eq"} :
          [path |-> l.path, operator |-> l.operator] = [path |-> "defaulted", operator |-> o]
    BY <2>1
  <2>3. QED  BY <2>2
<1>6. \E l \in leaves : l.operator = "eq"
  <2>1. [path |-> "defaulted", operator |-> "eq"] \in kinds
    BY <1>4
  <2>2. QED  BY <2>1
<1>7. ASSUME NEW l \in leaves
      PROVE  FieldCheck(l, PyFalse) = Truth(l.operator = "eq")
  <2>1. CASE l.operator = "missing"
    BY <2>1, MissingAssumption DEF FieldCheck
  <2>2. CASE l.operator = "eq"
    BY <1>4, <2>2, MissingAssumption DEF FieldCheck, Ordered
  <2>3. QED  BY <1>5, <2>1, <2>2
<1>8. \A k \in DOMAIN places : results[k] = Truth(logic[places[k]].operator = "eq")
  <2> SUFFICES ASSUME NEW k \in DOMAIN places
               PROVE  results[k] = Truth(logic[places[k]].operator = "eq")
    OBVIOUS
  <2> DEFINE l == logic[places[k]]
  <2>1. l \in leaves
    OBVIOUS
  <2>2. v[places[k]] = ValueFrom(logic, a, v, places[k])
    BY <1>1, <1>3
  <2>3. ValueFrom(logic, a, v, places[k]) = FieldCheck(l, a[l.path])
    BY <1>4, <2>1 DEF ValueFrom
  <2>4. a[l.path] = PyFalse
    BY <1>5, <2>1
  <2>5. QED  BY <1>7, <2>1, <2>2, <2>3, <2>4
<1>9. Compound("or", results) = "true"
  <2>1. \A k \in DOMAIN results : results[k] # Raised
    BY <1>8 DEF Truth, Raised
  <2>2. \E k \in DOMAIN results : results[k] = "true"
    BY <1>6, <1>8 DEF Truth
  <2> HIDE DEF results
  <2>3. QED  BY <2>1, <2>2 DEF Compound, Truth
<1>10. v[Top(logic)] = "true"
  <2>1. v[Top(logic)] = ValueFrom(logic, a, v, Top(logic))
    BY <1>1
  <2>2. ValueFrom(logic, a, v, Top(logic)) = Compound("or", results)
    BY <1>2 DEF ValueFrom
  <2>3. QED  BY <1>9, <2>1, <2>2
<1>11. QED  BY <1>10 DEF Result, Evaluate, Raised

(* A policy that fails a resource for lacking a setting or having it off     *)
(* fails the resources whose collector left the setting out, because the     *)
(* normalizer stores "off" for it (normalizer.py:154 and others).            *)
THEOREM UndeliveredFails == Spec => []UndeliveredFailsClosed
<1>1. InventoryInvariant /\ VerdictsAreOwn => UndeliveredFailsClosed
  <2> SUFFICES ASSUME InventoryInvariant, VerdictsAreOwn,
                      pc = "done", AbsentOrOff(policy.logic), ~ AmbiguousCaches,
                      NEW at \in Collected, Subject(at), Item(at).defaulted = Absent,
                      \A c \in Collected : CloudIdentity(Item(c)) = CloudIdentity(Item(at)) => Item(c) = Item(at)
               PROVE  verdicts[ResourceId(Item(at))] = "fail"
    BY DEF UndeliveredFailsClosed
  <2>1. IsLogic(policy.logic)
    BY PolicyAssumption DEF InventoryInvariant, Stages
  <2>2. verdicts[ResourceId(Item(at))] = Result(policy.logic, Properties(Item(at)))
    BY DEF VerdictsAreOwn
  <2>3. Properties(Item(at))["defaulted"] = PyFalse
    BY DEF Properties, Defaulted
  <2>4. QED  BY <2>1, <2>2, <2>3, OffFails
<1>2. QED  BY <1>1, InventoryHolds, JudgedByOwnSettings, PTL

================================================================================

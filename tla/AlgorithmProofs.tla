--------------------------- MODULE AlgorithmProofs ---------------------------
(***************************************************************************)
(* What the server's pure algorithms compute, for inputs of any size: the  *)
(* order of the operators (OperatorOrder), the active entry (Entries), and *)
(* the zones of a group's frames (Zones), whose types need the colors of   *)
(* all members to add up, and whose map follows what is known of them.     *)
(*                                                                         *)
(* Where a fact about every length is needed the proof takes a least       *)
(* counterexample: the provers do not instantiate an induction rule, whose *)
(* parameter is an operator, but they do instantiate the theorem that a    *)
(* non-empty set has a minimal element.                                    *)
(***************************************************************************)
EXTENDS OperatorOrder, Entries, Zones, FiniteSetTheorems, SequenceTheorems, TLAPS

-----------------------------------------------------------------------------
(* Numbers, sequences and finite sets.                                     *)

LEMMA Least == ASSUME NEW S \in SUBSET Nat, S # {}
               PROVE  \E m \in S : \A k \in S : m <= k
<1> DEFINE R == OpToRel(<, Nat)
<1>1. IsWellFoundedOn(R, Nat)
  BY NatLessThanWellFounded
<1>2. \A a, b \in Nat : a < b => <<a, b>> \in R
  BY DEF OpToRel
<1> HIDE DEF R
<1>3. PICK m \in S : \A k \in S : ~(<<k, m>> \in R)
  BY <1>1, WFMin
<1>4. ASSUME NEW k \in S PROVE m <= k
  <2>1. k \in Nat /\ m \in Nat
    OBVIOUS
  <2>2. ~(k < m)
    BY <1>2, <1>3, <2>1
  <2> QED BY <2>1, <2>2
<1> QED BY <1>4

LEMMA Greatest == ASSUME NEW n \in Nat, NEW S \in SUBSET (1 .. n), S # {}
                  PROVE  \E m \in S : \A k \in S : k <= m
<1> DEFINE Above == {m \in Nat : \A k \in S : k <= m}
<1>1. n \in Above
  OBVIOUS
<1>2. Above # {} /\ Above \in SUBSET Nat
  BY <1>1
<1> HIDE DEF Above
<1>3. PICK m \in Above : \A k \in Above : m <= k
  BY <1>2, Least
<1>4. m \in Nat /\ \A k \in S : k <= m
  BY <1>3 DEF Above
<1>5. m \in S
  <2> SUFFICES ASSUME m \notin S PROVE FALSE
    OBVIOUS
  <2>1. m > 0
    <3>1. PICK k \in S : TRUE
      OBVIOUS
    <3>2. k \in Nat /\ k >= 1 /\ k <= m
      BY <1>4
    <3> QED BY <1>4, <3>2
  <2>2. m - 1 \in Above
    BY <1>4, <2>1 DEF Above
  <2> QED BY <1>3, <1>4, <2>2
<1> QED BY <1>4, <1>5

Distinct(q) == \A i, j \in 1 .. Len(q) : q[i] = q[j] => i = j

LEMMA ToSetIs == ASSUME NEW S, NEW q \in Seq(S)
                 PROVE  /\ ToSet(q) = {q[i] : i \in 1 .. Len(q)} /\ ToSet(q) \subseteq S
                        /\ \A x : x \in ToSet(q) <=> \E i \in 1 .. Len(q) : q[i] = x
<1>1. DOMAIN q = 1 .. Len(q) /\ \A i \in 1 .. Len(q) : q[i] \in S
  BY ElementOfSeq, LenProperties
<1> QED BY <1>1 DEF ToSet

\* Two sequences without repetitions and without a common element, one after
\* the other.
LEMMA Concatenated ==
  ASSUME NEW S, NEW p \in Seq(S), NEW q \in Seq(S)
  PROVE  /\ p \o q \in Seq(S) /\ Len(p \o q) = Len(p) + Len(q)
         /\ ToSet(p \o q) = ToSet(p) \union ToSet(q)
         /\ Distinct(p) /\ Distinct(q) /\ ToSet(p) \intersect ToSet(q) = {} => Distinct(p \o q)
         /\ \A i \in 1 .. Len(p) : (p \o q)[i] = p[i]
<1> DEFINE r == p \o q
<1>0. Len(p) \in Nat /\ Len(q) \in Nat
  OBVIOUS
<1>1. /\ r \in Seq(S) /\ Len(r) = Len(p) + Len(q)
      /\ \A i \in 1 .. Len(p) : r[i] = p[i]
      /\ \A i \in Len(p) + 1 .. Len(p) + Len(q) : r[i] = q[i - Len(p)]
  BY ConcatProperties
<1> HIDE DEF r
<1>2. \A i \in 1 .. Len(r) : i \in 1 .. Len(p) \/ i \in Len(p) + 1 .. Len(p) + Len(q)
  BY <1>0, <1>1
<1>3. \A i \in Len(p) + 1 .. Len(p) + Len(q) : i - Len(p) \in 1 .. Len(q)
  BY <1>0
<1>4. \A j \in 1 .. Len(q) : /\ j + Len(p) \in Len(p) + 1 .. Len(p) + Len(q)
                             /\ (j + Len(p)) - Len(p) = j /\ j + Len(p) \in 1 .. Len(r)
  BY <1>0, <1>1
<1>5. \A i \in 1 .. Len(p) : i \in 1 .. Len(r)
  BY <1>0, <1>1
<1>6. ToSet(r) = ToSet(p) \union ToSet(q)
  <2>1. ASSUME NEW i \in 1 .. Len(r) PROVE r[i] \in ToSet(p) \union ToSet(q)
    BY <1>1, <1>2, <1>3, ToSetIs
  <2>2. ASSUME NEW i \in 1 .. Len(p) PROVE p[i] \in ToSet(r)
    BY <1>1, <1>5, ToSetIs
  <2>3. ASSUME NEW j \in 1 .. Len(q) PROVE q[j] \in ToSet(r)
    <3>1. r[j + Len(p)] = q[j] /\ j + Len(p) \in 1 .. Len(r)
      BY <1>1, <1>4
    <3> QED BY <1>1, <3>1, ToSetIs
  <2>4. ToSet(r) \subseteq ToSet(p) \union ToSet(q)
    BY <1>1, <2>1, ToSetIs
  <2>5. ToSet(p) \subseteq ToSet(r) /\ ToSet(q) \subseteq ToSet(r)
    BY <2>2, <2>3, ToSetIs
  <2> QED BY <2>4, <2>5
<1>7. ASSUME Distinct(p), Distinct(q), ToSet(p) \intersect ToSet(q) = {} PROVE Distinct(r)
  <2> SUFFICES ASSUME NEW i \in 1 .. Len(r), NEW j \in 1 .. Len(r), r[i] = r[j] PROVE i = j
    BY DEF Distinct
  <2>0. \A a \in 1 .. Len(p), b \in 1 .. Len(q) : p[a] # q[b]
    BY <1>7, ToSetIs
  <2>1. CASE i \in 1 .. Len(p) /\ j \in 1 .. Len(p)
    BY <1>1, <1>7, <2>1 DEF Distinct
  <2>2. CASE i \in Len(p) + 1 .. Len(p) + Len(q) /\ j \in Len(p) + 1 .. Len(p) + Len(q)
    <3>1. i - Len(p) = j - Len(p)
      BY <1>1, <1>3, <1>7, <2>2 DEF Distinct
    <3> QED BY <1>0, <2>2, <3>1
  <2>3. CASE i \in 1 .. Len(p) /\ j \in Len(p) + 1 .. Len(p) + Len(q)
    BY <1>1, <1>3, <2>0, <2>3
  <2>4. CASE j \in 1 .. Len(p) /\ i \in Len(p) + 1 .. Len(p) + Len(q)
    BY <1>1, <1>3, <2>0, <2>4
  <2> QED BY <1>2, <2>1, <2>2, <2>3, <2>4
<1> QED BY <1>1, <1>6, <1>7 DEF r

-----------------------------------------------------------------------------
(* The order of the operators.                                             *)

Increasing(q) == \A i, j \in DOMAIN q : i < j => q[i] < q[j]
Enumerations(X) == {q \in [1 .. Cardinality(X) -> X] : Increasing(q)}

LEMMA SlotsFinite == \A X \in SUBSET Slots :
                       IsFiniteSet(X) /\ Cardinality(X) \in Nat /\ X \in SUBSET Nat
<1>1. IsFiniteSet(Slots) /\ Slots \in SUBSET Nat
  BY OrderAssumption, FS_Interval DEF Slots, OrderAssumption
<1> QED BY <1>1, FS_Subset, FS_CardinalityType

\* Every set of slots can be enumerated in their order: a least one that
\* cannot would be without its greatest slot.
LEMMA Enumerable == \A X \in SUBSET Slots : Enumerations(X) # {}
<1> DEFINE Bad == {X \in SUBSET Slots : Enumerations(X) = {}}
           R == StrictSubsetOrdering(Slots)
<1> SUFFICES ASSUME Bad # {} PROVE FALSE
  OBVIOUS
<1>0. IsFiniteSet(Slots)
  BY SlotsFinite
<1>1. IsWellFoundedOn(R, FiniteSubsetsOf(Slots)) /\ FiniteSubsetsOf(Slots) = SUBSET Slots
  BY <1>0, FS_StrictSubsetOrderingWellFounded, FS_FiniteSubsetsOfFinite
<1>2. \A X, Y \in SUBSET Slots : Y \subseteq X /\ Y # X => <<Y, X>> \in R
  BY DEF StrictSubsetOrdering
<1>3. Bad \subseteq SUBSET Slots
  OBVIOUS
<1>4. PICK X \in Bad : \A Y \in Bad : ~(<<Y, X>> \in R)
  <2> HIDE DEF Bad, R
  <2> QED BY <1>1, <1>3, WFMin
<1>5. X \in SUBSET Slots /\ Enumerations(X) = {} /\ IsFiniteSet(X) /\ Cardinality(X) \in Nat
  BY <1>4, SlotsFinite
<1>6. X # {}
  <2> SUFFICES ASSUME X = {} PROVE FALSE
    OBVIOUS
  <2>1. Cardinality(X) = 0
    BY FS_EmptySet
  <2>2. << >> \in [1 .. 0 -> X] /\ Increasing(<< >>)
    BY DEF Increasing
  <2> QED BY <1>5, <2>1, <2>2 DEF Enumerations
<1>7. PICK top \in X : \A s \in X : s <= top
  BY <1>5, <1>6, Greatest, OrderAssumption DEF Slots, OrderAssumption
<1> DEFINE Y == X \ {top}
           n == Cardinality(X)
<1>8. Y \in SUBSET Slots /\ Y # X /\ Y \subseteq X
  BY <1>5, <1>7
<1>9. Cardinality(Y) = n - 1 /\ n \in Nat /\ n > 0
  <2>1. Cardinality(Y) = n - 1
    BY <1>5, <1>7, FS_RemoveElement
  <2>2. Cardinality(Y) \in Nat
    BY <1>8, SlotsFinite
  <2> QED BY <1>5, <2>1, <2>2
<1>10. Y \notin Bad
  BY <1>2, <1>4, <1>5, <1>8
<1>11. PICK q \in [1 .. n - 1 -> Y] : Increasing(q)
  BY <1>8, <1>9, <1>10 DEF Enumerations
<1> HIDE DEF n, Y
<1> DEFINE r == [i \in 1 .. n |-> IF i = n THEN top ELSE q[i]]
<1>12. r \in [1 .. n -> X]
  <2>1. ASSUME NEW i \in 1 .. n, i # n PROVE q[i] \in X
    <3>1. i \in 1 .. n - 1
      BY <1>9, <2>1
    <3> QED BY <1>8, <1>11, <3>1
  <2> QED BY <1>7, <2>1
<1>13. \A s \in Y : s \in Nat /\ top \in Nat /\ s < top
  BY <1>5, <1>7, SlotsFinite DEF Y
<1>14. Increasing(r)
  <2> SUFFICES ASSUME NEW i \in 1 .. n, NEW j \in 1 .. n, i < j PROVE r[i] < r[j]
    BY DEF Increasing
  <2>1. i \in 1 .. n - 1 /\ i # n /\ q[i] \in Y
    BY <1>9, <1>11
  <2>2. CASE j = n
    BY <1>13, <2>1, <2>2
  <2>3. CASE j # n
    <3>1. j \in 1 .. n - 1
      BY <1>9, <2>3
    <3>2. q[i] < q[j]
      BY <1>11, <2>1, <3>1 DEF Increasing
    <3> QED BY <2>1, <2>3, <3>2
  <2> QED BY <2>2, <2>3
<1> HIDE DEF r
<1> QED BY <1>5, <1>12, <1>14 DEF Enumerations, n

\* InOrder lists each slot of the set, once.
LEMMA InOrderIs == ASSUME NEW X \in SUBSET Slots
                   PROVE  /\ InOrder(X) \in Seq(X) /\ InOrder(X) \in Seq(Slots)
                          /\ Distinct(InOrder(X)) /\ ToSet(InOrder(X)) = X
<1> DEFINE q == InOrder(X)
           n == Cardinality(X)
<1>1. q \in [1 .. n -> X] /\ Increasing(q)
  <2>1. \E p \in [1 .. n -> X] : \A i, j \in DOMAIN p : i < j => p[i] < p[j]
    BY Enumerable DEF Enumerations, Increasing
  <2> QED BY <2>1 DEF InOrder, Increasing
<1>2. IsFiniteSet(X) /\ n \in Nat /\ X \subseteq Nat
  BY SlotsFinite
<1> HIDE DEF q, n
<1>3. q \in Seq(X) /\ Len(q) = n
  BY <1>1, <1>2, IsASeq, LenProperties
<1>4. \A i, j \in 1 .. n : q[i] = q[j] => i = j
  <2> SUFFICES ASSUME NEW i \in 1 .. n, NEW j \in 1 .. n, q[i] = q[j], i < j PROVE FALSE
    BY <1>2
  <2>1. q[i] < q[j] /\ q[i] \in Nat
    BY <1>1, <1>2 DEF Increasing
  <2> QED BY <2>1
<1>5. q \in Injection(1 .. n, X)
  BY <1>1, <1>4 DEF Injection, IsInjective
<1>6. Cardinality(1 .. n) = Cardinality(X)
  <2>1. Cardinality(1 .. n) = n
    BY <1>2, FS_Interval
  <2> QED BY <2>1 DEF n
<1>7. q \in Surjection(1 .. n, X)
  BY <1>2, <1>5, <1>6, FS_Injection
<1>8. ToSet(q) = X
  <2>1. \A x \in X : \E i \in 1 .. n : q[i] = x
    BY <1>7 DEF Surjection
  <2>2. /\ ToSet(q) \subseteq X
        /\ \A x : x \in ToSet(q) <=> \E i \in 1 .. Len(q) : q[i] = x
    BY <1>3, ToSetIs
  <2> QED BY <1>3, <2>1, <2>2
<1>9. Seq(X) \subseteq Seq(Slots)
  BY SeqMonotonic
<1> QED BY <1>3, <1>4, <1>8, <1>9 DEF q, Distinct

Provided == {type[p] : p \in ToSet(result)}
Before(i) == {type[result[j]] : j \in 1 .. i - 1}

\* While the function runs: each slot is placed or ready at most once, and is
\* so exactly if its count has come down to zero.
QueueInv ==
  /\ Distinct(result) /\ Distinct(ready) /\ ToSet(result) \intersect ToSet(ready) = {}
  /\ \A s \in Slots : s \in ToSet(result) \union ToSet(ready) <=> inDegree[s] <= 0

\* Where types have one provider each: the count is of the dependencies nobody
\* placed provides, and what is placed has its own before it.
CountInv ==
  IsInjective(type) =>
    /\ \A s \in Slots : inDegree[s] = Cardinality(depends[s] \ Provided)
    /\ \A i \in 1 .. Len(result) : depends[result[i]] \subseteq Before(i)

\* When it has returned.
Finished ==
  /\ Len(result) = MaxSlots /\ ToSet(result) = Slots
  /\ IsInjective(type) =>
       \A i, j \in Slots :
         type[result[j]] \in depends[result[i]] /\ result[i] \notin Stuck => j < i

OrderInv ==
  /\ OrderTypeOK
  /\ ~sorted => QueueInv /\ CountInv
  /\ sorted => ready = << >> /\ Finished

LEMMA DependsFinite == ASSUME OrderTypeOK, NEW s \in Slots, NEW P
                       PROVE  /\ IsFiniteSet(depends[s] \ P)
                              /\ Cardinality(depends[s] \ P) \in Nat
<1>1. depends[s] \ P \in SUBSET Types /\ IsFiniteSet(Types)
  BY OrderAssumption DEF OrderTypeOK, OrderAssumption
<1> QED BY <1>1, FS_Subset, FS_CardinalityType

LEMMA OrderBegin == OrderInit => OrderInv
<1> SUFFICES ASSUME OrderInit PROVE OrderInv
  OBVIOUS
<1>1. PICK types \in [Slots -> Types], deps \in [Slots -> SUBSET Types] : StartSort(types, deps)
  BY DEF OrderInit
<1> DEFINE first == {s \in Slots : deps[s] = {}}
<1>2. /\ type = types /\ depends = deps /\ ready = InOrder(first)
      /\ inDegree = [s \in Slots |-> Cardinality(deps[s])]
      /\ result = << >> /\ sorted = FALSE
  BY <1>1 DEF StartSort
<1>3. ready \in Seq(Slots) /\ Distinct(ready) /\ ToSet(ready) = first
  <2> HIDE DEF first
  <2>1. first \in SUBSET Slots
    BY DEF first
  <2> QED BY <1>2, <2>1, InOrderIs
<1>4. \A s \in Slots : /\ IsFiniteSet(depends[s]) /\ Cardinality(depends[s]) \in Nat
                       /\ depends[s] \subseteq Types
  <2>1. \A s \in Slots : depends[s] \in SUBSET Types
    BY <1>2
  <2> QED BY <2>1, OrderAssumption, FS_Subset, FS_CardinalityType DEF OrderAssumption
<1>5. OrderTypeOK
  <2>1. inDegree \in [Slots -> Int]
    BY <1>2, <1>4
  <2>2. type \in [Slots -> Types] /\ depends \in [Slots -> SUBSET Types]
    BY <1>2
  <2>3. result \in Seq(Slots)
    BY <1>2, EmptySeq
  <2>4. sorted \in BOOLEAN
    BY <1>2
  <2> QED BY <1>3, <2>1, <2>2, <2>3, <2>4 DEF OrderTypeOK
<1>6. ToSet(result) = {} /\ Len(result) = 0 /\ Distinct(result)
  <2>1. Len(result) = 0 /\ result \in Seq(Slots)
    BY <1>2, EmptySeq
  <2>2. 1 .. Len(result) = {}
    BY <2>1
  <2>3. ToSet(result) = {result[i] : i \in 1 .. Len(result)}
    BY <2>1, ToSetIs
  <2>4. ToSet(result) = {}
    BY <2>2, <2>3
  <2> QED BY <2>1, <2>2, <2>4 DEF Distinct
<1>7. \A s \in Slots : s \in ToSet(ready) <=> inDegree[s] <= 0
  <2> SUFFICES ASSUME NEW s \in Slots PROVE s \in ToSet(ready) <=> inDegree[s] <= 0
    OBVIOUS
  <2>1. s \in ToSet(ready) <=> depends[s] = {}
    BY <1>2, <1>3
  <2>2. Cardinality(depends[s]) = 0 <=> depends[s] = {}
    BY <1>4, FS_EmptySet
  <2>3. inDegree[s] = Cardinality(depends[s])
    BY <1>2
  <2> QED BY <1>4, <2>1, <2>2, <2>3
<1>8. QueueInv
  BY <1>3, <1>6, <1>7 DEF QueueInv
<1>9. CountInv
  <2>1. Provided = {}
    BY <1>6 DEF Provided
  <2>2. \A s \in Slots : depends[s] \ Provided = depends[s] /\ inDegree[s] = Cardinality(depends[s])
    BY <1>2, <2>1
  <2>3. \A s \in Slots : inDegree[s] = Cardinality(depends[s] \ Provided)
    BY <2>2
  <2> QED BY <1>6, <2>3 DEF CountInv
<1> QED BY <1>2, <1>5, <1>8, <1>9 DEF OrderInv

\* The first ready slot is placed, and what waited for it alone becomes ready.
LEMMA PlaceStep == ASSUME OrderInv, Place PROVE OrderInv'
<1> DEFINE head == Head(ready)
           provided == type[head]
           freed == Released(provided)
<1>1. /\ ready # << >> /\ ready' = Tail(ready) \o InOrder(freed)
      /\ inDegree' = [s \in Slots |->
           IF provided \in depends[s] THEN inDegree[s] - 1 ELSE inDegree[s]]
      /\ result' = Append(result, head) /\ UNCHANGED <<type, depends, sorted>>
  BY DEF Place
<1>2. /\ type \in [Slots -> Types] /\ depends \in [Slots -> SUBSET Types]
      /\ inDegree \in [Slots -> Int] /\ ready \in Seq(Slots) /\ result \in Seq(Slots)
      /\ sorted \in BOOLEAN
  BY DEF OrderInv, OrderTypeOK
<1>3. ~sorted /\ QueueInv /\ CountInv
  BY <1>1 DEF OrderInv
<1>4. /\ head \in Slots /\ Tail(ready) \in Seq(Slots) /\ Len(ready) \in Nat /\ Len(ready) > 0
      /\ Len(Tail(ready)) = Len(ready) - 1 /\ head = ready[1]
      /\ \A i \in 1 .. Len(Tail(ready)) : Tail(ready)[i] = ready[i + 1]
  BY <1>1, <1>2, HeadTailProperties
<1>5. head \in ToSet(ready) /\ ToSet(Tail(ready)) = ToSet(ready) \ {head} /\ Distinct(Tail(ready))
  <2> DEFINE q == Tail(ready)
             n == Len(ready)
  <2>0. /\ n \in Nat /\ n > 0 /\ Len(q) = n - 1 /\ \A i \in 1 .. n - 1 : q[i] = ready[i + 1]
        /\ head = ready[1] /\ q \in Seq(Slots)
    BY <1>4
  <2>1. \A i, j \in 1 .. n : ready[i] = ready[j] => i = j
    BY <1>3 DEF QueueInv, Distinct
  <2>2. /\ \A x : x \in ToSet(ready) <=> \E i \in 1 .. n : ready[i] = x
        /\ \A x : x \in ToSet(q) <=> \E i \in 1 .. Len(q) : q[i] = x
    BY <1>2, <2>0, ToSetIs
  <2> HIDE DEF q, n, head
  <2>3. head \in ToSet(ready)
    BY <2>0, <2>2
  <2>4. Distinct(q)
    <3> SUFFICES ASSUME NEW i \in 1 .. n - 1, NEW j \in 1 .. n - 1, q[i] = q[j] PROVE i = j
      BY <2>0 DEF Distinct
    <3>1. i + 1 \in 1 .. n /\ j + 1 \in 1 .. n /\ ready[i + 1] = ready[j + 1]
      BY <2>0
    <3>2. i + 1 = j + 1
      BY <2>1, <3>1
    <3> QED BY <2>0, <3>2
  <2>5. \A x : x \in ToSet(q) => x \in ToSet(ready) /\ x # head
    <3> SUFFICES ASSUME NEW i \in 1 .. n - 1 PROVE q[i] \in ToSet(ready) /\ q[i] # head
      BY <2>0, <2>2
    <3>1. i + 1 \in 1 .. n /\ i + 1 # 1 /\ 1 \in 1 .. n /\ q[i] = ready[i + 1]
      BY <2>0
    <3> QED BY <2>0, <2>1, <2>2, <3>1
  <2>6. \A x : x \in ToSet(ready) /\ x # head => x \in ToSet(q)
    <3> SUFFICES ASSUME NEW i \in 1 .. n, ready[i] # head PROVE ready[i] \in ToSet(q)
      BY <2>2
    <3>1. i - 1 \in 1 .. n - 1 /\ (i - 1) + 1 = i
      BY <2>0
    <3>2. q[i - 1] = ready[i]
      BY <2>0, <3>1
    <3> QED BY <2>0, <2>2, <3>1, <3>2
  <2> QED BY <2>3, <2>4, <2>5, <2>6 DEF q
<1>6. freed \in SUBSET Slots /\ \A s \in Slots : s \in freed <=> provided \in depends[s]
                                                             /\ inDegree[s] = 1
  BY DEF Released
<1>7. /\ InOrder(freed) \in Seq(Slots) /\ Distinct(InOrder(freed))
      /\ ToSet(InOrder(freed)) = freed
  <2> HIDE DEF freed
  <2> QED BY <1>6, InOrderIs
<1>8. freed \intersect (ToSet(result) \union ToSet(ready)) = {}
  <2> SUFFICES ASSUME NEW s \in Slots, s \in freed
               PROVE  s \notin ToSet(result) \union ToSet(ready)
    BY <1>6
  <2>1. inDegree[s] = 1
    BY <1>6
  <2> QED BY <1>3, <2>1 DEF QueueInv
<1> HIDE DEF head, provided, freed
<1>9. /\ ready' \in Seq(Slots) /\ Distinct(ready')
      /\ ToSet(ready') = (ToSet(ready) \ {head}) \union freed
  <2>1. ToSet(Tail(ready)) \intersect ToSet(InOrder(freed)) = {}
    BY <1>5, <1>7, <1>8
  <2> DEFINE p == Tail(ready)
             q == InOrder(freed)
  <2>2. /\ p \in Seq(Slots) /\ q \in Seq(Slots) /\ Distinct(p) /\ Distinct(q)
        /\ ToSet(p) \intersect ToSet(q) = {}
    BY <1>4, <1>5, <1>7, <2>1
  <2>3. ToSet(p) = ToSet(ready) \ {head} /\ ToSet(q) = freed /\ ready' = p \o q
    BY <1>1, <1>5, <1>7
  <2> HIDE DEF p, q
  <2>4. /\ p \o q \in Seq(Slots) /\ Distinct(p \o q)
        /\ ToSet(p \o q) = ToSet(p) \union ToSet(q)
    BY <2>2, Concatenated
  <2> QED BY <2>3, <2>4
<1>10. /\ result' \in Seq(Slots) /\ Len(result') = Len(result) + 1
       /\ \A i \in 1 .. Len(result) : result'[i] = result[i]
       /\ result'[Len(result) + 1] = head /\ Len(result) \in Nat
  BY <1>1, <1>2, <1>4, AppendProperties
<1>11. ToSet(result') = ToSet(result) \union {head}
  <2>1. /\ \A x : x \in ToSet(result) <=> \E i \in 1 .. Len(result) : result[i] = x
        /\ \A x : x \in ToSet(result') <=> \E i \in 1 .. Len(result') : result'[i] = x
    BY <1>2, <1>10, ToSetIs
  <2>2. \A i \in 1 .. Len(result') : i \in 1 .. Len(result) \/ i = Len(result) + 1
    BY <1>10
  <2>3. \A i \in 1 .. Len(result) : i \in 1 .. Len(result')
    BY <1>10
  <2>4. Len(result) + 1 \in 1 .. Len(result')
    BY <1>10
  <2> QED BY <1>10, <2>1, <2>2, <2>3, <2>4
<1>12. head \notin ToSet(result) /\ head \notin freed
  BY <1>3, <1>5, <1>8 DEF QueueInv
<1>13. Distinct(result')
  <2> SUFFICES ASSUME NEW i \in 1 .. Len(result'), NEW j \in 1 .. Len(result'),
                      result'[i] = result'[j]
               PROVE  i = j
    BY DEF Distinct
  <2>1. \A k \in 1 .. Len(result) : result[k] # head
    BY <1>2, <1>12, ToSetIs
  <2>2. \A k \in 1 .. Len(result') : k \in 1 .. Len(result) \/ k = Len(result) + 1
    BY <1>10
  <2>3. \A k, l \in 1 .. Len(result) : result[k] = result[l] => k = l
    BY <1>3 DEF QueueInv, Distinct
  <2> QED BY <1>10, <2>1, <2>2, <2>3
<1>14. QueueInv'
  <2>1. ToSet(result') \intersect ToSet(ready') = {}
    BY <1>3, <1>8, <1>9, <1>11, <1>12 DEF QueueInv
  <2>2. ASSUME NEW s \in Slots
        PROVE  s \in ToSet(result') \union ToSet(ready') <=> inDegree'[s] <= 0
    <3>1. s \in ToSet(result') \union ToSet(ready')
            <=> s \in ToSet(result) \union ToSet(ready) \/ s \in freed
      BY <1>5, <1>9, <1>11
    <3>2. s \in ToSet(result) \union ToSet(ready) <=> inDegree[s] <= 0
      BY <1>3 DEF QueueInv
    <3>3. inDegree'[s] = IF provided \in depends[s] THEN inDegree[s] - 1 ELSE inDegree[s]
      BY <1>1
    <3>4. inDegree[s] \in Int
      BY <1>2
    <3>5. inDegree'[s] <= 0 <=> inDegree[s] <= 0 \/ s \in freed
      BY <1>6, <3>3, <3>4
    <3> QED BY <3>1, <3>2, <3>5
  <2> QED BY <1>9, <1>13, <2>1, <2>2 DEF QueueInv
<1>15. CountInv'
  <2> SUFFICES ASSUME IsInjective(type)
               PROVE  /\ \A s \in Slots : inDegree'[s] = Cardinality(depends[s] \ Provided')
                      /\ \A i \in 1 .. Len(result') : depends[result'[i]] \subseteq Before(i)'
    BY <1>1 DEF CountInv
  <2>1. Provided' = Provided \union {provided}
    BY <1>1, <1>11 DEF Provided, provided
  <2>2. provided \notin Provided
    <3> SUFFICES ASSUME NEW p \in ToSet(result), type[p] = type[head] PROVE FALSE
      BY DEF Provided, provided
    <3>1. p \in Slots
      BY <1>2, ToSetIs
    <3>2. p = head
      BY <1>2, <1>4, <3>1 DEF IsInjective
    <3> QED BY <1>12, <3>2
  <2>3. ASSUME NEW s \in Slots
        PROVE  inDegree'[s] = Cardinality(depends[s] \ Provided')
    <3> DEFINE D == depends[s] \ Provided
    <3>1. inDegree[s] = Cardinality(D)
      BY <1>3 DEF CountInv
    <3>2. depends[s] \ Provided' = D \ {provided}
      BY <2>1
    <3>3. IsFiniteSet(D)
      BY DependsFinite DEF OrderInv
    <3>4. provided \in D <=> provided \in depends[s]
      BY <2>2
    <3>5. Cardinality(D \ {provided}) =
            IF provided \in D THEN Cardinality(D) - 1 ELSE Cardinality(D)
      BY <3>3, FS_RemoveElement
    <3> HIDE DEF D
    <3>6. inDegree'[s] = IF provided \in depends[s] THEN inDegree[s] - 1 ELSE inDegree[s]
      BY <1>1
    <3> QED BY <3>1, <3>2, <3>4, <3>5, <3>6
  <2>4. ASSUME NEW i \in 1 .. Len(result') PROVE depends[result'[i]] \subseteq Before(i)'
    <3>1. CASE i \in 1 .. Len(result)
      <4>1. result'[i] = result[i] /\ depends[result[i]] \subseteq Before(i)
        BY <1>3, <1>10, <3>1 DEF CountInv
      <4>2. \A j \in 1 .. i - 1 : j \in 1 .. Len(result)
        BY <1>10, <3>1
      <4>3. Before(i)' = Before(i)
        BY <1>1, <1>10, <4>2 DEF Before
      <4> QED BY <4>1, <4>3
    <3>2. CASE i = Len(result) + 1
      <4>1. result'[i] = head
        BY <1>10, <3>2
      <4>2. i - 1 = Len(result)
        BY <1>10, <3>2
      <4>3. Provided = {type[result[j]] : j \in 1 .. Len(result)}
        BY <1>2, ToSetIs DEF Provided
      <4>4. Before(i)' = Provided
        BY <1>1, <1>10, <4>2, <4>3 DEF Before
      <4>5. inDegree[head] <= 0 /\ inDegree[head] = Cardinality(depends[head] \ Provided)
        BY <1>3, <1>4, <1>5 DEF QueueInv, CountInv
      <4>6. /\ IsFiniteSet(depends[head] \ Provided)
            /\ Cardinality(depends[head] \ Provided) \in Nat
        BY <1>4, DependsFinite DEF OrderInv
      <4>7. Cardinality(depends[head] \ Provided) = 0
        BY <4>5, <4>6
      <4>8. depends[head] \ Provided = {}
        BY <4>6, <4>7, FS_EmptySet
      <4> QED BY <4>1, <4>4, <4>8
    <3> QED BY <1>10, <3>1, <3>2
  <2> QED BY <2>3, <2>4
<1>16. OrderTypeOK'
  <2>1. inDegree' \in [Slots -> Int]
    BY <1>1, <1>2
  <2> QED BY <1>1, <1>2, <1>9, <1>10, <2>1 DEF OrderTypeOK
<1>17. ~sorted'
  BY <1>1, <1>3
<1> QED BY <1>14, <1>15, <1>16, <1>17 DEF OrderInv

\* What is left is what no order can satisfy.
LEMMA AppendStep == ASSUME OrderInv, AppendRemaining PROVE OrderInv'
<1> DEFINE rest == {s \in Slots : ~Contains(result, s)}
<1>1. /\ ready = << >> /\ ~sorted /\ sorted' = TRUE /\ result' = result \o InOrder(rest)
      /\ UNCHANGED <<type, depends, inDegree, ready>>
  BY DEF AppendRemaining
<1>2. /\ type \in [Slots -> Types] /\ depends \in [Slots -> SUBSET Types]
      /\ inDegree \in [Slots -> Int] /\ ready \in Seq(Slots) /\ result \in Seq(Slots)
  BY DEF OrderInv, OrderTypeOK
<1>3. QueueInv /\ CountInv
  BY <1>1 DEF OrderInv
<1>4. rest = Slots \ ToSet(result)
  BY <1>2, ToSetIs DEF Contains
<1>5. rest \in SUBSET Slots
  OBVIOUS
<1> HIDE DEF rest
<1>6. /\ InOrder(rest) \in Seq(Slots) /\ Distinct(InOrder(rest)) /\ ToSet(InOrder(rest)) = rest
  BY <1>5, InOrderIs
<1>7. ToSet(result) \subseteq Slots
  BY <1>2, ToSetIs
<1>8. /\ result' \in Seq(Slots) /\ Distinct(result') /\ ToSet(result') = Slots
      /\ \A i \in 1 .. Len(result) : result'[i] = result[i]
      /\ Len(result) \in Nat /\ Len(result') \in Nat /\ Len(result) <= Len(result')
  <2> DEFINE q == InOrder(rest)
  <2>1. /\ result \in Seq(Slots) /\ q \in Seq(Slots) /\ Distinct(result) /\ Distinct(q)
        /\ ToSet(result) \intersect ToSet(q) = {} /\ ToSet(q) = rest
    BY <1>2, <1>3, <1>4, <1>6 DEF QueueInv
  <2>2. result' = result \o q
    BY <1>1
  <2> HIDE DEF q
  <2>3. /\ result \o q \in Seq(Slots) /\ Distinct(result \o q)
        /\ ToSet(result \o q) = ToSet(result) \union ToSet(q)
        /\ \A i \in 1 .. Len(result) : (result \o q)[i] = result[i]
        /\ Len(result \o q) = Len(result) + Len(q)
    BY <2>1, Concatenated
  <2>4. Len(result) \in Nat /\ Len(q) \in Nat
    BY <2>1, LenProperties
  <2>5. ToSet(result \o q) = Slots
    BY <1>4, <1>7, <2>1, <2>3
  <2>6. Len(result') = Len(result) + Len(q)
    BY <2>2, <2>3
  <2>7. Len(result') \in Nat /\ Len(result) <= Len(result')
    BY <2>4, <2>6
  <2> QED BY <2>2, <2>3, <2>4, <2>5, <2>7
<1>9. Len(result') = MaxSlots
  <2>0. MaxSlots \in Nat /\ MaxSlots > 0
    BY OrderAssumption DEF OrderAssumption
  <2>1. result' \in [1 .. Len(result') -> Slots]
    BY <1>8
  <2>2. result' \in Bijection(1 .. Len(result'), Slots)
    <3>1. result' \in Injection(1 .. Len(result'), Slots)
      BY <1>8, <2>1 DEF Injection, IsInjective, Distinct
    <3>2. \A s \in Slots : \E i \in 1 .. Len(result') : result'[i] = s
      BY <1>8, ToSetIs
    <3>3. result' \in Surjection(1 .. Len(result'), Slots)
      BY <2>1, <3>2 DEF Surjection
    <3> QED BY <3>1, <3>3 DEF Bijection
  <2>3. ExistsBijection(1 .. Len(result'), Slots)
    BY <2>2 DEF ExistsBijection
  <2>4. Cardinality(1 .. Len(result')) = Len(result') /\ IsFiniteSet(1 .. Len(result'))
    <3> DEFINE n == Len(result')
    <3>1. n \in Nat /\ (1 > n => n = 0) /\ n - 1 + 1 = n
      BY <1>8
    <3> HIDE DEF n
    <3>2. IsFiniteSet(1 .. n) /\ Cardinality(1 .. n) = n
      BY <3>1, FS_Interval
    <3> QED BY <3>2 DEF n
  <2>5. Cardinality(Slots) = MaxSlots
    BY <2>0, FS_Interval DEF Slots
  <2> QED BY <2>3, <2>4, <2>5, FS_Bijection
<1>10. ToSet(ready) = {}
  BY <1>1 DEF ToSet
<1>11. ASSUME IsInjective(type) PROVE rest \subseteq Stuck
  <2>1. ASSUME NEW s \in rest
        PROVE  \E t \in depends[s] : \A p \in Slots : type[p] = t => p \in rest
    <3>1. s \in Slots /\ ~(inDegree[s] <= 0)
      BY <1>3, <1>4, <1>10 DEF QueueInv
    <3>2. inDegree[s] = Cardinality(depends[s] \ Provided)
      BY <1>3, <1>11, <3>1 DEF CountInv
    <3>3. depends[s] \ Provided # {}
      <4> SUFFICES ASSUME depends[s] \ Provided = {} PROVE FALSE
        OBVIOUS
      <4>1. Cardinality(depends[s] \ Provided) = 0
        BY FS_EmptySet
      <4> QED BY <3>1, <3>2, <4>1
    <3>4. PICK t \in depends[s] : t \notin Provided
      BY <3>3
    <3> QED BY <1>4, <3>4 DEF Provided
  <2> QED BY <1>5, <2>1 DEF Stuck
<1>12. ASSUME IsInjective(type), NEW i \in Slots, NEW j \in Slots,
              type[result'[j]] \in depends[result'[i]], result'[i] \notin Stuck
       PROVE  j < i
  <2>0. Slots = 1 .. Len(result') /\ \A k \in Slots : result'[k] \in Slots
    <3>1. Slots = 1 .. Len(result')
      BY <1>9 DEF Slots
    <3> QED BY <1>8, <3>1, ElementOfSeq
  <2>1. result'[i] \in ToSet(result)
    BY <1>4, <1>11, <1>12, <2>0
  <2>2. PICK k \in 1 .. Len(result) : result[k] = result'[i]
    BY <1>2, <2>1, ToSetIs
  <2>3. k = i
    <3>1. result'[k] = result'[i] /\ k \in 1 .. Len(result')
      BY <1>8, <2>2
    <3> QED BY <1>8, <2>0, <3>1 DEF Distinct
  <2>4. i \in 1 .. Len(result) /\ depends[result[i]] \subseteq Before(i)
    BY <1>3, <1>12, <2>2, <2>3 DEF CountInv
  <2>5. PICK l \in 1 .. i - 1 : type[result[l]] = type[result'[j]]
    <3>1. type[result'[j]] \in Before(i)
      BY <1>12, <2>2, <2>3, <2>4
    <3> QED BY <3>1 DEF Before
  <2>6. l \in 1 .. Len(result) /\ l < i
    BY <1>8, <2>4, <2>5
  <2>7. result'[l] = result[l] /\ l \in Slots
    <3>1. l \in 1 .. Len(result')
      BY <1>8, <2>6
    <3> QED BY <1>8, <2>0, <2>6, <3>1
  <2>8. result'[l] = result'[j]
    BY <1>2, <1>12, <2>0, <2>5, <2>7 DEF IsInjective
  <2>9. l = j
    BY <1>8, <2>0, <2>7, <2>8 DEF Distinct
  <2> QED BY <2>6, <2>9
<1>13. Stuck' = Stuck /\ (IsInjective(type))' = IsInjective(type)
  BY <1>1 DEF Stuck, IsInjective
<1>14. Finished'
  BY <1>1, <1>8, <1>9, <1>12, <1>13 DEF Finished
<1>15. OrderTypeOK'
  BY <1>1, <1>2, <1>8 DEF OrderTypeOK
<1> QED BY <1>1, <1>14, <1>15 DEF OrderInv

LEMMA OrderStep == OrderInv /\ [OrderNext]_orderVars => OrderInv'
<1> SUFFICES ASSUME OrderInv, [OrderNext]_orderVars PROVE OrderInv'
  OBVIOUS
<1>1. CASE UNCHANGED orderVars
  <2>1. /\ type' = type /\ depends' = depends /\ inDegree' = inDegree /\ ready' = ready
        /\ result' = result /\ sorted' = sorted
    BY <1>1 DEF orderVars
  <2>2. OrderTypeOK'
    BY <2>1 DEF OrderInv, OrderTypeOK
  <2>3. ~sorted' => QueueInv'
    BY <2>1 DEF OrderInv, QueueInv, Distinct
  <2>4. ~sorted' => CountInv'
    <3>1. Provided' = Provided /\ \A i : Before(i)' = Before(i)
      BY <2>1 DEF Provided, Before
    <3> QED BY <2>1, <3>1 DEF OrderInv, CountInv
  <2>5. sorted' => ready' = << >> /\ Finished'
    <3>1. Stuck' = Stuck
      BY <2>1 DEF Stuck
    <3> QED BY <2>1, <3>1 DEF OrderInv, Finished
  <2> QED BY <2>2, <2>3, <2>4, <2>5 DEF OrderInv
<1> QED BY <1>1, PlaceStep, AppendStep DEF OrderNext

\* _topo_sort() (operators/__init__.py) for any number of operators and any
\* dependencies, cycles and missing providers among them: every operator is
\* placed, once; and where each type has one provider, an operator that can
\* have its dependencies before it has them there.
THEOREM DependenciesAlwaysFirst == OrderSpec => []DependenciesFirst
<1>1. OrderInv => DependenciesFirst
  BY DEF OrderInv, Finished, DependenciesFirst
<1> QED BY <1>1, OrderBegin, OrderStep, PTL DEF OrderSpec

-----------------------------------------------------------------------------
(* The entry that is active.                                               *)

\* No offset carries a time of the sun past the midnight that ends its day.
\* Beyond it the code can miss an entry: one that begins and, the wrong way
\* round, ends on the day after its own may still run two days later.
NoTimePastMidnight ==
  \A w \in Weekdays, o \in Offsets : SunHour[w] # NoSun => SunHour[w] + o <= DayHours

Scheduled == specs \in Seq(EntrySpec) /\ clock \in Nat

\* A resolved time is around the midnight that begins its day, or it is NoSun.
LEMMA ParseTimeBounds ==
  ASSUME NoTimePastMidnight, NEW time \in Time, NEW d \in Int, ParseTime(time, d) # NoSun
  PROVE  /\ ParseTime(time, d) \in Int
         /\ ParseTime(time, d) <= d * DayHours + DayHours
<1>1. /\ DayHours \in Nat /\ DayHours > 0 /\ Week \in Nat /\ Week > 0
      /\ SunHour \in [Weekdays -> 0..DayHours - 1 \union {NoSun}] /\ NoSun \notin Int
      /\ Offsets \subseteq -DayHours + 1..DayHours - 1
  BY EntriesAssumption DEF EntriesAssumption
<1> DEFINE w == Weekday(d)
           base == d * DayHours
<1>2. w \in Weekdays
  BY <1>1 DEF Weekday, Weekdays
<1>3. /\ time[1] \in {"midnight", "sun"} /\ time[2] \in Offsets
      /\ time[2] \in Int /\ time[2] < DayHours
  <2>1. time[1] \in {"midnight", "sun"} /\ time[2] \in Offsets
    BY DEF Time
  <2>2. \A o \in -DayHours + 1..DayHours - 1 : o \in Int /\ o < DayHours
    BY <1>1
  <2> QED BY <1>1, <2>1, <2>2
<1>4. base \in Int
  BY <1>1
<1>5. SunHour[w] # NoSun => SunHour[w] \in Nat /\ SunHour[w] + time[2] <= DayHours
  BY <1>1, <1>2, <1>3 DEF NoTimePastMidnight
<1>6. ParseTime(time, d) = IF time[1] = "midnight" THEN base + time[2]
                           ELSE IF SunHour[w] = NoSun THEN NoSun ELSE base + SunHour[w] + time[2]
  BY <1>3 DEF ParseTime
<1> HIDE DEF w, base
<1>7. ParseTime(time, d) \in Int /\ ParseTime(time, d) <= base + DayHours
  BY <1>1, <1>3, <1>4, <1>5, <1>6
<1> QED BY <1>7 DEF base

\* What resolve_entries() makes of an entry on one day is what the entry means.
LEMMA ActiveIsRunning ==
  ASSUME NoTimePastMidnight, Scheduled, NEW i \in 1 .. Len(specs), NEW d \in Int
  PROVE  /\ ActiveOn(i, d) <=> RunsSince(i, d, clock)
         /\ ActiveOn(i, d) => clock < d * DayHours + DayHours + DayHours
<1> DEFINE start == ParseTime(specs[i].start, d)
           stop == ParseTime(specs[i].stop, d)
           base == d * DayHours
<1>1. specs[i] \in EntrySpec /\ specs[i].start \in Time /\ specs[i].stop \in Time
  <2>1. specs[i] \in EntrySpec
    BY ElementOfSeq DEF Scheduled
  <2> QED BY <2>1 DEF EntrySpec
<1>2. DayHours \in Nat /\ DayHours > 0 /\ clock \in Int /\ base \in Int
  BY EntriesAssumption DEF EntriesAssumption, Scheduled
<1>3. Resolvable(specs[i], d) =>
        /\ start \in Int /\ stop \in Int
        /\ start <= base + DayHours /\ stop <= base + DayHours
  BY <1>1, ParseTimeBounds DEF Resolvable
<1>4. /\ ResolvedEntry(i, d).start = start
      /\ ResolvedEntry(i, d).stop = IF stop < start THEN stop + DayHours ELSE stop
  BY DEF ResolvedEntry, Overnight
<1> DEFINE stops == {s \in {stop, stop + DayHours} : s >= start}
<1>5. RunsSince(i, d, clock) <=> /\ Resolvable(specs[i], d) /\ start <= clock
                                 /\ stops # {} /\ \A s \in stops : clock < s
  BY DEF RunsSince
<1>6. ActiveOn(i, d) <=> /\ Resolvable(specs[i], d) /\ start <= clock
                         /\ clock < IF stop < start THEN stop + DayHours ELSE stop
  BY <1>4 DEF ActiveOn
<1> HIDE DEF start, stop, base
<1>7. ASSUME start \in Int, stop \in Int, start <= clock
      PROVE  stops # {} /\ (\A s \in stops : clock < s)
             <=> clock < IF stop < start THEN stop + DayHours ELSE stop
  <2>1. CASE stop < start
    <3>1. \A s \in stops : s = stop + DayHours /\ s >= start
      BY <1>2, <1>7, <2>1
    <3>2. stop + DayHours >= start => stop + DayHours \in stops
      OBVIOUS
    <3> HIDE DEF stops
    <3> QED BY <1>2, <1>7, <2>1, <3>1, <3>2
  <2>2. CASE ~(stop < start)
    <3>1. stop \in stops
      BY <1>2, <1>7, <2>2
    <3>2. \A s \in stops : s = stop \/ s = stop + DayHours
      OBVIOUS
    <3> HIDE DEF stops
    <3> QED BY <1>2, <1>7, <2>2, <3>1, <3>2
  <2> QED BY <2>1, <2>2
<1> HIDE DEF stops
<1>8. ActiveOn(i, d) => clock < base + DayHours + DayHours
  BY <1>2, <1>3, <1>6
<1> QED BY <1>3, <1>5, <1>6, <1>7, <1>8 DEF base

\* The earliest of the active entries exists.
LEMMA Earliest ==
  ASSUME NEW m \in Nat, NEW n \in Nat, NEW A \in SUBSET ((1 .. m) \X (1 .. n)), A # {}
  PROVE  \E p \in A : \A q \in A : NoLater(p, q)
<1>0. \A p \in A : p[1] \in Nat /\ p[2] \in Nat
  OBVIOUS
<1> DEFINE K == {p[1] : p \in A}
<1>1. PICK k \in K : \A l \in K : k <= l
  <2>1. K \in SUBSET Nat /\ K # {}
    BY <1>0
  <2> HIDE DEF K
  <2> QED BY <2>1, Least
<1>2. PICK a \in A : a[1] = k
  BY <1>1
<1> DEFINE I == {p[2] : p \in {x \in A : x[1] = k}}
<1>3. PICK i \in I : \A j \in I : i <= j
  <2>1. I \in SUBSET Nat /\ I # {}
    BY <1>0, <1>2
  <2> HIDE DEF I
  <2> QED BY <2>1, Least
<1>4. PICK p \in A : p[1] = k /\ p[2] = i
  BY <1>3
<1>5. ASSUME NEW q \in A PROVE NoLater(p, q)
  <2>1. k <= q[1] /\ k \in Nat /\ q[1] \in Nat
    BY <1>0, <1>1
  <2>2. CASE q[1] = k
    <3>1. q[2] \in I
      BY <2>2
    <3>2. i <= q[2]
      BY <1>3, <3>1
    <3> QED BY <1>4, <2>2, <3>2 DEF NoLater
  <2>3. CASE q[1] # k
    BY <1>4, <2>1, <2>3 DEF NoLater
  <2> QED BY <2>2, <2>3
<1> QED BY <1>5

\* The day of an instant, and the days around it.
LEMMA Today == ASSUME NEW c \in Nat, NEW h \in Nat, h > 0
               PROVE  /\ c \div h \in Int /\ (c \div h) * h <= c
                      /\ \A d \in Int : d <= (c \div h) - 2 => d * h + h + h <= c
<1> DEFINE today == c \div h
<1>1. today \in Int /\ today * h <= c
  OBVIOUS
<1> HIDE DEF today
<1>2. ASSUME NEW d \in Int, d <= today - 2 PROVE d * h + h + h <= c
  <2>1. d + 2 <= today /\ d + 2 \in Int
    BY <1>1, <1>2
  <2>2. (d + 2) * h <= today * h
    <3> DEFINE e == d + 2
    <3>1. e \in Int /\ e <= today
      BY <2>1
    <3> HIDE DEF e
    <3>2. e * h <= today * h
      BY <1>1, <3>1
    <3> QED BY <3>2 DEF e
  <2>3. (d + 2) * h = d * h + h + h
    OBVIOUS
  <2>4. d * h \in Int /\ today * h \in Int
    BY <1>1
  <2> QED BY <1>1, <2>2, <2>3, <2>4
<1> QED BY <1>1, <1>2 DEF today

\* find_active_entry(), for any schedule, any hours of the sun and any offsets
\* within NoTimePastMidnight.
LEMMA FindActiveEntryIs == ASSUME NoTimePastMidnight, Scheduled PROVE FindsWhatRuns
<1> DEFINE today == clock \div DayHours
           active == ActiveEntries(DaysConsidered(today))
           first == CHOOSE p \in active : \A q \in active : NoLater(p, q)
<1>1. /\ DayHours \in Nat /\ DayHours > 0 /\ clock \in Nat /\ specs \in Seq(EntrySpec)
      /\ Len(specs) \in Nat
  BY EntriesAssumption DEF EntriesAssumption, Scheduled
<1>2. /\ today \in Int
      /\ \A d \in Int : d <= today - 2 => d * DayHours + DayHours + DayHours <= clock
  BY <1>1, Today
<1>3. active = {p \in (1 .. 2) \X (1 .. Len(specs)) : ActiveOn(p[2], <<today, today - 1>>[p[1]])}
  BY DEF ActiveEntries, DaysConsidered
<1>4. FindActiveEntry = IF active = {} THEN 0 ELSE first[2]
  BY DEF FindActiveEntry
<1> HIDE DEF today, active, first
<1>5. ASSUME NEW i \in 1 .. Len(specs), NEW k \in 1 .. 2
      PROVE  <<k, i>> \in active <=> RunsSince(i, <<today, today - 1>>[k], clock)
  <2>1. <<today, today - 1>>[k] \in Int
    BY <1>2
  <2>2. <<k, i>> \in active <=> ActiveOn(i, <<today, today - 1>>[k])
    BY <1>3
  <2> QED BY <2>1, <2>2, ActiveIsRunning
<1>6. CASE active = {}
  <2>1. ASSUME NEW i \in 1 .. Len(specs), NEW d \in Int, RunsSince(i, d, clock) PROVE d > today
    <3>1. clock < d * DayHours + DayHours + DayHours
      BY <2>1, ActiveIsRunning
    <3>2. ~(d <= today - 2)
      <4>1. d * DayHours \in Int
        BY <1>1
      <4> QED BY <1>1, <1>2, <3>1, <4>1
    <3>3. d # today /\ d # today - 1
      <4>1. /\ <<today, today - 1>>[1] = today /\ <<today, today - 1>>[2] = today - 1
            /\ 1 \in 1 .. 2 /\ 2 \in 1 .. 2
        OBVIOUS
      <4> QED BY <1>5, <1>6, <2>1, <4>1
    <3> QED BY <1>2, <3>2, <3>3
  <2>2. FindActiveEntry = 0
    BY <1>4, <1>6
  <2>3. today - 3 .. today + 3 \subseteq Int
    BY <1>2
  <2> QED BY <2>1, <2>2, <2>3 DEF FindsWhatRuns, today
<1>7. CASE active # {}
  <2>1. active \in SUBSET ((1 .. 2) \X (1 .. Len(specs)))
    BY <1>3
  <2>2. first \in active /\ \A q \in active : NoLater(first, q)
    <3>1. \E p \in active : \A q \in active : NoLater(p, q)
      BY <1>1, <1>7, <2>1, Earliest
    <3> QED BY <3>1 DEF first
  <2> DEFINE k == first[1]
             i == first[2]
             d == <<today, today - 1>>[k]
  <2>3. k \in 1 .. 2 /\ i \in 1 .. Len(specs) /\ first = <<k, i>>
    BY <2>1, <2>2
  <2>4. d \in today - 3 .. today + 3
    <3>1. d = today \/ d = today - 1
      BY <2>3
    <3> QED BY <1>2, <3>1
  <2>5. RunsSince(i, d, clock)
    BY <1>5, <2>2, <2>3
  <2>6. ASSUME NEW j \in 1 .. i - 1 PROVE ~RunsSince(j, d, clock)
    <3> SUFFICES ASSUME RunsSince(j, d, clock) PROVE FALSE
      OBVIOUS
    <3>1. j \in 1 .. Len(specs) /\ j < i /\ i \in Nat /\ k \in Nat
      BY <1>1, <2>3
    <3>2. <<k, j>> \in active
      BY <1>5, <2>3, <3>1
    <3>3. NoLater(first, <<k, j>>)
      BY <2>2, <3>2
    <3>4. k < k \/ (k = k /\ i <= j)
      BY <3>3 DEF NoLater
    <3> QED BY <3>1, <3>4
  <2>7. FindActiveEntry = i /\ i # 0
    BY <1>1, <1>4, <1>7, <2>3
  <2> HIDE DEF i, d
  <2> QED BY <2>4, <2>5, <2>6, <2>7 DEF FindsWhatRuns, today
<1> QED BY <1>6, <1>7

\* At any time the scheduler finds an entry exactly if one runs, and none that
\* comes before it in the file runs since the same day.  It looks at today and
\* yesterday; the theorem is about all days.
THEOREM FindsWhatRunsAlways == ASSUME NoTimePastMidnight PROVE EntriesSpec => []FindsWhatRuns
<1>1. EntriesInit => Scheduled
  BY EmptySeq DEF EntriesInit, Scheduled
<1>2. Scheduled /\ [EntriesNext]_entriesVars => Scheduled'
  <2> SUFFICES ASSUME Scheduled, [EntriesNext]_entriesVars PROVE Scheduled'
    OBVIOUS
  <2>1. CASE ClockTick
    <3>1. Week * DayHours \in Nat /\ Week * DayHours > 0
      BY EntriesAssumption DEF EntriesAssumption
    <3> DEFINE n == Week * DayHours
    <3>2. n \in Nat /\ n > 0 /\ clock' = (clock + 1) % n /\ clock \in Nat /\ specs' = specs
      BY <2>1, <3>1 DEF ClockTick, Scheduled
    <3> HIDE DEF n
    <3>3. clock' \in Nat
      BY <3>2
    <3> QED BY <3>2, <3>3 DEF Scheduled
  <2>2. CASE LoadSchedule
    BY <2>2, EntriesAssumption DEF EntriesAssumption, LoadSchedule, Scheduled
  <2>3. CASE UNCHANGED entriesVars
    BY <2>3 DEF entriesVars, Scheduled
  <2> QED BY <2>1, <2>2, <2>3 DEF EntriesNext
<1>3. Scheduled => FindsWhatRuns
  BY FindActiveEntryIs
<1> QED BY <1>1, <1>2, <1>3, PTL DEF EntriesSpec

\* What the runs of the schedule look at: its entries, and an hour of the week.
LEMMA EntriesTypes ==
  /\ EntriesInit => EntriesTypeOK
  /\ EntriesTypeOK /\ [EntriesNext]_entriesVars => EntriesTypeOK'
<1>0. Week * DayHours \in Nat /\ Week * DayHours > 0
  BY EntriesAssumption DEF EntriesAssumption
<1>1. EntriesInit => EntriesTypeOK
  BY <1>0, EmptySeq DEF EntriesInit, EntriesTypeOK
<1>2. ASSUME EntriesTypeOK, ClockTick PROVE EntriesTypeOK'
  <2> DEFINE n == Week * DayHours
  <2>1. n \in Nat /\ n > 0 /\ clock \in Nat /\ clock' = (clock + 1) % n /\ specs' = specs
    BY <1>0, <1>2 DEF ClockTick, EntriesTypeOK
  <2> HIDE DEF n
  <2>2. clock' \in 0..n - 1
    BY <2>1
  <2> QED BY <1>2, <2>1, <2>2 DEF EntriesTypeOK, n
<1>3. ASSUME EntriesTypeOK, LoadSchedule PROVE EntriesTypeOK'
  BY <1>3, EntriesAssumption DEF EntriesAssumption, LoadSchedule, EntriesTypeOK
<1>4. ASSUME EntriesTypeOK, UNCHANGED entriesVars PROVE EntriesTypeOK'
  BY <1>4 DEF entriesVars, EntriesTypeOK
<1> QED BY <1>1, <1>2, <1>3, <1>4 DEF EntriesNext

-----------------------------------------------------------------------------
(* The zones of a group.                                                   *)

LEMMA Tuple == ASSUME NEW S, NEW n \in Nat, NEW f \in [1..n -> S]
               PROVE  f \in Seq(S) /\ Len(f) = n
  BY SeqDef, LenProperties

\* The recursive function in FlattenSeq exists: one that goes as far as possible
\* goes to the end.
LEMMA FlattenExists ==
  ASSUME NEW S, NEW n \in Nat \ {0}, NEW seqs \in [1..n -> Seq(S)]
  PROVE  \E f : f = [i \in 1..n |-> IF i = 1 THEN seqs[i] ELSE f[i - 1] \o seqs[i]]
<1> DEFINE Follows(f, m) ==
             \A i \in 1..m : f[i] = IF i = 1 THEN seqs[i] ELSE f[i - 1] \o seqs[i]
           Reached == {m \in 1..n : \E f : Follows(f, m)}
<1>1. 1 \in Reached
  <2>1. Follows([i \in {1} |-> seqs[1]], 1)
    OBVIOUS
  <2> HIDE DEF Follows
  <2> QED BY <2>1
<1>2. PICK m \in Reached : \A k \in Reached : k <= m
  <2> HIDE DEF Reached
  <2>1. Reached # {}
    BY <1>1
  <2>2. Reached \subseteq 1..n
    BY DEF Reached
  <2> QED BY <2>1, <2>2, Greatest
<1>3. PICK f : Follows(f, m)
  <2> HIDE DEF Follows
  <2> QED BY <1>2
<1>4. m = n
  <2> SUFFICES ASSUME m # n PROVE FALSE
    OBVIOUS
  <2>1. m + 1 \in 1..n /\ m \in 1..n
    BY <1>2
  <2> DEFINE g == [i \in 1..m + 1 |-> IF i = m + 1 THEN f[m] \o seqs[m + 1] ELSE f[i]]
  <2>2. Follows(g, m + 1)
    <3> SUFFICES ASSUME NEW i \in 1..m + 1
                 PROVE  g[i] = IF i = 1 THEN seqs[i] ELSE g[i - 1] \o seqs[i]
      OBVIOUS
    <3>1. CASE i = m + 1
      <4>1. i # 1 /\ i - 1 = m /\ m \in 1..m + 1 /\ m # m + 1
        BY <2>1, <3>1
      <4> QED BY <3>1, <4>1
    <3>2. CASE i # m + 1
      <4>1. i \in 1..m /\ (i # 1 => i - 1 \in 1..m /\ i - 1 \in 1..m + 1 /\ i - 1 # m + 1)
        BY <2>1, <3>2
      <4>2. f[i] = IF i = 1 THEN seqs[i] ELSE f[i - 1] \o seqs[i]
        BY <1>3, <4>1
      <4> QED BY <3>2, <4>1, <4>2
    <3> QED BY <3>1, <3>2
  <2> HIDE DEF Follows, g
  <2>3. m + 1 \in Reached
    BY <2>1, <2>2
  <2> HIDE DEF Reached
  <2> QED BY <1>2, <2>1, <2>3
<1> DEFINE h == [i \in 1..n |-> f[i]]
<1>5. \A i \in 1..n : f[i] = IF i = 1 THEN seqs[i] ELSE f[i - 1] \o seqs[i]
  BY <1>3, <1>4
<1>6. \A i \in 1..n : h[i] = IF i = 1 THEN seqs[i] ELSE h[i - 1] \o seqs[i]
  <2>1. \A i \in 1..n : i # 1 => i - 1 \in 1..n
    OBVIOUS
  <2> QED BY <1>5, <2>1
<1>7. h = [i \in 1..n |-> IF i = 1 THEN seqs[i] ELSE h[i - 1] \o seqs[i]]
  <2>1. h = [i \in 1..n |-> h[i]]
    OBVIOUS
  <2> HIDE DEF h
  <2> QED BY <1>6, <2>1
<1> HIDE DEF h
<1> QED BY <1>7

LEMMA FlattenTyped ==
  ASSUME NEW S, NEW n \in Nat \ {0}, NEW seqs \in [1..n -> Seq(S)]
  PROVE  FlattenSeq(seqs) \in Seq(S)
<1> DEFINE f == CHOOSE g : g = [i \in 1..n |-> IF i = 1 THEN seqs[i] ELSE g[i - 1] \o seqs[i]]
<1>1. f = [i \in 1..n |-> IF i = 1 THEN seqs[i] ELSE f[i - 1] \o seqs[i]]
  BY FlattenExists
<1>2. Len(seqs) = n
  BY Tuple
<1>3. FlattenSeq(seqs) = f[n]
  BY <1>2 DEF FlattenSeq
<1> HIDE DEF f
<1> DEFINE Bad == {i \in 1..n : f[i] \notin Seq(S)}
<1>4. Bad = {}
  <2> SUFFICES ASSUME Bad # {} PROVE FALSE
    OBVIOUS
  <2>1. Bad \in SUBSET Nat
    OBVIOUS
  <2>2. PICK m \in Bad : \A k \in Bad : m <= k
    <3> HIDE DEF Bad
    <3> QED BY <2>1, Least
  <2>3. m \in 1..n /\ f[m] \notin Seq(S)
    OBVIOUS
  <2>4. m # 1
    BY <1>1, <2>3
  <2>5. m - 1 \in 1..n /\ ~(m <= m - 1)
    BY <2>3, <2>4
  <2>6. f[m - 1] \in Seq(S)
    BY <2>2, <2>5
  <2>7. f[m] = f[m - 1] \o seqs[m] /\ seqs[m] \in Seq(S)
    BY <1>1, <2>3, <2>4
  <2>8. f[m - 1] \o seqs[m] \in Seq(S)
    BY <2>6, <2>7, ConcatProperties
  <2> QED BY <2>3, <2>7, <2>8
<1> QED BY <1>3, <1>4

Colors == Nat \X Nat
MapZone == GroupMembers \X (1..MaxZones \union {Sentinel})
Batch == GroupMembers \X Seq(Colors)

CountsInv ==
  /\ strip \in [GroupMembers -> 1..MaxZones] /\ zoneCount \in [GroupMembers -> 1..MaxZones]
  /\ zoneMap \in Seq(MapZone) /\ virtualCount \in Nat
  /\ introspector \in
       [Introspectors -> [at : {"idle", "query", "rebuild"}, member : GroupMembers]]
  /\ rewirings \in 0..MaxRewirings
FramesInv ==
  /\ pipeline \in Seq(Nat) /\ Len(pipeline) <= MaxPipeline /\ held \in Nat
  /\ send \in [at : {"idle", "collect", "flush"}, map : Seq(MapZone), colors : Nat,
               member : GroupMembers \union {0}, batches : Seq(Batch)]
ShowsInv ==
  shows = [m \in GroupMembers |-> shows[m]] /\ \A m \in GroupMembers : shows[m] \in [1..strip[m] -> Colors]
ZonesInv == CountsInv /\ FramesInv /\ ShowsInv

LEMMA ZonesBounds ==
  /\ MaxZones \in Nat \ {0} /\ MaxPipeline \in Nat \ {0} /\ MaxRewirings \in Nat
  /\ \E n \in Nat \ {0} : GroupMembers = 1..n
  /\ 1 \in GroupMembers /\ Black \in Colors /\ <<>> \in Seq(MapZone)
  /\ Strips \subseteq GroupMembers /\ SingleZone \subseteq GroupMembers
<1>1. MaxZones \in Nat \ {0} /\ MaxPipeline \in Nat \ {0} /\ MaxRewirings \in Nat
  BY ZonesAssumption DEF ZonesAssumption
<1>2. Cardinality(GroupMembers) \in Nat
  BY ZonesAssumption, FS_CardinalityType DEF ZonesAssumption
<1>3. PICK n \in 1..Cardinality(GroupMembers) : GroupMembers = 1..n
  BY ZonesAssumption DEF ZonesAssumption
<1>4. n \in Nat \ {0} /\ GroupMembers = 1..n
  BY <1>2, <1>3
<1>5. 1 \in GroupMembers
  BY <1>4
<1>6. Strips \subseteq GroupMembers /\ SingleZone \subseteq GroupMembers
  BY DEF GroupMembers
<1>7. Black \in Colors
  BY DEF Black, Colors
<1> HIDE DEF Colors
<1> QED BY <1>1, <1>4, <1>5, <1>6, <1>7

\* A map that is built has zones of members.
LEMMA MapTyped ==
  ASSUME zoneCount \in [GroupMembers -> 1..MaxZones] PROVE BuiltMap \in Seq(MapZone)
<1>1. PICK n \in Nat \ {0} : GroupMembers = 1..n
  BY ZonesBounds
<1>2. ASSUME NEW m \in GroupMembers PROVE ZonesOf(m) \in Seq(MapZone)
  <2>0. zoneCount[m] \in 1..MaxZones /\ zoneCount[m] \in Nat
    BY ZonesBounds
  <2>1. CASE m \in Strips
    <3>1. ZonesOf(m) = [z \in 1..zoneCount[m] |-> <<m, z>>]
      BY <2>1 DEF ZonesOf
    <3>2. \A z \in 1..zoneCount[m] : z \in 1..MaxZones
      BY <2>0, ZonesBounds
    <3>3. ZonesOf(m) \in [1..zoneCount[m] -> MapZone]
      BY <3>1, <3>2 DEF MapZone
    <3> QED BY <2>0, <3>3, Tuple
  <2>2. CASE m \notin Strips
    <3>1. <<m, Sentinel>> \in MapZone
      BY DEF MapZone
    <3> QED BY <2>2, <3>1 DEF ZonesOf
  <2> QED BY <2>1, <2>2
<1> DEFINE seqs == [m \in GroupMembers |-> ZonesOf(m)]
<1>3. seqs \in [1..n -> Seq(MapZone)]
  BY <1>1, <1>2
<1>4. BuiltMap = FlattenSeq(seqs)
  BY DEF BuiltMap
<1> HIDE DEF seqs
<1> QED BY <1>3, <1>4, FlattenTyped

LEMMA ZonesBegin == ZonesInit => ZonesInv
<1> SUFFICES ASSUME ZonesInit PROVE ZonesInv
  OBVIOUS
<1>1. zoneCount \in [GroupMembers -> 1..MaxZones] /\ strip \in [GroupMembers -> 1..MaxZones]
  BY ZonesBounds DEF ZonesInit
<1>2. zoneMap \in Seq(MapZone)
  <2>1. zoneMap = BuiltMap
    BY DEF ZonesInit, BuiltMap
  <2> QED BY <1>1, <2>1, MapTyped
<1>3. virtualCount \in Nat
  BY <1>2, LenProperties DEF ZonesInit
<1>4. CountsInv
  <2>1. AtRest \in [at : {"idle", "query", "rebuild"}, member : GroupMembers]
    BY ZonesBounds DEF AtRest
  <2> QED BY <1>1, <1>2, <1>3, <2>1, ZonesBounds DEF ZonesInit, CountsInv
<1>5. FramesInv
  BY ZonesBounds DEF ZonesInit, FramesInv, NoSend
<1>6. ShowsInv
  <2>1. /\ shows = [m \in GroupMembers |-> [z \in 1..strip[m] |-> Black]] /\ Black \in Colors
    BY ZonesBounds DEF ZonesInit
  <2> HIDE DEF Colors
  <2> QED BY <2>1 DEF ShowsInv
<1> QED BY <1>4, <1>5, <1>6 DEF ZonesInv

\* What a device shows are colors if it is sent colors.
LEMMA PaintStep ==
  ASSUME ZonesInv, NEW m \in GroupMembers, NEW colors \in Seq(Colors),
         shows' = [shows EXCEPT ![m] = Painted(m, colors)], UNCHANGED strip
  PROVE  ShowsInv'
<1>1. Painted(m, colors) \in [1..strip[m] -> Colors]
  <2> SUFFICES ASSUME NEW z \in 1..strip[m]
               PROVE  (IF z <= Len(colors) THEN colors[z] ELSE shows[m][z]) \in Colors
    BY DEF Painted
  <2>1. strip[m] \in Nat
    BY ZonesBounds DEF ZonesInv, CountsInv
  <2>2. CASE z <= Len(colors)
    <3>1. z \in 1..Len(colors)
      BY <2>1, <2>2, LenProperties
    <3>2. colors[z] \in Colors
      <4> HIDE DEF Colors
      <4> QED BY <3>1, ElementOfSeq
    <3> QED BY <2>2, <3>2
  <2>3. CASE ~(z <= Len(colors))
    BY <2>3 DEF ZonesInv, ShowsInv
  <2> QED BY <2>2, <2>3
<1> HIDE DEF Colors
<1> QED BY <1>1 DEF ZonesInv, ShowsInv

LEMMA Sent ==
  ASSUME ZonesInv, NEW m
  PROVE  SetToSeq({ColorOf(k) : k \in Collected(m)}) \in Seq(Colors)
<1> DEFINE S == {ColorOf(k) : k \in Collected(m)}
           f == [x \in S |-> x[2]]
<1>1. send.map \in Seq(MapZone) /\ send.colors \in Nat
  BY DEF ZonesInv, FramesInv
<1>2. Len(send.map) \in Nat
  BY <1>1, LenProperties
<1>3. Collected(m) \subseteq 1..Len(send.map) /\ IsFiniteSet(1..Len(send.map))
  BY <1>2, FS_Interval DEF Collected
<1>4. IsFiniteSet(Collected(m))
  BY <1>3, FS_Subset
<1>5. f \in Injection(S, Collected(m))
  <2>1. \A x \in S : x = <<send.colors, x[2]>> /\ x[2] \in Collected(m)
    BY DEF ColorOf
  <2>2. f \in [S -> Collected(m)]
    BY <2>1
  <2>3. IsInjective(f)
    <3>1. \A x, y \in S : f[x] = f[y] => x = y
      <4> HIDE DEF S
      <4> QED BY <2>1
    <3> QED BY <2>2, <3>1 DEF IsInjective
  <2> QED BY <2>2, <2>3 DEF Injection
<1> HIDE DEF f
<1>6. IsFiniteSet(S)
  <2> HIDE DEF S
  <2> QED BY <1>4, <1>5, FS_Injection
<1>7. S \subseteq Colors
  BY <1>1, <1>2, <1>3 DEF ColorOf, Colors
<1> HIDE DEF S
<1>8. Cardinality(S) \in Nat
  BY <1>6, FS_CardinalityType
<1>9. /\ IsFiniteSet(1..Cardinality(S))
      /\ Cardinality(1..Cardinality(S)) = IF 1 > Cardinality(S) THEN 0 ELSE Cardinality(S) - 1 + 1
  BY <1>8, FS_Interval
<1>10. Cardinality(1..Cardinality(S)) = Cardinality(S)
  BY <1>8, <1>9
<1>11. ExistsBijection(1..Cardinality(S), S)
  BY <1>6, <1>9, <1>10, FS_SameCardinalityBij
<1>12. \E g \in [1..Cardinality(S) -> S] : IsInjective(g)
  BY <1>11 DEF ExistsBijection, Bijection, Injection
<1>13. SetToSeq(S) \in [1..Cardinality(S) -> S]
  BY <1>12 DEF SetToSeq
<1>14. SetToSeq(S) \in [1..Cardinality(S) -> Colors]
  BY <1>7, <1>13
<1>15. SetToSeq(S) \in Seq(Colors)
  <2> HIDE DEF Colors
  <2> QED BY <1>8, <1>14, Tuple
<1> QED BY <1>15 DEF S

\* The last member is followed by the batches.
LEMMA NextTyped == ASSUME FramesInv
  PROVE  NextMember \in [at : {"idle", "collect", "flush"}, map : Seq(MapZone), colors : Nat,
                         member : GroupMembers \union {0}, batches : Seq(Batch)]
  BY DEF FramesInv, NextMember

LEMMA SendStep == ASSUME ZonesInv, SendGroup PROVE ZonesInv'
<1> DEFINE Send == [at : {"idle", "collect", "flush"}, map : Seq(MapZone), colors : Nat,
                    member : GroupMembers \union {0}, batches : Seq(Batch)]
<1>0. UNCHANGED <<strip, zoneCount, mapVars, introspector, rewirings>>
  BY DEF SendGroup, BeginFrame, CollectSingle, CollectStrip, FlushBatch
<1>1. CountsInv'
  BY <1>0 DEF mapVars, ZonesInv, CountsInv
<1>2. NoSend \in Send
  BY ZonesBounds DEF NoSend
<1>3. CASE BeginFrame
  <2>1. pipeline \in Seq(Nat) /\ held \in Nat /\ zoneMap \in Seq(MapZone)
    BY DEF ZonesInv, FramesInv, CountsInv
  <2>2. held' \in Nat /\ pipeline' \in Seq(Nat) /\ Len(pipeline') <= MaxPipeline
    <3>1. CASE pipeline = <<>>
      BY <1>3, <3>1 DEF BeginFrame, ZonesInv, FramesInv
    <3>2. CASE pipeline # <<>>
      <4>1. /\ Head(pipeline) \in Nat /\ Tail(pipeline) \in Seq(Nat)
            /\ Len(Tail(pipeline)) = Len(pipeline) - 1 /\ Len(pipeline) \in Nat
        BY <2>1, <3>2, HeadTailProperties
      <4>2. Len(Tail(pipeline)) <= MaxPipeline
        BY <4>1, ZonesBounds DEF ZonesInv, FramesInv
      <4> QED BY <1>3, <3>2, <4>1, <4>2 DEF BeginFrame
    <3> QED BY <3>1, <3>2
  <2>3. send' \in Send
    <3>1. send' = [NoSend EXCEPT !.at = "collect", !.map = zoneMap, !.colors = held', !.member = 1]
      BY <1>3 DEF BeginFrame
    <3> QED BY <1>2, <2>1, <2>2, <3>1, ZonesBounds
  <2>4. FramesInv'
    BY <2>2, <2>3 DEF FramesInv
  <2>5. ShowsInv'
    BY <1>0, <1>3 DEF BeginFrame, ZonesInv, ShowsInv
  <2> QED BY <1>1, <2>4, <2>5 DEF ZonesInv
<1>4. CASE CollectSingle
  <2>1. send' \in Send /\ UNCHANGED <<pipeline, held>>
    BY <1>4, NextTyped DEF CollectSingle, ZonesInv
  <2>2. FramesInv'
    BY <2>1 DEF ZonesInv, FramesInv
  <2>3. send.member \in GroupMembers
    BY <1>4, ZonesBounds DEF CollectSingle
  <2>4. ShowsInv'
    BY <1>0, <1>4, <2>3, Sent, PaintStep DEF CollectSingle
  <2> QED BY <1>1, <2>2, <2>4 DEF ZonesInv
<1>5. CASE CollectStrip
  <2> DEFINE m == send.member
             zones == {send.map[k][2] : k \in Collected(m)}
             batch == [z \in 1..zoneCount[m] |->
                        IF z \in zones THEN ColorOf(CHOOSE k \in Collected(m) : send.map[k][2] = z)
                        ELSE Black]
  <2>1. m \in GroupMembers /\ UNCHANGED <<pipeline, held, shows>>
    BY <1>5, ZonesBounds DEF CollectStrip
  <2>2. batch \in Seq(Colors)
    <3>1. ASSUME NEW z \in zones
          PROVE  ColorOf(CHOOSE k \in Collected(m) : send.map[k][2] = z) \in Colors
      <4>1. (CHOOSE k \in Collected(m) : send.map[k][2] = z) \in Collected(m)
        BY <3>1
      <4>2. \A k \in Collected(m) : k \in Nat
        BY DEF Collected
      <4>3. send.colors \in Nat
        BY DEF ZonesInv, FramesInv
      <4> QED BY <4>1, <4>2, <4>3 DEF ColorOf, Colors
    <3>2. batch \in [1..zoneCount[m] -> Colors]
      <4> HIDE DEF zones, Colors
      <4> QED BY <3>1, ZonesBounds
    <3>3. zoneCount[m] \in Nat
      BY <2>1, ZonesBounds DEF ZonesInv, CountsInv
    <3> HIDE DEF batch, Colors
    <3> QED BY <3>2, <3>3, Tuple
  <2>3. <<m, batch>> \in Batch
    <3> HIDE DEF batch
    <3> QED BY <2>1, <2>2 DEF Batch
  <2>4. NextMember \in Send
    BY NextTyped DEF ZonesInv
  <2>5. send' = NoSend \/ send' = NextMember
        \/ send' = [NextMember EXCEPT !.batches = Append(@, <<m, batch>>)]
    BY <1>5 DEF CollectStrip
  <2> HIDE DEF batch, m
  <2>6. send' \in Send
    <3>1. Append(NextMember.batches, <<m, batch>>) \in Seq(Batch)
      BY <2>3, <2>4, AppendProperties
    <3> QED BY <1>2, <2>4, <2>5, <3>1
  <2>7. FramesInv' /\ ShowsInv'
    BY <1>0, <2>1, <2>6 DEF ZonesInv, FramesInv, ShowsInv
  <2> QED BY <1>1, <2>7 DEF ZonesInv
<1>6. CASE FlushBatch
  <2>0. send \in Send /\ UNCHANGED <<pipeline, held>>
    BY <1>6 DEF FlushBatch, ZonesInv, FramesInv
  <2>1. CASE send.batches = <<>>
    BY <1>0, <1>1, <1>2, <1>6, <2>0, <2>1 DEF FlushBatch, ZonesInv, FramesInv, ShowsInv
  <2>2. CASE send.batches # <<>>
    <3>1. Head(send.batches) \in Batch /\ Tail(send.batches) \in Seq(Batch)
      <4>1. send.batches \in Seq(Batch)
        BY <2>0
      <4> QED BY <2>2, <4>1, HeadTailProperties
    <3>2. Head(send.batches)[1] \in GroupMembers /\ Head(send.batches)[2] \in Seq(Colors)
      BY <3>1 DEF Batch
    <3>3. /\ shows' = [shows EXCEPT ![Head(send.batches)[1]] =
                         Painted(Head(send.batches)[1], Head(send.batches)[2])]
          /\ send' = [send EXCEPT !.batches = Tail(@)]
      BY <1>6, <2>2 DEF FlushBatch
    <3>4. ShowsInv'
      BY <1>0, <3>2, <3>3, PaintStep
    <3>5. send' \in Send
      BY <2>0, <3>1, <3>3
    <3>6. FramesInv'
      BY <2>0, <3>5 DEF ZonesInv, FramesInv
    <3> QED BY <1>1, <3>4, <3>6 DEF ZonesInv
  <2> QED BY <2>1, <2>2
<1> QED BY <1>3, <1>4, <1>5, <1>6 DEF SendGroup

LEMMA RenderStep == ASSUME ZonesInv, RenderGroup PROVE ZonesInv'
<1>1. /\ Len(pipeline) < MaxPipeline /\ pipeline' = Append(pipeline, virtualCount)
      /\ UNCHANGED <<strip, zoneCount, zoneMap, virtualCount, held, send, shows, introspector,
                     rewirings>>
  BY DEF RenderGroup, mapVars
<1>2. pipeline' \in Seq(Nat) /\ Len(pipeline') <= MaxPipeline
  <2>1. pipeline \in Seq(Nat) /\ virtualCount \in Nat
    BY DEF ZonesInv, FramesInv, CountsInv
  <2>2. Len(Append(pipeline, virtualCount)) = Len(pipeline) + 1 /\ Len(pipeline) \in Nat
    BY <2>1, AppendProperties, LenProperties
  <2> QED BY <1>1, <2>1, <2>2, AppendProperties, ZonesBounds
<1> QED BY <1>1, <1>2 DEF ZonesInv, CountsInv, FramesInv, ShowsInv

LEMMA IntrospectStep ==
  ASSUME ZonesInv, NEW h \in Introspectors,
         \/ \E m \in Strips : Reintrospect(h, m)
         \/ QueryZones(h) \/ RebuildMap(h) \/ RebuildCount(h)
  PROVE  ZonesInv'
<1>0. UNCHANGED <<strip, pipeline, held, send, shows, rewirings>>
  BY DEF Reintrospect, QueryZones, RebuildMap, RebuildCount, frameVars
<1>1. FramesInv' /\ ShowsInv'
  BY <1>0 DEF ZonesInv, FramesInv, ShowsInv
<1>2. introspector' \in
        [Introspectors -> [at : {"idle", "query", "rebuild"}, member : GroupMembers]]
  <2>1. AtRest \in [at : {"idle", "query", "rebuild"}, member : GroupMembers]
    BY ZonesBounds DEF AtRest
  <2> QED BY <2>1, ZonesBounds
          DEF Reintrospect, QueryZones, RebuildMap, RebuildCount, ZonesInv, CountsInv
<1>3. zoneCount' \in [GroupMembers -> 1..MaxZones]
  BY DEF Reintrospect, QueryZones, RebuildMap, RebuildCount, ZonesInv, CountsInv
<1>4. zoneMap' \in Seq(MapZone)
  BY MapTyped DEF Reintrospect, QueryZones, RebuildMap, RebuildCount, mapVars, ZonesInv, CountsInv
<1>5. virtualCount' \in Nat
  <2>1. Len(zoneMap) \in Nat
    BY LenProperties DEF ZonesInv, CountsInv
  <2> QED BY <2>1 DEF Reintrospect, QueryZones, RebuildMap, RebuildCount, mapVars, ZonesInv, CountsInv
<1> QED BY <1>0, <1>1, <1>2, <1>3, <1>4, <1>5 DEF ZonesInv, CountsInv

LEMMA RewireStep == ASSUME ZonesInv, NEW m \in Strips, Rewire(m) PROVE ZonesInv'
<1>0. /\ rewirings < MaxRewirings /\ rewirings' = rewirings + 1 /\ m \in GroupMembers
      /\ UNCHANGED <<zoneCount, zoneMap, virtualCount, pipeline, held, send, introspector>>
  BY ZonesBounds DEF Rewire, mapVars
<1>1. PICK n \in 1..MaxZones : /\ strip' = [strip EXCEPT ![m] = n]
                               /\ shows' = [shows EXCEPT ![m] = [z \in 1..n |-> Black]]
  BY DEF Rewire
<1>2. CountsInv'
  <2>1. rewirings' \in 0..MaxRewirings
    BY <1>0, ZonesBounds DEF ZonesInv, CountsInv
  <2>2. strip' \in [GroupMembers -> 1..MaxZones]
    BY <1>1 DEF ZonesInv, CountsInv
  <2> QED BY <1>0, <2>1, <2>2 DEF ZonesInv, CountsInv
<1>3. FramesInv'
  BY <1>0 DEF ZonesInv, FramesInv
<1>4. ShowsInv'
  <2> HIDE DEF Colors
  <2>1. [z \in 1..n |-> Black] \in [1..n -> Colors]
    BY ZonesBounds
  <2>2. strip \in [GroupMembers -> 1..MaxZones]
    BY DEF ZonesInv, CountsInv
  <2> QED BY <1>0, <1>1, <2>1, <2>2 DEF ZonesInv, ShowsInv
<1> QED BY <1>2, <1>3, <1>4 DEF ZonesInv

LEMMA ZonesStep == ZonesInv /\ [ZonesNext]_zonesVars => ZonesInv'
<1>1. ZonesInv /\ UNCHANGED zonesVars => ZonesInv'
  BY DEF zonesVars, mapVars, frameVars, ZonesInv, CountsInv, FramesInv, ShowsInv
<1> QED BY <1>1, SendStep, RenderStep, IntrospectStep, RewireStep DEF ZonesNext

LEMMA ZonesTypes == ZonesInv => ZonesTypeOK
<1> SUFFICES ASSUME ZonesInv PROVE ZonesTypeOK
  OBVIOUS
<1>1. \A k \in DOMAIN zoneMap : zoneMap[k] \in MapZone
  BY DEF ZonesInv, CountsInv
<1> QED BY <1>1 DEF ZonesInv, CountsInv, FramesInv, ShowsInv, ZonesTypeOK, MapZone, Colors

\* A map that does not follow the counts yet is one that a rebuild will replace, which
\* has not begun; a count that does not follow the map is that of a rebuild half done.
RebuildInv ==
  /\ \/ zoneMap = BuiltMap
     \/ \E h \in Introspectors : introspector[h].at = "rebuild" /\ lockedBy # h
  /\ virtualCount = Len(zoneMap) \/ lockedBy # Nobody
  /\ lockedBy # Nobody => lockedBy \in Introspectors /\ introspector[lockedBy].at = "rebuild"

MapFollowsCounts ==
  (\A h \in Introspectors : introspector[h].at = "idle")
    => zoneMap = BuiltMap /\ virtualCount = Len(zoneMap)

\* The map depends on the counts alone.
LEMMA SameMap == UNCHANGED zoneCount => BuiltMap' = BuiltMap
  BY DEF BuiltMap, ZonesOf

LEMMA RebuildStep == ZonesInv /\ RebuildInv /\ [ZonesNext]_zonesVars => RebuildInv'
<1> SUFFICES ASSUME ZonesInv, RebuildInv, [ZonesNext]_zonesVars PROVE RebuildInv'
  OBVIOUS
<1>0. introspector \in
        [Introspectors -> [at : {"idle", "query", "rebuild"}, member : GroupMembers]]
  BY DEF ZonesInv, CountsInv
<1>1. ASSUME UNCHANGED <<zoneCount, zoneMap, virtualCount, introspector, lockedBy>>
      PROVE  RebuildInv'
  BY <1>1, SameMap DEF RebuildInv
<1>2. CASE RenderGroup \/ SendGroup \/ UNCHANGED zonesVars
  BY <1>1, <1>2 DEF RenderGroup, SendGroup, BeginFrame, CollectSingle, CollectStrip, FlushBatch,
                    zonesVars, mapVars
<1>3. ASSUME NEW m \in Strips, Rewire(m) PROVE RebuildInv'
  BY <1>1, <1>3 DEF Rewire, mapVars
<1>4. ASSUME NEW h \in Introspectors, NEW m \in Strips, Reintrospect(h, m) PROVE RebuildInv'
  <2>1. /\ introspector[h].at = "idle" /\ introspector'[h].at = "query"
        /\ \A g \in Introspectors \ {h} : introspector'[g] = introspector[g]
        /\ UNCHANGED <<zoneCount, zoneMap, virtualCount, lockedBy>>
    BY <1>0, <1>4 DEF Reintrospect, mapVars
  <2>2. \A g \in Introspectors : introspector[g].at = "rebuild" => introspector'[g].at = "rebuild"
    BY <2>1
  <2> QED BY <2>1, <2>2, SameMap DEF RebuildInv
<1>5. ASSUME NEW h \in Introspectors, QueryZones(h) PROVE RebuildInv'
  <2>1. /\ introspector[h].at = "query" /\ introspector'[h].at = "rebuild"
        /\ \A g \in Introspectors \ {h} : introspector'[g] = introspector[g]
        /\ UNCHANGED <<zoneMap, virtualCount, lockedBy>>
    BY <1>0, <1>5 DEF QueryZones, mapVars
  <2>2. lockedBy' # h
    BY <2>1, ZonesAssumption DEF RebuildInv, ZonesAssumption
  <2>3. \A g \in Introspectors : introspector[g].at = "rebuild" => introspector'[g].at = "rebuild"
    BY <2>1
  <2> QED BY <2>1, <2>2, <2>3 DEF RebuildInv
<1>6. ASSUME NEW h \in Introspectors, RebuildMap(h) PROVE RebuildInv'
  <2>1. /\ introspector[h].at = "rebuild" /\ lockedBy' = h /\ h # Nobody
        /\ zoneMap' = BuiltMap /\ UNCHANGED <<zoneCount, introspector>>
    BY <1>6, ZonesAssumption DEF RebuildMap, ZonesAssumption
  <2> QED BY <2>1, SameMap DEF RebuildInv
<1>7. ASSUME NEW h \in Introspectors, RebuildCount(h) PROVE RebuildInv'
  <2>1. /\ lockedBy = h /\ lockedBy' = Nobody /\ virtualCount' = Len(zoneMap)
        /\ \A g \in Introspectors \ {h} : introspector'[g] = introspector[g]
        /\ UNCHANGED <<zoneCount, zoneMap>>
    BY <1>0, <1>7 DEF RebuildCount
  <2>2. h # Nobody
    BY ZonesAssumption DEF ZonesAssumption
  <2> QED BY <2>1, <2>2, SameMap, ZonesAssumption DEF RebuildInv, ZonesAssumption
<1> QED BY <1>2, <1>3, <1>4, <1>5, <1>6, <1>7 DEF ZonesNext

\* Whenever no reintrospect() is under way, the zone map and the zone count of the
\* group (VirtualMultizoneEmitter, emitters/virtual.py) are those of what is known of its
\* members, however the queries and rebuilds of several handlers have overlapped:
\* no rebuild that read old counts is the last one.  It is the safety half of
\* GroupShowsEffect, for any number of members, zones and handlers.
THEOREM MapAlwaysFollowsCounts == ZonesSpec => []MapFollowsCounts
<1>1. ZonesInit => RebuildInv
  BY DEF ZonesInit, RebuildInv, BuiltMap
<1>2. RebuildInv => MapFollowsCounts
  <2> SUFFICES ASSUME RebuildInv, \A h \in Introspectors : introspector[h].at = "idle"
               PROVE  zoneMap = BuiltMap /\ virtualCount = Len(zoneMap)
    BY DEF MapFollowsCounts
  <2> QED BY DEF RebuildInv
<1> QED BY <1>1, <1>2, ZonesBegin, ZonesStep, RebuildStep, PTL DEF ZonesSpec
=============================================================================

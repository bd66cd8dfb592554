---------------------------- MODULE ListsAndSums ----------------------------
(***************************************************************************)
(* Facts about finite collections that the proofs share.  Sums over finite *)
(* sets, as FiniteSetsExt computes them: one element after the other, in   *)
(* an order that CHOOSE decides.  A sum of naturals is the number of its   *)
(* units, so the order does not matter and the theorems about              *)
(* cardinalities apply.  The lists of StepLists: what concatenating,       *)
(* cutting and filtering them keeps.                                       *)
(***************************************************************************)
EXTENDS StepLists, FunctionTheorems, FiniteSetTheorems, SequenceTheorems, TLAPS

\* The units of the weights w of the members of s.
Units(w, s) == {p \in s \X (Nat \ {0}) : p[2] <= w[p[1]]}

Chosen(s) == CHOOSE x \in s : TRUE

\* f sums the weights w of the subsets of S as MapThenFoldSet does.
SumsUp(f, w, S) ==
  f = [s \in SUBSET S |-> IF s = {} THEN 0 ELSE w[Chosen(s)] + f[s \ {Chosen(s)}]]

\* A weight has as many units as it says.
LEMMA UnitsOfOne ==
  ASSUME NEW w, NEW x, w[x] \in Nat
  PROVE  IsFiniteSet(Units(w, {x})) /\ Cardinality(Units(w, {x})) = w[x]
<1>1. Units(w, {x}) = {x} \X (1 .. w[x])
  BY DEF Units
<1>2. IsFiniteSet({x}) /\ Cardinality({x}) = 1
  BY FS_Singleton
<1>4. IsFiniteSet(1 .. w[x]) /\ Cardinality(1 .. w[x]) = w[x]
  <2> DEFINE n == w[x]
  <2>1. n \in Nat /\ n \in Int /\ 1 \in Int
    OBVIOUS
  <2> HIDE DEF n
  <2>2. IsFiniteSet(1 .. n) /\ Cardinality(1 .. n) = IF 1 > n THEN 0 ELSE n - 1 + 1
    BY <2>1, FS_Interval
  <2>3. (IF 1 > n THEN 0 ELSE n - 1 + 1) = n
    BY <2>1
  <2> QED BY <2>2, <2>3 DEF n
<1>3. /\ IsFiniteSet({x} \X (1 .. w[x]))
      /\ Cardinality({x} \X (1 .. w[x])) = 1 * w[x]
  <2> DEFINE A == {x}
             B == 1 .. w[x]
  <2>1. IsFiniteSet(A) /\ IsFiniteSet(B)
    BY <1>2, <1>4
  <2> HIDE DEF A, B
  <2>2. IsFiniteSet(A \X B) /\ Cardinality(A \X B) = Cardinality(A) * Cardinality(B)
    BY <2>1, FS_Product
  <2> QED BY <1>2, <1>4, <2>2 DEF A, B
<1>5. 1 * w[x] = w[x]
  OBVIOUS
<1> QED BY <1>1, <1>2, <1>3, <1>4, <1>5

\* Finitely many weights have finitely many units.
LEMMA UnitsFinite ==
  ASSUME NEW S, IsFiniteSet(S), NEW w, \A x \in S : w[x] \in Nat
  PROVE  IsFiniteSet(Units(w, S)) /\ Cardinality(Units(w, S)) \in Nat
<1> DEFINE parts == {Units(w, {x}) : x \in S}
           part == [x \in S |-> Units(w, {x})]
<1>1. part \in Surjection(S, parts)
  BY DEF Surjection
<1>2. IsFiniteSet(parts)
  <2> HIDE DEF parts, part
  <2> QED BY <1>1, FS_Surjection
<1>3. \A p \in parts : IsFiniteSet(p)
  BY UnitsOfOne
<1>4. Units(w, S) = UNION parts
  BY DEF Units
<1>5. IsFiniteSet(UNION parts)
  <2> HIDE DEF parts
  <2> QED BY <1>2, <1>3, FS_UNION
<1> QED BY <1>4, <1>5, FS_CardinalityType

\* One more weight adds its units.
LEMMA UnitsAdd ==
  ASSUME NEW S, IsFiniteSet(S), NEW w, \A y \in S : w[y] \in Nat,
         NEW x, x \notin S, w[x] \in Nat
  PROVE  Cardinality(Units(w, S \cup {x})) = Cardinality(Units(w, S)) + w[x]
<1>1. Units(w, S \cup {x}) = Units(w, S) \cup Units(w, {x})
  BY DEF Units
<1>2. Units(w, S) \cap Units(w, {x}) = {}
  BY DEF Units
<1>3. /\ IsFiniteSet(Units(w, S)) /\ Cardinality(Units(w, S)) \in Nat
      /\ IsFiniteSet(Units(w, {x})) /\ Cardinality(Units(w, {x})) = w[x]
  BY UnitsFinite, UnitsOfOne
<1>4. Cardinality(Units(w, S \cup {x})) =
        Cardinality(Units(w, S)) + Cardinality(Units(w, {x})) - Cardinality({})
  <2> DEFINE A == Units(w, S)
             B == Units(w, {x})
  <2>1. IsFiniteSet(A) /\ IsFiniteSet(B) /\ A \cap B = {}
    BY <1>2, <1>3
  <2> HIDE DEF A, B
  <2>2. Cardinality(A \cup B) = Cardinality(A) + Cardinality(B) - Cardinality(A \cap B)
    BY <2>1, FS_Union
  <2> QED BY <1>1, <2>1, <2>2 DEF A, B
<1> QED BY <1>3, <1>4, FS_EmptySet

\* Nothing has no units.
LEMMA UnitsOfNone == \A w : Cardinality(Units(w, {})) = 0
<1>1. \A w : Units(w, {}) = {}
  BY DEF Units
<1> QED BY <1>1, FS_EmptySet

\* Counting units sums up.
LEMMA CountingSumsUp ==
  ASSUME NEW S, IsFiniteSet(S), NEW w \in [S -> Nat]
  PROVE  SumsUp([s \in SUBSET S |-> Cardinality(Units(w, s))], w, S)
<1> DEFINE count == [s \in SUBSET S |-> Cardinality(Units(w, s))]
<1>1. ASSUME NEW s \in SUBSET S, s # {}
      PROVE  Cardinality(Units(w, s)) = w[Chosen(s)] + count[s \ {Chosen(s)}]
  <2>1. Chosen(s) \in s
    BY <1>1 DEF Chosen
  <2> DEFINE x == Chosen(s)
             rest == s \ {x}
  <2>2. IsFiniteSet(rest) /\ x \notin rest /\ rest \in SUBSET S
    <3>1. IsFiniteSet(s)
      BY FS_Subset
    <3> QED BY <3>1, FS_RemoveElement
  <2>3. w[x] \in Nat /\ \A y \in rest : w[y] \in Nat
    BY <2>1
  <2>4. s = rest \cup {x}
    BY <2>1
  <2> HIDE DEF x, rest
  <2>5. Cardinality(Units(w, rest \cup {x})) = Cardinality(Units(w, rest)) + w[x]
    BY <2>2, <2>3, UnitsAdd
  <2>6. Cardinality(Units(w, rest)) \in Nat
    BY <2>2, <2>3, UnitsFinite
  <2>7. count[rest] = Cardinality(Units(w, rest))
    BY <2>2
  <2>8. Cardinality(Units(w, s)) = w[x] + count[rest]
    <3> HIDE DEF count
    <3> QED BY <2>3, <2>4, <2>5, <2>6, <2>7
  <2> QED BY <2>8 DEF x, rest
<1>2. \A s \in SUBSET S :
        Cardinality(Units(w, s)) =
          IF s = {} THEN 0 ELSE w[Chosen(s)] + count[s \ {Chosen(s)}]
  BY <1>1, UnitsOfNone
<1>3. count = [s \in SUBSET S |-> IF s = {} THEN 0 ELSE w[Chosen(s)] + count[s \ {Chosen(s)}]]
  BY <1>2
<1> QED BY <1>3 DEF SumsUp

\* Whatever sums up counts units.
LEMMA SumsAreCounts ==
  ASSUME NEW S, IsFiniteSet(S), NEW w \in [S -> Nat], NEW f, SumsUp(f, w, S)
  PROVE  \A s \in SUBSET S : f[s] = Cardinality(Units(w, s))
<1> DEFINE count == [s \in SUBSET S |-> Cardinality(Units(w, s))]
           wrong == {s \in SUBSET S : f[s] # count[s]}
<1> SUFFICES ASSUME wrong # {} PROVE FALSE
  OBVIOUS
<1>1. IsWellFoundedOn(StrictSubsetOrdering(S), FiniteSubsetsOf(S))
  BY FS_StrictSubsetOrderingWellFounded
<1>2. wrong \subseteq FiniteSubsetsOf(S)
  BY FS_FiniteSubsetsOfFinite
<1>3. PICK s \in wrong : \A r \in wrong : ~(<<r, s>> \in StrictSubsetOrdering(S))
  <2> HIDE DEF wrong
  <2> QED BY <1>1, <1>2, WFMin
<1>4. SumsUp(count, w, S)
  BY CountingSumsUp
<1>5. /\ f[s] = IF s = {} THEN 0 ELSE w[Chosen(s)] + f[s \ {Chosen(s)}]
      /\ count[s] = IF s = {} THEN 0 ELSE w[Chosen(s)] + count[s \ {Chosen(s)}]
  <2>1. s \in SUBSET S
    OBVIOUS
  <2> HIDE DEF count, wrong
  <2> QED BY <1>4, <2>1 DEF SumsUp
<1>6. CASE s = {}
  BY <1>5, <1>6
<1>7. CASE s # {}
  <2> DEFINE rest == s \ {Chosen(s)}
  <2>1. Chosen(s) \in s
    BY <1>7 DEF Chosen
  <2>2. rest \in SUBSET S /\ <<rest, s>> \in StrictSubsetOrdering(S)
    BY <2>1 DEF StrictSubsetOrdering
  <2>3. f[rest] = count[rest]
    BY <1>3, <2>2
  <2> QED BY <1>5, <1>7, <2>3
<1> QED BY <1>6, <1>7

\* Disjoint parts of these sizes add up.
LEMMA PartsAddUp ==
  ASSUME NEW S, IsFiniteSet(S), NEW w \in [S -> Nat], NEW part,
         \A x \in S : IsFiniteSet(part[x]) /\ Cardinality(part[x]) = w[x],
         \A x, y \in S : x # y => part[x] \cap part[y] = {}
  PROVE  Cardinality(UNION {part[x] : x \in S}) = Cardinality(Units(w, S))
<1> DEFINE whole(s) == UNION {part[x] : x \in s}
           count == [s \in SUBSET S |-> Cardinality(whole(s))]
<1>1. ASSUME NEW s \in SUBSET S
      PROVE  IsFiniteSet(whole(s)) /\ Cardinality(whole(s)) \in Nat
  <2> DEFINE parts == {part[x] : x \in s}
             pick == [x \in s |-> part[x]]
  <2>1. pick \in Surjection(s, parts)
    BY DEF Surjection
  <2>2. \A p \in parts : IsFiniteSet(p)
    OBVIOUS
  <2>3. IsFiniteSet(s)
    BY FS_Subset
  <2> HIDE DEF parts, pick
  <2>4. IsFiniteSet(parts)
    BY <2>1, <2>3, FS_Surjection
  <2>5. IsFiniteSet(UNION parts)
    BY <2>2, <2>4, FS_UNION
  <2> QED BY <2>5, FS_CardinalityType DEF parts
<1>2. ASSUME NEW s \in SUBSET S, s # {}
      PROVE  Cardinality(whole(s)) = w[Chosen(s)] + count[s \ {Chosen(s)}]
  <2> DEFINE x == Chosen(s)
             rest == s \ {x}
  <2>1. x \in s /\ rest \in SUBSET S
    BY <1>2 DEF Chosen
  <2>2. count[rest] = Cardinality(whole(rest))
    BY <2>1
  <2>3. whole(s) = part[x] \cup whole(rest)
    BY <2>1
  <2>4. part[x] \cap whole(rest) = {}
    <3>1. \A y \in rest : y \in S /\ y # x
      BY <2>1
    <3> QED BY <2>1, <3>1
  <2>5. IsFiniteSet(part[x]) /\ Cardinality(part[x]) = w[x] /\ w[x] \in Nat
    BY <2>1
  <2>6. IsFiniteSet(whole(rest)) /\ Cardinality(whole(rest)) \in Nat
    BY <1>1, <2>1
  <2> HIDE DEF x, rest, whole, count
  <2>7. Cardinality(part[x] \cup whole(rest)) =
          Cardinality(part[x]) + Cardinality(whole(rest)) - Cardinality({})
    BY <2>4, <2>5, <2>6, FS_Union
  <2>8. Cardinality(whole(s)) = w[x] + count[rest]
    BY <2>2, <2>3, <2>5, <2>6, <2>7, FS_EmptySet
  <2> QED BY <2>8 DEF x, rest
<1>3. Cardinality(whole({})) = 0
  <2>1. whole({}) = {}
    OBVIOUS
  <2> QED BY <2>1, FS_EmptySet
<1>4. SumsUp(count, w, S)
  <2>1. \A s \in SUBSET S :
          Cardinality(whole(s)) =
            IF s = {} THEN 0 ELSE w[Chosen(s)] + count[s \ {Chosen(s)}]
    BY <1>2, <1>3
  <2> HIDE DEF whole
  <2>2. count = [s \in SUBSET S |->
                   IF s = {} THEN 0 ELSE w[Chosen(s)] + count[s \ {Chosen(s)}]]
    BY <2>1
  <2> QED BY <2>2 DEF SumsUp
<1>5. count[S] = Cardinality(Units(w, S))
  <2> HIDE DEF count
  <2> QED BY <1>4, SumsAreCounts
<1> QED BY <1>5

\* What 1 .. n numbers has n members.
LEMMA NumberedSet ==
  ASSUME NEW n \in Nat, NEW T, NEW f \in [1 .. n -> T],
         \A a, b \in 1 .. n : f[a] = f[b] => a = b,
         \A t \in T : \E a \in 1 .. n : f[a] = t
  PROVE  IsFiniteSet(T) /\ Cardinality(T) = n
<1>1. f \in Bijection(1 .. n, T)
  BY Fun_IsBij
<1>2. ExistsBijection(1 .. n, T)
  BY <1>1 DEF ExistsBijection
<1>3. Cardinality(T) = n
  BY <1>2, FS_CountingElements
<1>4. IsFiniteSet(1 .. n)
  BY FS_Interval
<1> QED BY <1>2, <1>3, <1>4, FS_Bijection

\* Units depend on the weights of the set's members only.
LEMMA UnitsSame ==
  ASSUME NEW S, NEW v, NEW w, \A x \in S : v[x] = w[x]
  PROVE  Units(v, S) = Units(w, S)
BY DEF Units

\* Disjoint sets add their units.
LEMMA UnitsSplit ==
  ASSUME NEW S, NEW T, IsFiniteSet(S), IsFiniteSet(T), S \cap T = {},
         NEW w, \A x \in S \cup T : w[x] \in Nat
  PROVE  Cardinality(Units(w, S \cup T)) = Cardinality(Units(w, S)) + Cardinality(Units(w, T))
<1>1. Units(w, S \cup T) = Units(w, S) \cup Units(w, T)
  BY DEF Units
<1>2. Units(w, S) \cap Units(w, T) = {}
  BY DEF Units
<1>3. /\ IsFiniteSet(Units(w, S)) /\ Cardinality(Units(w, S)) \in Nat
      /\ IsFiniteSet(Units(w, T)) /\ Cardinality(Units(w, T)) \in Nat
  BY UnitsFinite
<1>4. Cardinality(Units(w, S \cup T)) =
        Cardinality(Units(w, S)) + Cardinality(Units(w, T)) - Cardinality({})
  <2> DEFINE U == Units(w, S)
             V == Units(w, T)
  <2>1. IsFiniteSet(U) /\ IsFiniteSet(V)
    BY <1>3
  <2> HIDE DEF U, V
  <2>2. Cardinality(U \cup V) = Cardinality(U) + Cardinality(V) - Cardinality(U \cap V)
    BY <2>1, FS_Union
  <2> QED BY <1>1, <1>2, <2>2 DEF U, V
<1> QED BY <1>3, <1>4, FS_EmptySet
-----------------------------------------------------------------------------
(* Least and greatest numbers, and the sums of StepLists *)

\* A set of naturals has a least member.
LEMMA LeastNumber ==
  ASSUME NEW N \in SUBSET Nat, N # {}
  PROVE  \E n \in N : \A m \in N : n <= m
<1>1. PICK n \in N : \A m \in N : ~(<<m, n>> \in OpToRel(<, Nat))
  BY NatLessThanWellFounded, WFMin
<1>2. \A m \in N : ~(m < n)
  BY <1>1 DEF OpToRel
<1> QED BY <1>2

\* The maximum of a finite set of integers is one.
LEMMA GreatestMember ==
  ASSUME NEW S \in SUBSET Int, IsFiniteSet(S), S # {}
  PROVE  Max(S) \in S /\ \A x \in S : x <= Max(S)
<1> DEFINE HasMax(s) == \E m \in s : \A x \in s : x <= m
           wrong == {s \in SUBSET S : s # {} /\ ~HasMax(s)}
<1>1. wrong = {}
  <2> SUFFICES ASSUME wrong # {} PROVE FALSE
    OBVIOUS
  <2>1. IsWellFoundedOn(StrictSubsetOrdering(S), FiniteSubsetsOf(S))
    BY FS_StrictSubsetOrderingWellFounded
  <2>2. wrong \subseteq FiniteSubsetsOf(S)
    BY FS_FiniteSubsetsOfFinite
  <2>3. PICK s \in wrong : \A r \in wrong : ~(<<r, s>> \in StrictSubsetOrdering(S))
    <3> HIDE DEF wrong
    <3> QED BY <2>1, <2>2, WFMin
  <2>4. s \subseteq S /\ s # {} /\ ~HasMax(s)
    OBVIOUS
  <2>5. PICK y \in s : TRUE
    BY <2>4
  <2> DEFINE r == s \ {y}
  <2>6. <<r, s>> \in StrictSubsetOrdering(S)
    BY <2>4 DEF StrictSubsetOrdering
  <2>7. r = {} \/ HasMax(r)
    BY <2>3, <2>4, <2>6
  <2>8. CASE r = {}
    <3>1. \A x \in s : x = y
      BY <2>8
    <3>2. y \in Int
      BY <2>4
    <3>3. HasMax(s)
      BY <3>1, <3>2
    <3> QED BY <2>4, <3>3
  <2>9. CASE HasMax(r)
    <3>1. PICK m \in r : \A x \in r : x <= m
      BY <2>9
    <3>2. m \in Int /\ y \in Int /\ m \in s
      BY <2>4, <3>1
    <3>3. \A x \in s : x \in Int /\ (x = y \/ x <= m)
      BY <2>4, <3>1
    <3>4. CASE y <= m
      <4>1. \A x \in s : x <= m
        BY <3>3, <3>4
      <4> QED BY <2>4, <3>2, <4>1
    <3>5. CASE m < y
      <4>1. \A x \in s : x <= y
        BY <3>2, <3>3, <3>5
      <4> QED BY <2>4, <2>5, <4>1
    <3> QED BY <3>2, <3>4, <3>5
  <2> QED BY <2>7, <2>8, <2>9
<1>2. HasMax(S)
  BY <1>1
<1> QED BY <1>2 DEF Max

\* The maximum of two integers.
LEMMA MaxOfTwo ==
  ASSUME NEW a \in Int, NEW b \in Int
  PROVE  Max({a, b}) = IF a <= b THEN b ELSE a
<1>1. IsFiniteSet({a, b}) /\ {a, b} \in SUBSET Int /\ {a, b} # {}
  <2>1. IsFiniteSet({a})
    BY FS_Singleton
  <2>2. IsFiniteSet({a} \cup {b})
    BY <2>1, FS_AddElement
  <2>3. {a, b} = {a} \cup {b}
    OBVIOUS
  <2> QED BY <2>2, <2>3
<1>2. Max({a, b}) \in {a, b} /\ \A x \in {a, b} : x <= Max({a, b})
  BY <1>1, GreatestMember
<1> QED BY <1>2

\* A quotient is where it belongs between the multiples of its divisor.
LEMMA QuotientBounds ==
  ASSUME NEW a \in Nat, NEW c \in Nat \ {0}
  PROVE  a \div c \in Nat /\ c * (a \div c) <= a /\ a < c * (a \div c) + c
OBVIOUS

\* Total counts units.
LEMMA TotalIsCount ==
  ASSUME NEW S, IsFiniteSet(S), NEW w, \A x \in S : w[x] \in Nat
  PROVE  Total(w, S) = Cardinality(Units(w, S)) /\ Total(w, S) \in Nat
<1> DEFINE v == [x \in S |-> w[x]]
           f == CHOOSE g : g = [s \in SUBSET S |->
                  IF s = {} THEN 0 ELSE w[Chosen(s)] + g[s \ {Chosen(s)}]]
           count == [s \in SUBSET S |-> Cardinality(Units(v, s))]
<1>1. Total(w, S) = f[S]
  BY DEF Total, MapThenSumSet, MapThenFoldSet, Chosen
<1>2. v \in [S -> Nat]
  OBVIOUS
<1>3. \A s \in SUBSET S : s # {} => Chosen(s) \in S /\ v[Chosen(s)] = w[Chosen(s)]
  BY DEF Chosen
<1>a. Units(v, S) = Units(w, S)
  BY DEF Units
<1> HIDE DEF v
<1>4. SumsUp(count, v, S)
  BY <1>2, CountingSumsUp
<1>5. count = [s \in SUBSET S |->
        IF s = {} THEN 0 ELSE w[Chosen(s)] + count[s \ {Chosen(s)}]]
  <2> HIDE DEF count
  <2> QED BY <1>3, <1>4 DEF SumsUp
<1>6. f = [s \in SUBSET S |->
        IF s = {} THEN 0 ELSE w[Chosen(s)] + f[s \ {Chosen(s)}]]
  <2> HIDE DEF count
  <2> QED BY <1>5
<1> HIDE DEF f
<1>7. SumsUp(f, v, S)
  BY <1>3, <1>6 DEF SumsUp
<1>8. f[S] = Cardinality(Units(v, S))
  BY <1>2, <1>7, SumsAreCounts
<1> QED BY <1>1, <1>8, <1>a, UnitsFinite

\* Smaller weights have the smaller total, strictly so if one is strictly smaller.
LEMMA TotalMonotone ==
  ASSUME NEW S, IsFiniteSet(S), NEW v, NEW w,
         \A x \in S : v[x] \in Nat /\ w[x] \in Nat /\ v[x] <= w[x]
  PROVE  /\ Total(v, S) \in Nat /\ Total(w, S) \in Nat /\ Total(v, S) <= Total(w, S)
         /\ (\E x \in S : v[x] < w[x]) => Total(v, S) < Total(w, S)
<1> DEFINE V == Units(v, S)
           W == Units(w, S)
<1>1. V \subseteq W
  BY DEF Units
<1>2. (\E x \in S : v[x] < w[x]) => V # W
  <2> SUFFICES ASSUME NEW x \in S, v[x] < w[x] PROVE V # W
    OBVIOUS
  <2>1. <<x, w[x]>> \in W /\ <<x, w[x]>> \notin V
    BY DEF Units
  <2> QED BY <2>1
<1>3. Total(v, S) = Cardinality(V) /\ Total(v, S) \in Nat
  BY TotalIsCount
<1>4. Total(w, S) = Cardinality(W) /\ Total(w, S) \in Nat /\ IsFiniteSet(W)
  BY TotalIsCount, UnitsFinite
<1> HIDE DEF V, W
<1>5. Cardinality(V) <= Cardinality(W) /\ (Cardinality(W) = Cardinality(V) => W = V)
  BY <1>1, <1>4, FS_Subset
<1> QED BY <1>2, <1>3, <1>4, <1>5

-----------------------------------------------------------------------------
(* Lists *)

Distinct(list) == \A i, j \in 1 .. Len(list) : list[i] = list[j] => i = j
Rising(list) == \A j, k \in DOMAIN list : j < k => list[j] < list[k]

\* What a list is.
LEMMA ListTyped ==
  ASSUME NEW T, NEW list \in Seq(T)
  PROVE  /\ Len(list) \in Nat /\ DOMAIN list = 1 .. Len(list)
         /\ \A k \in 1 .. Len(list) : list[k] \in T
         /\ InList(list) = {list[k] : k \in 1 .. Len(list)} /\ InList(list) \subseteq T
         /\ list = <<>> <=> Len(list) = 0
BY LenProperties, EmptySeq DEF InList

\* A list of members of a set is one of members of any larger set.
LEMMA ListWidened ==
  ASSUME NEW T, NEW U, T \subseteq U, NEW list \in Seq(T)
  PROVE  list \in Seq(U)
OBVIOUS

\* A function on 1 .. n is a list.
LEMMA NumberedList ==
  ASSUME NEW T, NEW n \in Nat, NEW f \in [1 .. n -> T]
  PROVE  f \in Seq(T) /\ Len(f) = n /\ DOMAIN f = 1 .. n
<1>1. f \in Seq(T)
  BY SeqDef
<1> QED BY <1>1, LenProperties

\* at lists the n places of a list that a filter keeps, in their order.
KeptAt(list, S, n, at) ==
  /\ n \in Nat /\ at \in [1 .. n -> 1 .. Len(list)]
  /\ \A a, b \in 1 .. n : a < b => at[a] < at[b]
  /\ {at[a] : a \in 1 .. n} = {k \in 1 .. Len(list) : list[k] \in S}
  /\ Keep(list, S) = [a \in 1 .. n |-> list[at[a]]]

\* There are such places.
LEMMA KeptPlaces ==
  ASSUME NEW T, NEW list \in Seq(T), NEW S
  PROVE  \E n, at : KeptAt(list, S, n, at)
<1> DEFINE kept == {k \in DOMAIN list : list[k] \in S}
           n == Cardinality(kept)
           upto(k) == {j \in kept : j <= k}
           rank == [k \in kept |-> Cardinality(upto(k))]
           place(a) == CHOOSE k \in kept : Cardinality(upto(k)) = a
           at == [a \in 1 .. n |-> place(a)]
<1>1. /\ Len(list) \in Nat /\ DOMAIN list = 1 .. Len(list)
  BY ListTyped
<1>2. kept = {k \in 1 .. Len(list) : list[k] \in S}
  BY <1>1
<1>3. IsFiniteSet(1 .. Len(list))
  BY <1>1, FS_Interval
<1>4. IsFiniteSet(kept) /\ n \in Nat
  BY <1>2, <1>3, FS_Subset, FS_CardinalityType
<1>5. ASSUME NEW k \in kept
      PROVE  IsFiniteSet(upto(k)) /\ Cardinality(upto(k)) \in 1 .. n
  <2>1. upto(k) \in SUBSET kept /\ k \in upto(k)
    BY <1>2
  <2> HIDE DEF upto, kept
  <2>2. IsFiniteSet(upto(k)) /\ Cardinality(upto(k)) <= n /\ Cardinality(upto(k)) \in Nat
    BY <1>4, <2>1, FS_Subset, FS_CardinalityType
  <2>3. Cardinality(upto(k)) # 0
    BY <2>1, <2>2, FS_EmptySet
  <2> QED BY <2>2, <2>3, <1>4
<1>6. ASSUME NEW j \in kept, NEW k \in kept, j < k
      PROVE  Cardinality(upto(j)) < Cardinality(upto(k))
  <2>1. upto(j) \in SUBSET upto(k) /\ k \in upto(k) /\ k \notin upto(j)
    BY <1>2, <1>6
  <2> HIDE DEF upto, kept
  <2>2. /\ Cardinality(upto(j)) <= Cardinality(upto(k))
        /\ Cardinality(upto(k)) = Cardinality(upto(j)) => upto(k) = upto(j)
    BY <1>5, <2>1, FS_Subset
  <2>3. Cardinality(upto(j)) \in Nat /\ Cardinality(upto(k)) \in Nat
    BY <1>5
  <2> QED BY <2>1, <2>2, <2>3
<1>a. \A k \in kept : rank[k] = Cardinality(upto(k))
  <2> HIDE DEF upto, kept
  <2> QED OBVIOUS
<1>7. ASSUME NEW j \in kept, NEW k \in kept, rank[j] = rank[k]
      PROVE  j = k
  <2>1. j \in Nat /\ k \in Nat
    BY <1>1, <1>2
  <2>2. rank[j] = Cardinality(upto(j)) /\ rank[k] = Cardinality(upto(k))
    <3> HIDE DEF rank, upto, kept
    <3> QED BY <1>a
  <2>3. Cardinality(upto(j)) \in Nat /\ Cardinality(upto(k)) \in Nat
    <3> HIDE DEF rank, upto, kept, n
    <3> QED BY <1>4, <1>5
  <2> HIDE DEF upto, kept, n, rank, place, at
  <2>4. Cardinality(upto(j)) = Cardinality(upto(k))
    BY <1>7, <2>2
  <2>5. CASE j < k
    <3>1. Cardinality(upto(j)) < Cardinality(upto(k))
      BY <1>6, <2>5
    <3> QED BY <2>3, <2>4, <3>1
  <2>6. CASE k < j
    <3>1. Cardinality(upto(k)) < Cardinality(upto(j))
      BY <1>6, <2>6
    <3> QED BY <2>3, <2>4, <3>1
  <2> QED BY <2>1, <2>5, <2>6
<1>8. rank \in Surjection(kept, 1 .. n)
  <2>1. rank \in Injection(kept, 1 .. n)
    <3>1. rank \in [kept -> 1 .. n]
      BY <1>5
    <3> HIDE DEF rank, kept, n
    <3> QED BY <1>7, <3>1 DEF Injection, IsInjective
  <2>2. IsFiniteSet(1 .. n) /\ Cardinality(1 .. n) = n
    <3> HIDE DEF n
    <3> QED BY <1>4, FS_Interval
  <2> HIDE DEF rank
  <2>3. Cardinality(kept) = Cardinality(1 .. n)
    BY <2>2
  <2> HIDE DEF kept, n
  <2> QED BY <2>1, <2>2, <2>3, FS_Injection
<1>9. ASSUME NEW a \in 1 .. n
      PROVE  at[a] \in kept /\ rank[at[a]] = a
  <2>1. \E k \in kept : rank[k] = a
    <3> HIDE DEF rank, kept, n
    <3> QED BY <1>8 DEF Surjection
  <2>2. \E k \in kept : Cardinality(upto(k)) = a
    BY <2>1
  <2>3. at[a] \in kept /\ Cardinality(upto(at[a])) = a
    <3>1. place(a) \in kept /\ Cardinality(upto(place(a))) = a
      <4> HIDE DEF upto, kept
      <4> QED BY <2>2
    <3> HIDE DEF place
    <3> QED BY <3>1
  <2> HIDE DEF at
  <2> QED BY <2>3
<1>10. at \in [1 .. n -> 1 .. Len(list)]
  <2>1. \A a \in 1 .. n : at[a] \in 1 .. Len(list)
    <3> HIDE DEF at
    <3> QED BY <1>2, <1>9
  <2> HIDE DEF place
  <2> QED BY <2>1
<1>11. ASSUME NEW a \in 1 .. n, NEW b \in 1 .. n, a < b
       PROVE  at[a] < at[b]
  <2>1. at[a] \in kept /\ at[b] \in kept /\ rank[at[a]] = a /\ rank[at[b]] = b
    BY <1>9
  <2> HIDE DEF at
  <2>2. Cardinality(upto(at[a])) = a /\ Cardinality(upto(at[b])) = b
    BY <2>1
  <2>3. at[a] \in Nat /\ at[b] \in Nat
    BY <1>1, <1>2, <2>1
  <2>4. CASE at[a] = at[b]
    BY <2>1, <2>4, <1>11
  <2>5. CASE at[b] < at[a]
    <3> HIDE DEF upto, kept, rank
    <3>1. Cardinality(upto(at[b])) < Cardinality(upto(at[a]))
      BY <1>6, <2>1, <2>5
    <3>2. b < a
      BY <2>2, <3>1
    <3>3. a \in Nat /\ b \in Nat
      BY <1>4
    <3> QED BY <1>11, <3>2, <3>3
  <2> QED BY <2>3, <2>4, <2>5
<1>12. {at[a] : a \in 1 .. n} = kept
  <2>1. ASSUME NEW k \in kept PROVE \E a \in 1 .. n : at[a] = k
    <3>1. rank[k] \in 1 .. n
      BY <1>5
    <3>2. at[rank[k]] \in kept /\ rank[at[rank[k]]] = rank[k]
      BY <1>9, <3>1
    <3>3. at[rank[k]] = k
      <4> HIDE DEF at, rank, kept
      <4> QED BY <1>7, <3>2
    <3> QED BY <3>1, <3>3
  <2> HIDE DEF at, kept, n
  <2> QED BY <1>9, <2>1
<1>13. Keep(list, S) = [a \in 1 .. n |-> list[at[a]]]
  BY DEF Keep
<1> HIDE DEF at, kept, n, upto, rank, place
<1>14. KeptAt(list, S, n, at)
  BY <1>2, <1>4, <1>10, <1>11, <1>12, <1>13 DEF KeptAt
<1> QED BY <1>14

\* What a filter returns: a list of what passes it, in the order it was in.
LEMMA KeepList ==
  ASSUME NEW T, NEW list \in Seq(T), NEW S
  PROVE  /\ Keep(list, S) \in Seq(T) /\ Len(Keep(list, S)) <= Len(list)
         /\ InList(Keep(list, S)) = InList(list) \cap S
         /\ Distinct(list) => Distinct(Keep(list, S))
         /\ Rising(list) => Rising(Keep(list, S))
<1>1. PICK n, at :
        /\ n \in Nat /\ at \in [1 .. n -> 1 .. Len(list)]
        /\ \A a, b \in 1 .. n : a < b => at[a] < at[b]
        /\ {at[a] : a \in 1 .. n} = {k \in 1 .. Len(list) : list[k] \in S}
        /\ Keep(list, S) = [a \in 1 .. n |-> list[at[a]]]
  <2>1. \E n, at : KeptAt(list, S, n, at)
    BY KeptPlaces
  <2> QED BY <2>1 DEF KeptAt
<1> DEFINE K == Keep(list, S)
<1>2. /\ Len(list) \in Nat /\ DOMAIN list = 1 .. Len(list)
      /\ \A k \in 1 .. Len(list) : list[k] \in T
  BY ListTyped
<1>3. \A a \in 1 .. n : at[a] \in 1 .. Len(list) /\ at[a] \in Int /\ a \in Int
  BY <1>1, <1>2
<1>4. n \in Nat /\ K \in [1 .. n -> T]
  BY <1>1, <1>2
<1>5. \A a \in 1 .. n : K[a] = list[at[a]]
  BY <1>1
<1> HIDE DEF K
<1>6. K \in Seq(T) /\ Len(K) = n /\ DOMAIN K = 1 .. n
  BY <1>4, NumberedList
<1>7. InList(K) = InList(list) \cap S
  <2>1. ASSUME NEW x, x \in InList(K) PROVE x \in InList(list) \cap S
    <3>1. PICK a \in 1 .. n : x = list[at[a]]
      BY <1>5, <1>6, <2>1 DEF InList
    <3>2. at[a] \in {k \in 1 .. Len(list) : list[k] \in S}
      BY <1>1
    <3> QED BY <1>2, <3>1, <3>2 DEF InList
  <2>2. ASSUME NEW x, x \in InList(list) \cap S PROVE x \in InList(K)
    <3>1. PICK k \in 1 .. Len(list) : x = list[k]
      BY <1>2, <2>2 DEF InList
    <3>2. k \in {at[a] : a \in 1 .. n}
      BY <1>1, <2>2, <3>1
    <3>3. PICK a \in 1 .. n : k = at[a]
      BY <3>2
    <3> QED BY <1>5, <1>6, <3>1, <3>3 DEF InList
  <2> QED BY <2>1, <2>2
<1>8. \A a, b \in 1 .. n : at[a] = at[b] => a = b
  <2> SUFFICES ASSUME NEW a \in 1 .. n, NEW b \in 1 .. n, at[a] = at[b], a # b PROVE FALSE
    OBVIOUS
  <2>1. a < b \/ b < a
    OBVIOUS
  <2>2. at[a] \in Int /\ at[b] \in Int
    BY <1>3
  <2>3. at[a] < at[b] \/ at[b] < at[a]
    BY <1>1, <2>1
  <2> QED BY <2>2, <2>3
<1>9. ASSUME Distinct(list) PROVE Distinct(K)
  <2> SUFFICES ASSUME NEW a \in 1 .. n, NEW b \in 1 .. n, K[a] = K[b] PROVE a = b
    BY <1>6 DEF Distinct
  <2>1. at[a] \in DOMAIN list /\ at[b] \in DOMAIN list /\ list[at[a]] = list[at[b]]
    BY <1>2, <1>3, <1>5
  <2>2. at[a] = at[b]
    BY <1>9, <2>1 DEF Distinct
  <2> QED BY <1>8, <2>2
<1>10. ASSUME Rising(list) PROVE Rising(K)
  <2> SUFFICES ASSUME NEW a \in 1 .. n, NEW b \in 1 .. n, a < b PROVE K[a] < K[b]
    BY <1>6 DEF Rising
  <2>1. at[a] \in DOMAIN list /\ at[b] \in DOMAIN list /\ at[a] < at[b]
    BY <1>1, <1>2, <1>3
  <2>2. list[at[a]] < list[at[b]]
    BY <1>10, <2>1 DEF Rising
  <2> QED BY <1>5, <2>2
<1>11. n <= Len(list)
  <2>1. at \in Injection(1 .. n, 1 .. Len(list))
    BY <1>1, <1>8 DEF Injection, IsInjective
  <2>2. \A m \in Nat : IsFiniteSet(1 .. m) /\ Cardinality(1 .. m) = m
    BY FS_Interval
  <2>3. /\ IsFiniteSet(1 .. n) /\ Cardinality(1 .. n) = n
        /\ IsFiniteSet(1 .. Len(list)) /\ Cardinality(1 .. Len(list)) = Len(list)
    BY <1>2, <1>4, <2>2
  <2> QED BY <2>1, <2>3, FS_Injection
<1> QED BY <1>6, <1>7, <1>9, <1>10, <1>11 DEF K

\* One list after another.
LEMMA ConcatLists ==
  ASSUME NEW T, NEW s \in Seq(T), NEW t \in Seq(T)
  PROVE  /\ s \o t \in Seq(T) /\ Len(s \o t) = Len(s) + Len(t)
         /\ \A k \in 1 .. Len(s) : (s \o t)[k] = s[k]
         /\ InList(s \o t) = InList(s) \cup InList(t)
         /\ Distinct(s) /\ Distinct(t) /\ InList(s) \cap InList(t) = {} => Distinct(s \o t)
         /\ /\ Rising(s) /\ Rising(t) /\ \A x \in InList(s), y \in InList(t) : x < y
            => Rising(s \o t)
<1> DEFINE u == s \o t
<1>1. /\ Len(s) \in Nat /\ Len(t) \in Nat
      /\ DOMAIN s = 1 .. Len(s) /\ DOMAIN t = 1 .. Len(t)
  BY ListTyped
<1>2. /\ u \in Seq(T) /\ Len(u) = Len(s) + Len(t)
      /\ \A k \in 1 .. Len(s) + Len(t) : u[k] = IF k <= Len(s) THEN s[k] ELSE t[k - Len(s)]
  BY ConcatProperties
<1>3. DOMAIN u = 1 .. Len(s) + Len(t)
  BY <1>2, LenProperties
<1> HIDE DEF u
<1>4. \A k \in DOMAIN s : k \in DOMAIN u /\ u[k] = s[k]
  BY <1>1, <1>2, <1>3
<1>5. \A k \in DOMAIN t : k + Len(s) \in DOMAIN u /\ u[k + Len(s)] = t[k]
  <2> SUFFICES ASSUME NEW k \in 1 .. Len(t)
               PROVE  k + Len(s) \in 1 .. Len(s) + Len(t) /\ u[k + Len(s)] = t[k]
    BY <1>1, <1>3
  <2>1. k + Len(s) \in 1 .. Len(s) + Len(t) /\ ~(k + Len(s) <= Len(s)) /\ k + Len(s) - Len(s) = k
    BY <1>1
  <2> QED BY <1>2, <2>1
<1>6. \A k \in DOMAIN u : \/ k \in DOMAIN s /\ u[k] = s[k]
                          \/ k - Len(s) \in DOMAIN t /\ u[k] = t[k - Len(s)] /\ k > Len(s)
  BY <1>1, <1>2, <1>3
<1>7. InList(u) = InList(s) \cup InList(t)
  <2>1. ASSUME NEW x, x \in InList(u) PROVE x \in InList(s) \cup InList(t)
    BY <1>6, <2>1 DEF InList
  <2>2. ASSUME NEW x, x \in InList(s) \cup InList(t) PROVE x \in InList(u)
    BY <1>4, <1>5, <2>2 DEF InList
  <2> QED BY <2>1, <2>2
<1>8. ASSUME Distinct(s), Distinct(t), InList(s) \cap InList(t) = {} PROVE Distinct(u)
  <2> SUFFICES ASSUME NEW j \in DOMAIN u, NEW k \in DOMAIN u, u[j] = u[k] PROVE j = k
    BY DEF Distinct
  <2>1. j \in Int /\ k \in Int
    BY <1>3
  <2>2. CASE j \in DOMAIN s /\ u[j] = s[j] /\ k \in DOMAIN s /\ u[k] = s[k]
    BY <1>1, <1>8, <2>2 DEF Distinct
  <2>3. CASE /\ j - Len(s) \in DOMAIN t /\ u[j] = t[j - Len(s)]
             /\ k - Len(s) \in DOMAIN t /\ u[k] = t[k - Len(s)]
    <3>1. j - Len(s) = k - Len(s)
      BY <1>1, <1>8, <2>3 DEF Distinct
    <3> QED BY <1>1, <2>1, <3>1
  <2>4. \A a \in DOMAIN s, b \in DOMAIN t : s[a] # t[b]
    BY <1>8 DEF InList
  <2> QED BY <1>6, <2>2, <2>3, <2>4
<1>9. ASSUME Rising(s), Rising(t), \A x \in InList(s), y \in InList(t) : x < y
      PROVE  Rising(u)
  <2> SUFFICES ASSUME NEW j \in DOMAIN u, NEW k \in DOMAIN u, j < k PROVE u[j] < u[k]
    BY DEF Rising
  <2>1. j \in Int /\ k \in Int
    BY <1>3
  <2>2. CASE j \in DOMAIN s /\ u[j] = s[j] /\ k \in DOMAIN s /\ u[k] = s[k]
    BY <1>9, <2>2 DEF Rising
  <2>3. CASE /\ j - Len(s) \in DOMAIN t /\ u[j] = t[j - Len(s)]
             /\ k - Len(s) \in DOMAIN t /\ u[k] = t[k - Len(s)]
    <3>1. j - Len(s) < k - Len(s)
      BY <1>1, <2>1
    <3> QED BY <1>9, <2>3, <3>1 DEF Rising
  <2>4. CASE /\ j \in DOMAIN s /\ u[j] = s[j]
             /\ k - Len(s) \in DOMAIN t /\ u[k] = t[k - Len(s)]
    BY <1>9, <2>4 DEF InList
  <2>5. CASE j > Len(s) /\ k \in DOMAIN s
    BY <1>1, <2>1, <2>5
  <2> QED BY <1>6, <2>2, <2>3, <2>4, <2>5
<1> QED BY <1>1, <1>2, <1>4, <1>7, <1>8, <1>9 DEF u

\* A list cut in two.
LEMMA CutLists ==
  ASSUME NEW T, NEW list \in Seq(T), NEW n \in 0 .. Len(list)
  PROVE  LET front == SubSeq(list, 1, n)
             back == SubSeq(list, n + 1, Len(list))
         IN  /\ front \in Seq(T) /\ Len(front) = n
             /\ back \in Seq(T) /\ Len(back) = Len(list) - n
             /\ \A k \in 1 .. n : front[k] = list[k]
             /\ InList(front) \cup InList(back) = InList(list)
             /\ Distinct(list) => /\ Distinct(front) /\ Distinct(back)
                                  /\ InList(front) \cap InList(back) = {}
             /\ Rising(list) => /\ Rising(front) /\ Rising(back)
                                /\ \A x \in InList(front), y \in InList(back) : x < y
<1> DEFINE front == SubSeq(list, 1, n)
           back == SubSeq(list, n + 1, Len(list))
<1>1. Len(list) \in Nat /\ DOMAIN list = 1 .. Len(list)
  BY ListTyped
<1>2. /\ front \in Seq(T) /\ Len(front) = n
      /\ \A k \in 1 .. n : front[k] = list[k]
  <2>1. CASE n = 0
    BY <1>1, <2>1, SubSeqProperties
  <2>2. CASE n > 0
    BY <1>1, <2>2, SubSeqProperties
  <2> QED BY <1>1, <2>1, <2>2
<1>3. /\ back \in Seq(T) /\ Len(back) = Len(list) - n
      /\ \A k \in 1 .. Len(list) - n : back[k] = list[k + n]
  <2> DEFINE m == n + 1
             b == SubSeq(list, m, Len(list))
  <2>1. m \in 1 .. Len(list) + 1 /\ Len(list) \in m - 1 .. Len(list)
    BY <1>1
  <2> HIDE DEF m
  <2>2. /\ b \in Seq(T)
        /\ Len(b) = IF m <= Len(list) THEN Len(list) - m + 1 ELSE 0
        /\ \A i \in 1 .. Len(list) - m + 1 : b[i] = list[m + i - 1]
    BY <2>1, SubSeqProperties
  <2> HIDE DEF b
  <2>3. Len(b) = Len(list) - n
    <3>1. Len(b) = IF m <= Len(list) THEN Len(list) - m + 1 ELSE 0
      BY <2>2
    <3>2. n \in Int /\ Len(list) \in Int /\ n <= Len(list)
      BY <1>1
    <3>3. CASE n < Len(list)
      <4>1. m <= Len(list) /\ Len(list) - m + 1 = Len(list) - n
        BY <3>2, <3>3 DEF m
      <4> QED BY <3>1, <4>1
    <3>4. CASE n = Len(list)
      <4>1. ~(m <= Len(list)) /\ Len(list) - n = 0
        BY <3>2, <3>4 DEF m
      <4> QED BY <3>1, <4>1
    <3> QED BY <3>2, <3>3, <3>4
  <2>4. ASSUME NEW k \in 1 .. Len(list) - n PROVE b[k] = list[k + n]
    <3>1. k \in 1 .. Len(list) - m + 1 /\ m + k - 1 = k + n
      BY <1>1 DEF m
    <3> QED BY <2>2, <3>1
  <2> QED BY <2>2, <2>3, <2>4 DEF b, m
<1>4. DOMAIN front = 1 .. n /\ DOMAIN back = 1 .. Len(list) - n
  BY <1>2, <1>3, LenProperties
<1> HIDE DEF front, back
<1>5. \A k \in DOMAIN front : k \in DOMAIN list /\ front[k] = list[k] /\ k <= n /\ k \in Int
  BY <1>1, <1>2, <1>4
<1>6. \A k \in DOMAIN back : k + n \in DOMAIN list /\ back[k] = list[k + n] /\ k > 0 /\ k \in Int
  BY <1>1, <1>3, <1>4
<1>7. \A k \in DOMAIN list : \/ k \in DOMAIN front /\ front[k] = list[k]
                             \/ k - n \in DOMAIN back /\ back[k - n] = list[k]
  BY <1>1, <1>2, <1>3, <1>4
<1>8. InList(front) \cup InList(back) = InList(list)
  <2>1. ASSUME NEW x, x \in InList(list) PROVE x \in InList(front) \cup InList(back)
    BY <1>7, <2>1 DEF InList
  <2>2. ASSUME NEW x, x \in InList(front) \cup InList(back) PROVE x \in InList(list)
    BY <1>5, <1>6, <2>2 DEF InList
  <2> QED BY <2>1, <2>2
<1>9. ASSUME Distinct(list)
      PROVE  Distinct(front) /\ Distinct(back) /\ InList(front) \cap InList(back) = {}
  <2>1. Distinct(front)
    BY <1>5, <1>9 DEF Distinct
  <2>2. ASSUME NEW j \in DOMAIN back, NEW k \in DOMAIN back, back[j] = back[k] PROVE j = k
    <3>1. j + n = k + n
      BY <1>6, <1>9, <2>2 DEF Distinct
    <3> QED BY <1>6, <3>1
  <2>3. ASSUME NEW j \in DOMAIN front, NEW k \in DOMAIN back PROVE front[j] # back[k]
    <3>1. j # k + n /\ j \in DOMAIN list /\ k + n \in DOMAIN list
      BY <1>5, <1>6
    <3> QED BY <1>5, <1>6, <1>9, <3>1 DEF Distinct
  <2> QED BY <2>1, <2>2, <2>3 DEF Distinct, InList
<1>10. ASSUME Rising(list)
       PROVE  /\ Rising(front) /\ Rising(back)
              /\ \A x \in InList(front), y \in InList(back) : x < y
  <2>1. Rising(front)
    BY <1>5, <1>10 DEF Rising
  <2>2. ASSUME NEW j \in DOMAIN back, NEW k \in DOMAIN back, j < k PROVE back[j] < back[k]
    <3>1. j + n < k + n
      BY <1>6, <2>2
    <3> QED BY <1>6, <1>10, <3>1 DEF Rising
  <2>3. ASSUME NEW j \in DOMAIN front, NEW k \in DOMAIN back PROVE front[j] < back[k]
    <3>1. j < k + n /\ j \in DOMAIN list /\ k + n \in DOMAIN list
      BY <1>5, <1>6
    <3> QED BY <1>5, <1>6, <1>10, <3>1 DEF Rising
  <2> QED BY <2>1, <2>2, <2>3 DEF Rising, InList
<1> QED BY <1>2, <1>3, <1>8, <1>9, <1>10 DEF front, back

\* The head of a list, up to n members.
LEMMA FirstOfList ==
  ASSUME NEW T, NEW list \in Seq(T), NEW n \in Nat
  PROVE  /\ InList(FirstOf(list, n)) \subseteq InList(list)
         /\ \A k \in 1 .. n : k <= Len(list) => list[k] \in InList(FirstOf(list, n))
<1> DEFINE m == Lesser(n, Len(list))
<1>1. Len(list) \in Nat
  BY ListTyped
<1>2. m \in 0 .. Len(list) /\ \A k \in 1 .. n : k <= Len(list) => k \in 1 .. m
  BY <1>1 DEF Lesser
<1> DEFINE front == SubSeq(list, 1, m)
<1> HIDE DEF m
<1>3. /\ front \in Seq(T) /\ Len(front) = m /\ InList(front) \subseteq InList(list)
      /\ \A k \in 1 .. m : front[k] = list[k]
  BY <1>2, CutLists
<1>4. InList(front) = {front[k] : k \in 1 .. m}
  <2> HIDE DEF front
  <2> QED BY <1>3, ListTyped
<1>5. \A k \in 1 .. m : list[k] \in InList(front)
  BY <1>3, <1>4
<1> QED BY <1>2, <1>3, <1>5 DEF FirstOf, m

\* One member more at the end.
LEMMA AppendList ==
  ASSUME NEW T, NEW list \in Seq(T), NEW x \in T
  PROVE  /\ Append(list, x) \in Seq(T) /\ Len(Append(list, x)) = Len(list) + 1
         /\ \A k \in 1 .. Len(list) : Append(list, x)[k] = list[k]
         /\ Append(list, x)[Len(list) + 1] = x
         /\ InList(Append(list, x)) = InList(list) \cup {x}
         /\ Distinct(list) /\ x \notin InList(list) => Distinct(Append(list, x))
<1> DEFINE a == Append(list, x)
<1>1. Len(list) \in Nat /\ DOMAIN list = 1 .. Len(list)
  BY ListTyped
<1>2. /\ a \in Seq(T) /\ Len(a) = Len(list) + 1
      /\ \A k \in 1 .. Len(list) : a[k] = list[k]
      /\ a[Len(list) + 1] = x
  BY AppendProperties
<1>3. DOMAIN a = 1 .. Len(list) + 1
  BY <1>2, LenProperties
<1> HIDE DEF a
<1>4. \A k \in DOMAIN a : \/ k \in DOMAIN list /\ a[k] = list[k]
                          \/ k = Len(list) + 1 /\ a[k] = x
  BY <1>1, <1>2, <1>3
<1>5. (\A k \in DOMAIN list : k \in DOMAIN a /\ a[k] = list[k]) /\ Len(list) + 1 \in DOMAIN a
  BY <1>1, <1>2, <1>3
<1>6. InList(a) = InList(list) \cup {x}
  <2>1. ASSUME NEW y, y \in InList(a) PROVE y \in InList(list) \cup {x}
    BY <1>4, <2>1 DEF InList
  <2>2. ASSUME NEW y, y \in InList(list) \cup {x} PROVE y \in InList(a)
    BY <1>2, <1>5, <2>2 DEF InList
  <2> QED BY <2>1, <2>2
<1>7. ASSUME Distinct(list), x \notin InList(list) PROVE Distinct(a)
  BY <1>4, <1>7 DEF Distinct, InList
<1> QED BY <1>2, <1>6, <1>7 DEF a

\* In a list without repetitions a member is once.
LEMMA TimesOnce ==
  ASSUME NEW T, NEW list \in Seq(T), Distinct(list), NEW x
  PROVE  Times(x, list) = IF x \in InList(list) THEN 1 ELSE 0
<1> DEFINE places == {k \in DOMAIN list : list[k] = x}
<1>1. CASE x \in InList(list)
  <2>1. PICK k \in DOMAIN list : list[k] = x
    BY <1>1 DEF InList
  <2>2. places = {k}
    BY <2>1 DEF Distinct
  <2> QED BY <1>1, <2>2, FS_Singleton DEF Times
<1>2. CASE x \notin InList(list)
  <2>1. places = {}
    BY <1>2 DEF InList
  <2> QED BY <1>2, <2>1, FS_EmptySet DEF Times
<1> QED BY <1>1, <1>2

\* A rising list of integers has at place p at least p - 1 more than any lower bound.
LEMMA RisingPlaces ==
  ASSUME NEW list \in Seq(Int), Rising(list), NEW a \in Int,
         \A x \in InList(list) : x >= a
  PROVE  \A p \in 1 .. Len(list) : list[p] >= a + p - 1
<1>1. Len(list) \in Nat /\ DOMAIN list = 1 .. Len(list) /\ \A k \in 1 .. Len(list) : list[k] \in Int
  BY ListTyped
<1> DEFINE wrong == {p \in 1 .. Len(list) : ~(list[p] >= a + p - 1)}
<1> SUFFICES ASSUME wrong # {} PROVE FALSE
  OBVIOUS
<1>2. wrong \in SUBSET Nat
  BY <1>1
<1>3. PICK p \in wrong : \A q \in wrong : p <= q
  <2> HIDE DEF wrong
  <2> QED BY <1>2, LeastNumber
<1>4. p \in 1 .. Len(list) /\ list[p] < a + p - 1
  BY <1>1
<1>5. CASE p = 1
  <2>1. list[p] >= a
    BY <1>1, <1>4 DEF InList
  <2> QED BY <1>1, <1>4, <1>5, <2>1
<1>6. CASE p # 1
  <2>1. p - 1 \in 1 .. Len(list) /\ p - 1 < p
    BY <1>1, <1>4, <1>6
  <2>2. p - 1 \notin wrong
    BY <1>1, <1>3, <1>4, <2>1
  <2>3. list[p - 1] >= a + (p - 1) - 1
    BY <2>1, <2>2
  <2>4. list[p - 1] < list[p]
    BY <1>1, <1>4, <2>1 DEF Rising
  <2> QED BY <1>1, <1>4, <2>1, <2>3, <2>4
<1> QED BY <1>5, <1>6
=============================================================================

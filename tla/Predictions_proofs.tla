-------------------------- MODULE Predictions_proofs --------------------------
(***************************************************************************)
(* What holds of the figures the dashboards show and the predictions are   *)
(* made from, for any calendar, projects and rows (DashboardFigures); and  *)
(* of the models that predict, for any number of trainings and requests    *)
(* (MLModels).                                                             *)
(***************************************************************************)
EXTENDS DashboardFigures, MLModels, FiniteSetTheorems, FunctionTheorems, WellFoundedInduction,
        TLAPS

-----------------------------------------------------------------------------
(* Sums over finite sets.                                                  *)

\* Every set of numbers has a least one, by which what follows is proved by induction.
LEMMA Least ==
  ASSUME NEW T, T \subseteq Nat, T # {}
  PROVE  \E n \in T : \A m \in T : n <= m
<1>1. IsWellFoundedOn(OpToRel(<, Nat), Nat)
  BY NatLessThanWellFounded
<1>2. PICK n \in T : \A m \in T : ~(<<m, n>> \in OpToRel(<, Nat))
  BY <1>1, WFMin
<1>3. \A m \in T : ~(m < n)
  BY <1>2 DEF OpToRel
<1> QED
  BY <1>3

\* What holds at 0, and at n if it holds at n - 1, holds up to b.
LEMMA UpTo ==
  ASSUME NEW b \in Nat, NEW H, 0 \in H,
         \A n \in 1 .. b : n - 1 \in H => n \in H
  PROVE  \A n \in 0 .. b : n \in H
<1> DEFINE T == {n \in 0 .. b : n \notin H}
<1>1. CASE T = {}
  BY <1>1
<1>2. CASE T # {}
  <2>1. T \subseteq Nat
    OBVIOUS
  <2>2. PICK n \in T : \A m \in T : n <= m
    BY <1>2, <2>1, Least
  <2>3. n \in 1 .. b /\ n - 1 \notin T
    BY <2>2
  <2> QED
    BY <2>2, <2>3
<1> QED
  BY <1>1, <1>2

\* What holds of a set if it holds of all smaller ones holds of every subset of S.
LEMMA BySize ==
  ASSUME NEW S, IsFiniteSet(S), NEW H,
         \A T \in SUBSET S :
           (\A U \in SUBSET S : Cardinality(U) < Cardinality(T) => U \in H) => T \in H
  PROVE  \A T \in SUBSET S : T \in H
<1> DEFINE Sizes == {Cardinality(T) : T \in {U \in SUBSET S : U \notin H}}
<1>1. \A T \in SUBSET S : Cardinality(T) \in Nat
  BY FS_Subset, FS_CardinalityType
<1>2. CASE Sizes = {}
  BY <1>2
<1>3. CASE Sizes # {}
  <2>1. Sizes \subseteq Nat
    BY <1>1
  <2>2. PICK n \in Sizes : \A m \in Sizes : n <= m
    BY <1>3, <2>1, Least
  <2>3. PICK T \in SUBSET S : T \notin H /\ n = Cardinality(T)
    OBVIOUS
  <2>4. ASSUME NEW U \in SUBSET S, Cardinality(U) < Cardinality(T) PROVE U \in H
    <3>1. Cardinality(U) \in Nat /\ n \in Nat /\ ~(n <= Cardinality(U))
      BY <1>1, <2>3, <2>4
    <3>2. Cardinality(U) \notin Sizes
      BY <2>2, <3>1
    <3> QED
      BY <3>2
  <2> QED
    BY <2>3, <2>4
<1> QED
  BY <1>2, <1>3

\* Element of choice of a set, and the sums over the subsets of S, by that choice.
Chosen(T) == CHOOSE x \in T : TRUE
AreSums(I, f, S) == I = [T \in SUBSET S |-> IF T = {} THEN 0 ELSE f[Chosen(T)] + I[T \ {Chosen(T)}]]

\* A set is larger than what is left of it without one element.
LEMMA Smaller ==
  ASSUME NEW S, IsFiniteSet(S), NEW T \in SUBSET S, NEW x \in T
  PROVE  /\ T \ {x} \in SUBSET S /\ Cardinality(T \ {x}) = Cardinality(T) - 1
         /\ Cardinality(T) \in Nat \ {0} /\ Cardinality(T \ {x}) \in Nat
<1>1. IsFiniteSet(T)
  BY FS_Subset
<1>2. Cardinality(T) \in Nat /\ Cardinality(T \ {x}) = Cardinality(T) - 1 /\ Cardinality(T) # 0
  BY <1>1, FS_CardinalityType, FS_RemoveElement, FS_EmptySet
<1> QED
  BY <1>2

\* There are such sums, of any values.
LEMMA SumsExist ==
  ASSUME NEW f, NEW S, IsFiniteSet(S)
  PROVE  \E I : AreSums(I, f, S)
<1> DEFINE b == Cardinality(S)
           Upto(n) == {T \in SUBSET S : Cardinality(T) <= n}
           Is(u, n) ==
             u = [T \in Upto(n) |-> IF T = {} THEN 0 ELSE f[Chosen(T)] + u[T \ {Chosen(T)}]]
           H == {n \in 0 .. b : \E u : Is(u, n)}
<1>0. b \in Nat /\ \A T \in SUBSET S : Cardinality(T) \in 0 .. b
  BY FS_CardinalityType, FS_Subset
<1>f. \A T \in SUBSET S : T # {} => Chosen(T) \in T
  BY DEF Chosen
<1>1. 0 \in H
  <2> DEFINE v == [T \in Upto(0) |-> 0]
  <2>1. \A T \in Upto(0) : T = {}
    BY <1>0, FS_Subset, FS_EmptySet
  <2>2. Is(v, 0)
    BY <2>1
  <2> HIDE DEF Is, v
  <2> QED
    BY <1>0, <2>2
<1>2. ASSUME NEW n \in 1 .. b, n - 1 \in H PROVE n \in H
  <2>1. PICK u : Is(u, n - 1)
    BY <1>2
  <2> DEFINE v == [T \in Upto(n) |-> IF T = {} THEN 0 ELSE f[Chosen(T)] + u[T \ {Chosen(T)}]]
  <2>2. \A T \in Upto(n) : T # {} => T \ {Chosen(T)} \in Upto(n - 1) /\ T \ {Chosen(T)} \in Upto(n)
    BY <1>f, Smaller
  <2>3. \A T \in Upto(n - 1) : v[T] = u[T]
    <3> SUFFICES ASSUME NEW T \in Upto(n - 1) PROVE v[T] = u[T]
      OBVIOUS
    <3>1. T \in Upto(n)
      BY <1>0
    <3>2. u[T] = IF T = {} THEN 0 ELSE f[Chosen(T)] + u[T \ {Chosen(T)}]
      BY <2>1
    <3> QED
      BY <3>1, <3>2
  <2>4. \A T \in Upto(n) : v[T] = IF T = {} THEN 0 ELSE f[Chosen(T)] + v[T \ {Chosen(T)}]
    BY <2>2, <2>3
  <2>5. v = [T \in Upto(n) |-> v[T]]
    OBVIOUS
  <2>6. Is(v, n)
    <3> HIDE DEF v, Upto
    <3> QED
      BY <2>4, <2>5
  <2> HIDE DEF Is, v
  <2> QED
    BY <1>0, <2>6
<1>3. b \in H
  <2> HIDE DEF H, b
  <2>1. \A n \in 0 .. b : n \in H
    BY <1>0, <1>1, <1>2, UpTo
  <2> QED
    BY <1>0, <2>1
<1>4. PICK u : Is(u, b)
  BY <1>3
<1>5. Upto(b) = SUBSET S
  BY <1>0
<1> QED
  BY <1>4, <1>5 DEF AreSums

\* Any element of a set can be the one taken out of its sum.
TakeAny(I, f, S) == \A T \in SUBSET S : \A x \in T : I[T] = f[x] + I[T \ {x}]

\* A sum of numbers does not depend on the order it is taken in.
LEMMA SumsAny ==
  ASSUME NEW S, IsFiniteSet(S), NEW f, \A x \in S : f[x] \in Int, NEW I, AreSums(I, f, S)
  PROVE  (\A T \in SUBSET S : I[T] \in Int) /\ TakeAny(I, f, S)
<1> DEFINE H == {T \in SUBSET S : I[T] \in Int /\ \A x \in T : I[T] = f[x] + I[T \ {x}]}
<1>0. \A T \in SUBSET S : T # {} => Chosen(T) \in T
  BY DEF Chosen
<1>1. I[{}] = 0 /\ \A T \in SUBSET S : T # {} => I[T] = f[Chosen(T)] + I[T \ {Chosen(T)}]
  BY DEF AreSums
<1>2. ASSUME NEW T \in SUBSET S, \A U \in SUBSET S : Cardinality(U) < Cardinality(T) => U \in H
      PROVE  T \in H
  <2>1. CASE T = {}
    <3>1. I[T] = 0 /\ \A x \in T : FALSE
      BY <1>1, <2>1
    <3> QED
      BY <3>1
  <2>2. CASE T # {}
    <3>1. PICK y \in T : y = Chosen(T) /\ I[T] = f[y] + I[T \ {y}]
      BY <1>0, <1>1, <2>2
    <3>2. ASSUME NEW x \in T PROVE T \ {x} \in H
      <4>1. Cardinality(T \ {x}) < Cardinality(T) /\ T \ {x} \in SUBSET S
        BY Smaller
      <4> QED
        BY <1>2, <4>1
    <3>3. I[T] \in Int
      <4>1. I[T \ {y}] \in Int
        BY <3>2
      <4>2. f[y] \in Int
        OBVIOUS
      <4> QED
        BY <3>1, <4>1, <4>2
    <3>4. ASSUME NEW x \in T PROVE I[T] = f[x] + I[T \ {x}]
      <4>1. CASE x = y
        BY <3>1, <4>1
      <4>2. CASE x # y
        <5>1. I[T \ {y}] = f[x] + I[(T \ {y}) \ {x}]
          BY <3>2, <4>2
        <5>2. I[T \ {x}] = f[y] + I[(T \ {x}) \ {y}]
          BY <3>2, <4>2
        <5>3. (T \ {y}) \ {x} = (T \ {x}) \ {y}
          OBVIOUS
        <5>4. I[(T \ {x}) \ {y}] \in Int
          <6>1. PICK U \in SUBSET S : U = T \ {x} /\ y \in U
            BY <4>2
          <6>2. Cardinality(U) < Cardinality(T)
            BY <6>1, Smaller
          <6>3. Cardinality(U \ {y}) < Cardinality(U) /\ U \ {y} \in SUBSET S
            BY <6>1, Smaller
          <6>4. Cardinality(U \ {y}) \in Nat /\ Cardinality(U) \in Nat /\ Cardinality(T) \in Nat
            <7>1. Cardinality(U \ {y}) \in Nat /\ Cardinality(U) \in Nat \ {0}
              BY <6>1, Smaller
            <7>2. Cardinality(T) \in Nat \ {0}
              BY Smaller
            <7> QED
              BY <7>1, <7>2
          <6>5. U \ {y} \in H
            <7>1. Cardinality(U \ {y}) < Cardinality(T)
              BY <6>2, <6>3, <6>4
            <7> HIDE DEF H
            <7> QED
              BY <1>2, <6>3, <7>1
          <6> QED
            BY <6>1, <6>5
        <5>5. PICK k \in Int, p \in Int, q \in Int : k = I[(T \ {x}) \ {y}] /\ p = f[x] /\ q = f[y]
          BY <5>4
        <5>6. I[T \ {y}] = p + k /\ I[T \ {x}] = q + k
          BY <5>1, <5>2, <5>3, <5>5
        <5>7. I[T] = q + (p + k)
          BY <3>1, <5>5, <5>6
        <5> QED
          BY <5>5, <5>6, <5>7
      <4> QED
        BY <4>1, <4>2
    <3> QED
      BY <3>3, <3>4
  <2> QED
    BY <2>1, <2>2
<1>3. \A T \in SUBSET S : T \in H
  <2> HIDE DEF H
  <2> QED
    BY <1>2, BySize
<1> QED
  BY <1>3 DEF TakeAny

\* Sums of values that agree on S agree on its subsets.
LEMMA SumsAgree ==
  ASSUME NEW R, NEW S, NEW f, NEW g, NEW I, NEW J, AreSums(I, f, S), AreSums(J, g, R),
         IsFiniteSet(R), S \subseteq R, \A x \in S : f[x] = g[x]
  PROVE  I[S] = J[S]
<1> DEFINE H == {T \in SUBSET S : I[T] = J[T]}
<1>0. \A T \in SUBSET S : T # {} => Chosen(T) \in T
  BY DEF Chosen
<1>f. IsFiniteSet(S)
  BY FS_Subset
<1>1. /\ I[{}] = 0 /\ \A T \in SUBSET S : T # {} => I[T] = f[Chosen(T)] + I[T \ {Chosen(T)}]
      /\ J[{}] = 0 /\ \A T \in SUBSET S : T # {} => J[T] = g[Chosen(T)] + J[T \ {Chosen(T)}]
  BY DEF AreSums
<1>2. ASSUME NEW T \in SUBSET S, \A U \in SUBSET S : Cardinality(U) < Cardinality(T) => U \in H
      PROVE  T \in H
  <2>1. CASE T = {}
    BY <1>1, <2>1
  <2>2. CASE T # {}
    <3>1. PICK y \in T : y = Chosen(T)
      BY <1>0, <2>2
    <3>2. Cardinality(T \ {y}) < Cardinality(T) /\ T \ {y} \in SUBSET S
      BY <1>f, Smaller
    <3>3. I[T \ {y}] = J[T \ {y}] /\ f[y] = g[y]
      BY <1>2, <3>2
    <3> QED
      BY <1>1, <2>2, <3>1, <3>3
  <2> QED
    BY <2>1, <2>2
<1>3. \A T \in SUBSET S : T \in H
  <2> HIDE DEF H
  <2> QED
    BY <1>f, <1>2, BySize
<1> QED
  BY <1>3

\* The sum of a function over a finite set is such a sum.
LEMMA IsSum ==
  ASSUME NEW f, NEW S, IsFiniteSet(S)
  PROVE  \E I : AreSums(I, f, S) /\ SumFunctionOnSet(f, S) = I[S]
<1> DEFINE J == CHOOSE I : AreSums(I, f, S)
<1>1. AreSums(J, f, S)
  BY SumsExist
<1>2. SumFunctionOnSet(f, S) = J[S]
  BY DEF SumFunctionOnSet, FoldFunctionOnSet, MapThenFoldSet, AreSums, Chosen
<1> QED
  BY <1>1, <1>2

\* Numbers, of either sign, sum up to a number.
LEMMA SumInt ==
  ASSUME NEW f, NEW S, IsFiniteSet(S), \A x \in S : f[x] \in Int
  PROVE  SumFunctionOnSet(f, S) \in Int
<1>1. PICK I : AreSums(I, f, S) /\ SumFunctionOnSet(f, S) = I[S]
  BY IsSum
<1> QED
  BY <1>1, SumsAny

\* Nothing sums up to 0.
LEMMA SumEmpty == \A f : SumFunctionOnSet(f, {}) = 0
<1> SUFFICES ASSUME NEW f PROVE SumFunctionOnSet(f, {}) = 0
  OBVIOUS
<1>1. PICK I : AreSums(I, f, {}) /\ SumFunctionOnSet(f, {}) = I[{}]
  BY IsSum, FS_EmptySet
<1> QED
  BY <1>1 DEF AreSums

\* A sum depends on the values summed only.
LEMMA SumSame ==
  ASSUME NEW f, NEW g, NEW S, IsFiniteSet(S), \A x \in S : f[x] = g[x]
  PROVE  SumFunctionOnSet(f, S) = SumFunctionOnSet(g, S)
<1>1. PICK I : AreSums(I, f, S) /\ SumFunctionOnSet(f, S) = I[S]
  BY IsSum
<1>2. PICK J : AreSums(J, g, S) /\ SumFunctionOnSet(g, S) = J[S]
  BY IsSum
<1> QED
  BY <1>1, <1>2, SumsAgree

\* One value can be taken out of a sum.
LEMMA SumTake ==
  ASSUME NEW f, NEW S, IsFiniteSet(S), \A x \in S : f[x] \in Int, NEW x \in S
  PROVE  SumFunctionOnSet(f, S) = f[x] + SumFunctionOnSet(f, S \ {x})
<1> DEFINE R == S \ {x}
<1>1. PICK I : AreSums(I, f, R) /\ SumFunctionOnSet(f, R) = I[R]
  BY IsSum, FS_Subset
<1>2. PICK J : AreSums(J, f, S) /\ SumFunctionOnSet(f, S) = J[S]
  BY IsSum
<1>3. R \subseteq S /\ \A y \in R : f[y] = f[y]
  OBVIOUS
<1>a. AreSums(J, f, S)
  BY <1>2
<1>4. J[S] = f[x] + J[R]
  <2>1. TakeAny(J, f, S)
    BY <1>a, SumsAny
  <2> QED
    BY <2>1 DEF TakeAny
<1> HIDE DEF R
<1>5. I[R] = J[R]
  BY <1>1, <1>2, <1>3, SumsAgree
<1> QED
  BY <1>1, <1>2, <1>4, <1>5 DEF R

\* Sums over sets that do not meet add up.
LEMMA SumUnion ==
  ASSUME NEW f, NEW S, IsFiniteSet(S), NEW T, IsFiniteSet(T), S \cap T = {},
         \A x \in S \cup T : f[x] \in Int
  PROVE  SumFunctionOnSet(f, S \cup T) = SumFunctionOnSet(f, S) + SumFunctionOnSet(f, T)
<1> DEFINE H == {U \in SUBSET T : SumFunctionOnSet(f, S \cup U)
                                   = SumFunctionOnSet(f, S) + SumFunctionOnSet(f, U)}
<1>1. ASSUME NEW U \in SUBSET T, \A V \in SUBSET T : Cardinality(V) < Cardinality(U) => V \in H
      PROVE  U \in H
  <2>1. SumFunctionOnSet(f, S) \in Int
    BY SumInt
  <2>2. CASE U = {}
    <3>1. S \cup {} = S
      OBVIOUS
    <3> QED
      BY <2>1, <2>2, <3>1, SumEmpty
  <2>3. CASE U # {}
    <3>1. PICK x : x \in U
      BY <2>3
    <3> DEFINE V == U \ {x}
    <3>2. V \in H
      <4>1. V \in SUBSET T /\ Cardinality(V) < Cardinality(U)
        BY <3>1, Smaller
      <4> HIDE DEF H, V
      <4> QED
        BY <1>1, <4>1
    <3>3. IsFiniteSet(U) /\ IsFiniteSet(V) /\ IsFiniteSet(S \cup U)
      BY <3>1, FS_Subset, FS_Union
    <3>4. SumFunctionOnSet(f, U) = f[x] + SumFunctionOnSet(f, V)
      BY <3>1, <3>3, SumTake
    <3>5. (S \cup U) \ {x} = S \cup V
      BY <3>1
    <3>6. SumFunctionOnSet(f, S \cup U) = f[x] + SumFunctionOnSet(f, S \cup V)
      <4>1. \A y \in S \cup U : f[y] \in Int
        OBVIOUS
      <4>2. x \in S \cup U
        BY <3>1
      <4>3. SumFunctionOnSet(f, S \cup U) = f[x] + SumFunctionOnSet(f, (S \cup U) \ {x})
        BY <3>3, <4>1, <4>2, SumTake
      <4> QED
        BY <3>5, <4>3
    <3>7. SumFunctionOnSet(f, V) \in Int /\ f[x] \in Int
      BY <3>1, <3>3, SumInt
    <3>8. SumFunctionOnSet(f, S \cup V) = SumFunctionOnSet(f, S) + SumFunctionOnSet(f, V)
      BY <3>2
    <3> QED
      BY <2>1, <3>4, <3>6, <3>7, <3>8
  <2> QED
    BY <2>2, <2>3
<1>2. T \in H
  <2> HIDE DEF H
  <2> QED
    BY <1>1, BySize
<1> QED
  BY <1>2

\* A larger part leaves a smaller rest.
LEMMA SumPart ==
  ASSUME NEW f, NEW S, IsFiniteSet(S), NEW T \in SUBSET S, \A x \in S : f[x] \in Int
  PROVE  SumFunctionOnSet(f, S) = SumFunctionOnSet(f, T) + SumFunctionOnSet(f, S \ T)
<1>1. IsFiniteSet(T) /\ IsFiniteSet(S \ T) /\ T \cap (S \ T) = {} /\ T \cup (S \ T) = S
  BY FS_Subset
<1>2. \A x \in T \cup (S \ T) : f[x] \in Int
  OBVIOUS
<1>3. SumFunctionOnSet(f, T \cup (S \ T)) = SumFunctionOnSet(f, T) + SumFunctionOnSet(f, S \ T)
  BY <1>1, <1>2, SumUnion
<1> QED
  BY <1>1, <1>3

\* Larger values have a larger sum.
LEMMA SumMore ==
  ASSUME NEW f, NEW g, NEW S, IsFiniteSet(S),
         \A x \in S : f[x] \in Int /\ g[x] \in Int /\ f[x] <= g[x]
  PROVE  SumFunctionOnSet(f, S) <= SumFunctionOnSet(g, S)
<1> DEFINE H == {U \in SUBSET S : SumFunctionOnSet(f, U) <= SumFunctionOnSet(g, U)}
<1>1. ASSUME NEW U \in SUBSET S, \A V \in SUBSET S : Cardinality(V) < Cardinality(U) => V \in H
      PROVE  U \in H
  <2>1. CASE U = {}
    BY <2>1, SumEmpty
  <2>2. CASE U # {}
    <3>1. PICK x : x \in U
      BY <2>2
    <3>2. U \ {x} \in H
      BY <1>1, <3>1, Smaller
    <3>3. IsFiniteSet(U) /\ IsFiniteSet(U \ {x})
      BY <3>1, FS_Subset
    <3>4. /\ SumFunctionOnSet(f, U) = f[x] + SumFunctionOnSet(f, U \ {x})
          /\ SumFunctionOnSet(g, U) = g[x] + SumFunctionOnSet(g, U \ {x})
      BY <3>1, <3>3, SumTake
    <3>5. SumFunctionOnSet(f, U \ {x}) \in Int /\ SumFunctionOnSet(g, U \ {x}) \in Int
      BY <3>3, SumInt
    <3>6. f[x] \in Int /\ g[x] \in Int /\ f[x] <= g[x]
      BY <3>1
    <3>7. SumFunctionOnSet(f, U \ {x}) <= SumFunctionOnSet(g, U \ {x})
      BY <3>2
    <3> QED
      BY <3>4, <3>5, <3>6, <3>7
  <2> QED
    BY <2>1, <2>2
<1>2. S \in H
  <2> HIDE DEF H
  <2> QED
    BY <1>1, BySize
<1> QED
  BY <1>2

\* The sum of ones is the size of the set.
LEMMA SumOnes ==
  ASSUME NEW f, NEW S, IsFiniteSet(S), \A x \in S : f[x] = 1
  PROVE  SumFunctionOnSet(f, S) = Cardinality(S)
<1> DEFINE H == {U \in SUBSET S : SumFunctionOnSet(f, U) = Cardinality(U)}
<1>1. ASSUME NEW U \in SUBSET S, \A V \in SUBSET S : Cardinality(V) < Cardinality(U) => V \in H
      PROVE  U \in H
  <2>1. CASE U = {}
    BY <2>1, SumEmpty, FS_EmptySet
  <2>2. CASE U # {}
    <3>1. PICK x : x \in U
      BY <2>2
    <3>2. U \ {x} \in H /\ Cardinality(U \ {x}) = Cardinality(U) - 1 /\ Cardinality(U) \in Nat \ {0}
      BY <1>1, <3>1, Smaller
    <3>3. IsFiniteSet(U) /\ \A y \in U : f[y] \in Int
      BY FS_Subset
    <3>4. SumFunctionOnSet(f, U) = f[x] + SumFunctionOnSet(f, U \ {x}) /\ f[x] = 1
      BY <3>1, <3>3, SumTake
    <3> QED
      BY <3>2, <3>4
  <2> QED
    BY <2>1, <2>2
<1>2. S \in H
  <2> HIDE DEF H
  <2> QED
    BY <1>1, BySize
<1> QED
  BY <1>2

\* The sum of nothing but 0 is 0.
LEMMA SumZeros ==
  ASSUME NEW f, NEW S, IsFiniteSet(S), \A x \in S : f[x] = 0
  PROVE  SumFunctionOnSet(f, S) = 0
<1> DEFINE H == {U \in SUBSET S : SumFunctionOnSet(f, U) = 0}
<1>1. ASSUME NEW U \in SUBSET S, \A V \in SUBSET S : Cardinality(V) < Cardinality(U) => V \in H
      PROVE  U \in H
  <2>1. CASE U = {}
    BY <2>1, SumEmpty
  <2>2. CASE U # {}
    <3>1. PICK x : x \in U
      BY <2>2
    <3>2. U \ {x} \in H
      BY <1>1, <3>1, Smaller
    <3>3. IsFiniteSet(U) /\ \A y \in U : f[y] \in Int
      BY FS_Subset
    <3>4. SumFunctionOnSet(f, U) = f[x] + SumFunctionOnSet(f, U \ {x}) /\ f[x] = 0
      BY <3>1, <3>3, SumTake
    <3> QED
      BY <3>2, <3>4
  <2> QED
    BY <2>1, <2>2
<1>2. S \in H
  <2> HIDE DEF H
  <2> QED
    BY <1>1, BySize
<1> QED
  BY <1>2

\* Numbers that are not negative have a sum that is not.
LEMMA SumNat ==
  ASSUME NEW f, NEW S, IsFiniteSet(S), \A x \in S : f[x] \in Nat
  PROVE  SumFunctionOnSet(f, S) \in Nat
<1> DEFINE zero == [x \in S |-> 0]
<1>1. SumFunctionOnSet(zero, S) = 0
  BY SumZeros
<1>2. SumFunctionOnSet(zero, S) <= SumFunctionOnSet(f, S)
  <2>1. \A x \in S : zero[x] \in Int /\ f[x] \in Int /\ zero[x] <= f[x]
    OBVIOUS
  <2> HIDE DEF zero
  <2> QED
    BY <2>1, SumMore
<1>3. SumFunctionOnSet(f, S) \in Int
  BY SumInt
<1> QED
  BY <1>1, <1>2, <1>3

\* What is 0 may be left out of a sum.
LEMMA SumLess ==
  ASSUME NEW f, NEW S, IsFiniteSet(S), NEW T \in SUBSET S, \A x \in S : f[x] \in Int,
         \A x \in S \ T : f[x] = 0
  PROVE  SumFunctionOnSet(f, S) = SumFunctionOnSet(f, T)
<1>1. SumFunctionOnSet(f, S) = SumFunctionOnSet(f, T) + SumFunctionOnSet(f, S \ T)
  BY SumPart
<1>2. IsFiniteSet(S \ T) /\ IsFiniteSet(T)
  BY FS_Subset
<1>3. SumFunctionOnSet(f, S \ T) = 0
  BY <1>2, SumZeros
<1>4. SumFunctionOnSet(f, T) \in Int
  BY <1>2, SumInt
<1> QED
  BY <1>1, <1>3, <1>4

\* Summed group by group, groups that sum up to 0 left out, it is the same sum.
LEMMA SumGroups ==
  ASSUME NEW f, NEW S, IsFiniteSet(S), \A x \in S : f[x] \in Int,
         NEW K, IsFiniteSet(K), NEW G, \A k \in K : G[k] \in SUBSET S,
         \A x \in S : \E k \in K : x \in G[k],
         \A j, k \in K : j # k => G[j] \cap G[k] = {},
         NEW t, NEW T \in SUBSET K,
         \A k \in T : t[k] = SumFunctionOnSet(f, G[k]),
         \A k \in K : k \notin T => SumFunctionOnSet(f, G[k]) = 0
  PROVE  SumFunctionOnSet(t, T) = SumFunctionOnSet(f, S)
<1> DEFINE In(U) == {x \in S : \E k \in U : x \in G[k]}
           u == [k \in K |-> SumFunctionOnSet(f, G[k])]
           H == {U \in SUBSET K : SumFunctionOnSet(u, U) = SumFunctionOnSet(f, In(U))}
<1>0. \A k \in K : u[k] \in Int
  <2> SUFFICES ASSUME NEW k \in K PROVE SumFunctionOnSet(f, G[k]) \in Int
    OBVIOUS
  <2>1. IsFiniteSet(G[k]) /\ \A x \in G[k] : f[x] \in Int
    BY FS_Subset
  <2> QED
    BY <2>1, SumInt
<1>1. ASSUME NEW U \in SUBSET K, \A V \in SUBSET K : Cardinality(V) < Cardinality(U) => V \in H
      PROVE  U \in H
  <2>1. CASE U = {}
    <3>1. In(U) = {}
      BY <2>1
    <3> QED
      BY <2>1, <3>1, SumEmpty
  <2>2. CASE U # {}
    <3>1. PICK k : k \in U
      BY <2>2
    <3> DEFINE V == U \ {k}
    <3>2. V \in H
      <4>1. V \in SUBSET K /\ Cardinality(V) < Cardinality(U)
        BY <3>1, Smaller
      <4> HIDE DEF H, V
      <4> QED
        BY <1>1, <4>1
    <3>3. IsFiniteSet(U) /\ \A j \in U : u[j] \in Int
      BY <1>0, FS_Subset
    <3>4. SumFunctionOnSet(u, U) = u[k] + SumFunctionOnSet(u, V)
      <4> HIDE DEF u
      <4> QED
        BY <3>1, <3>3, SumTake
    <3>5. In(U) = G[k] \cup In(V) /\ G[k] \cap In(V) = {}
      BY <3>1
    <3>f. IsFiniteSet(G[k]) /\ IsFiniteSet(In(V))
      <4>1. G[k] \in SUBSET S /\ In(V) \in SUBSET S
        BY <3>1
      <4> HIDE DEF In, V
      <4> QED
        BY <4>1, FS_Subset
    <3>6. SumFunctionOnSet(f, In(U)) = SumFunctionOnSet(f, G[k]) + SumFunctionOnSet(f, In(V))
      <4>1. \A x \in G[k] \cup In(V) : f[x] \in Int
        BY <3>1
      <4> HIDE DEF In, V, H
      <4>2. SumFunctionOnSet(f, G[k] \cup In(V))
              = SumFunctionOnSet(f, G[k]) + SumFunctionOnSet(f, In(V))
        BY <3>5, <3>f, <4>1, SumUnion
      <4> QED
        BY <3>5, <4>2
    <3>7. u[k] = SumFunctionOnSet(f, G[k])
      BY <3>1
    <3>8. SumFunctionOnSet(u, V) = SumFunctionOnSet(f, In(V))
      BY <3>2
    <3>9. SumFunctionOnSet(u, U) = SumFunctionOnSet(f, In(U))
      <4> HIDE DEF u, In, V, H
      <4> QED
        BY <3>4, <3>6, <3>7, <3>8
    <3> HIDE DEF u, In
    <3> QED
      BY <3>9
  <2> QED
    BY <2>1, <2>2
<1>2. K \in H
  <2> HIDE DEF H
  <2>1. \A U \in SUBSET K : U \in H
    BY <1>1, BySize
  <2> QED
    BY <2>1
<1>3. In(K) = S
  OBVIOUS
<1>4. SumFunctionOnSet(u, K) = SumFunctionOnSet(f, S)
  BY <1>2, <1>3
<1>5. \A k \in K \ T : u[k] = 0
  OBVIOUS
<1>6. \A k \in T : u[k] = t[k]
  OBVIOUS
<1>7. IsFiniteSet(T)
  BY FS_Subset
<1> HIDE DEF u
<1>8. SumFunctionOnSet(u, K) = SumFunctionOnSet(u, T)
  BY <1>0, <1>5, SumLess
<1>9. SumFunctionOnSet(u, T) = SumFunctionOnSet(t, T)
  BY <1>6, <1>7, SumSame
<1> QED
  BY <1>4, <1>8, <1>9

-----------------------------------------------------------------------------
(* The sets that are summed over.                                          *)

\* The values of a function on a finite set are finitely many.
LEMMA FiniteRange ==
  ASSUME NEW f, NEW S, IsFiniteSet(S)
  PROVE  IsFiniteSet({f[x] : x \in S})
<1> DEFINE T == {f[x] : x \in S}
           h == [x \in S |-> f[x]]
<1>1. h \in Surjection(S, T)
  BY DEF Surjection
<1> QED
  BY <1>1, FS_Surjection

\* A log is of a project and a date; years are not 0, weeks are numbers.
LEMMA OfLogs ==
  ASSUME FiguresTypeOK, NEW l \in Slots
  PROVE  /\ l[1] \in Projects /\ l[2] \in Dates /\ l[2] \in Int
         /\ WeekOf[l[2]] \in Int /\ YearOf[l[2]] \in Years /\ today \in Int
         /\ WeekOf[today] \in Int
  BY CalendarAssumption, FiguresAssumption DEF FiguresTypeOK, Years

\* The years of the calendar are finitely many, and none is the mark of all years.
LEMMA YearsOrAll == IsFiniteSet(Years) /\ AllYears \notin Years
<1>1. IsFiniteSet(Years)
  BY FiniteAssumption, FiniteRange DEF Years
<1>2. AllYears \notin Years
  BY CalendarAssumption DEF Years, AllYears
<1> QED
  BY <1>1, <1>2

\* Logs, and what is entered of them, are finitely many.
LEMMA FiniteLogs ==
  ASSUME FiguresTypeOK, NEW ls \in SUBSET Slots
  PROVE  /\ IsFiniteSet(ls) /\ IsFiniteSet(Attended(ls))
         /\ \A ns \in SUBSET Names : IsFiniteSet(Bought(ls, ns))
<1>1. IsFiniteSet(Projects \X Dates)
  BY FiniteAssumption, FS_Product
<1>2. ls \in SUBSET (Projects \X Dates)
  BY FiguresAssumption
<1>3. IsFiniteSet(ls)
  BY <1>1, <1>2, FS_Subset
<1>4. IsFiniteSet(ls \X Names) /\ IsFiniteSet(ls \X Workers)
  BY <1>3, FiniteAssumption, FS_Product
<1>5. Attended(ls) \in SUBSET (ls \X Workers)
  BY DEF Attended
<1>6. \A ns \in SUBSET Names : Bought(ls, ns) \in SUBSET (ls \X Names)
  BY DEF Bought
<1> QED
  BY <1>3, <1>4, <1>5, <1>6, FS_Subset

\* The logs of some projects are logs.
LEMMA SomeLogs == ASSUME FiguresTypeOK, NEW ps PROVE LogsOf(ps) \in SUBSET Slots
  BY DEF FiguresTypeOK, LogsOf

\* The costs, incidents and hours of logs are numbers.
LEMMA NumbersOf ==
  ASSUME FiguresTypeOK, NEW ls \in SUBSET Slots
  PROVE  /\ \A ns : \A x \in Bought(ls, ns) : cost[x] \in Int
         /\ \A x \in Attended(ls) : hours[x] \in Int
         /\ \A l \in ls : incidents[l] \in Nat
  BY DEF FiguresTypeOK, Bought, Attended

\* What was spent on some items, on some logs, is a number.
LEMMA SpentOnInt ==
  ASSUME FiguresTypeOK, NEW ls \in SUBSET Slots, NEW ns \in SUBSET Names
  PROVE  SpentOn(ls, ns) \in Int
  BY FiniteLogs, NumbersOf, SumInt DEF SpentOn

\* Without a log nothing was spent.
LEMMA SpentOnNone == \A ns : SpentOn({}, ns) = 0
<1> SUFFICES ASSUME NEW ns PROVE SpentOn({}, ns) = 0
  OBVIOUS
<1>1. Bought({}, ns) = {}
  BY DEF Bought
<1> QED
  BY <1>1, SumEmpty DEF SpentOn

\* Spending is that of groups of logs, those that spent nothing left out.
LEMMA SpendingBy ==
  ASSUME FiguresTypeOK, NEW ls \in SUBSET Slots, NEW ns \in SUBSET Names,
         NEW K, IsFiniteSet(K), NEW G, \A k \in K : G[k] \in SUBSET ls,
         \A l \in ls : \E k \in K : l \in G[k],
         \A j, k \in K : j # k => G[j] \cap G[k] = {},
         NEW t, NEW T \in SUBSET K,
         \A k \in T : t[k] = SpentOn(G[k], ns),
         \A k \in K : k \notin T => SpentOn(G[k], ns) = 0
  PROVE  SumFunctionOnSet(t, T) = SpentOn(ls, ns)
<1> DEFINE S == Bought(ls, ns)
           J == [k \in K |-> Bought(G[k], ns)]
<1>1. IsFiniteSet(S) /\ \A x \in S : cost[x] \in Int
  BY FiniteLogs, NumbersOf
<1>2. /\ \A k \in K : J[k] \in SUBSET S
      /\ \A x \in S : \E k \in K : x \in J[k]
      /\ \A j, k \in K : j # k => J[j] \cap J[k] = {}
  BY DEF Bought
<1>3. /\ \A k \in T : t[k] = SumFunctionOnSet(cost, J[k])
      /\ \A k \in K : k \notin T => SumFunctionOnSet(cost, J[k]) = 0
  BY DEF SpentOn
<1>4. SumFunctionOnSet(t, T) = SumFunctionOnSet(cost, S)
  <2> HIDE DEF S, J
  <2> QED
    BY <1>1, <1>2, <1>3, SumGroups
<1> QED
  BY <1>4 DEF SpentOn

\* Spending by item.
LEMMA SpendingByItem ==
  ASSUME FiguresTypeOK, NEW ls \in SUBSET Slots
  PROVE  SumFunction(ItemTotals(ls)) = Spending(ls)
<1> DEFINE S == Bought(ls, Names)
           J == [n \in Names |-> Bought(ls, {n})]
           T == {s[2] : s \in S}
           t == ItemTotals(ls)
<1>1. IsFiniteSet(S) /\ IsFiniteSet(Names) /\ \A x \in S : cost[x] \in Int
  BY FiniteLogs, FiniteAssumption, NumbersOf
<1>2. /\ \A n \in Names : J[n] \in SUBSET S
      /\ \A x \in S : \E n \in Names : x \in J[n]
      /\ \A m, n \in Names : m # n => J[m] \cap J[n] = {}
  BY DEF Bought
<1>3. T \in SUBSET Names /\ DOMAIN t = T
  BY DEF ItemTotals, Bought
<1>4. \A n \in T : t[n] = SumFunctionOnSet(cost, J[n])
  BY <1>3 DEF ItemTotals, SpentOn
<1>5. \A n \in Names : n \notin T => SumFunctionOnSet(cost, J[n]) = 0
  <2> SUFFICES ASSUME NEW n \in Names, n \notin T PROVE SumFunctionOnSet(cost, J[n]) = 0
    OBVIOUS
  <2>1. J[n] = {}
    BY DEF Bought
  <2> QED
    BY <2>1, SumEmpty
<1>6. SumFunctionOnSet(t, T) = SumFunctionOnSet(cost, S)
  <2> HIDE DEF S, J, t, T
  <2> QED
    BY <1>1, <1>2, <1>3, <1>4, <1>5, SumGroups
<1> QED
  BY <1>3, <1>6 DEF SumFunction, Spending, SpentOn

\* Spending by project.
LEMMA SpendingByProject ==
  ASSUME FiguresTypeOK, NEW ps \in SUBSET Projects
  PROVE  SumFunction([p \in ps |-> Spending(LogsOf({p}))]) = Spending(LogsOf(ps))
<1> DEFINE ls == LogsOf(ps)
           G == [p \in ps |-> LogsOf({p})]
           t == [p \in ps |-> Spending(LogsOf({p}))]
<1>1. /\ \A p \in ps : G[p] \in SUBSET ls
      /\ \A l \in ls : \E p \in ps : l \in G[p]
      /\ \A p, q \in ps : p # q => G[p] \cap G[q] = {}
  BY DEF LogsOf
<1>2. \A p \in ps : t[p] = SpentOn(G[p], Names)
  BY DEF Spending
<1>3. IsFiniteSet(ps) /\ ls \in SUBSET Slots
  BY FiniteAssumption, FS_Subset, SomeLogs
<1>4. SumFunctionOnSet(t, ps) = SpentOn(ls, Names)
  <2> HIDE DEF ls, G, t
  <2> QED
    BY <1>1, <1>2, <1>3, SpendingBy
<1> QED
  BY <1>4 DEF SumFunction, Spending

\* The logs of a year.
LEMMA OfAYear == \A ls, y : y \in Years => InYear(ls, y) = {l \in ls : YearOf[l[2]] = y}
  BY YearsOrAll DEF InYear

\* Of all years are all logs.
LEMMA OfAllYears == \A ls : InYear(ls, AllYears) = ls
  BY DEF InYear

\* The years divide the logs.
LEMMA ByYear ==
  ASSUME FiguresTypeOK, NEW ls \in SUBSET Slots
  PROVE  /\ \A y \in Years : InYear(ls, y) \in SUBSET ls
         /\ \A l \in ls : \E y \in Years : l \in InYear(ls, y)
         /\ \A x, y \in Years : x # y => InYear(ls, x) \cap InYear(ls, y) = {}
<1>1. \A l \in ls : YearOf[l[2]] \in Years
  BY OfLogs
<1> QED
  BY <1>1, OfAYear

\* Spending by year; years without a log may be left out.
LEMMA SpendingByYear ==
  ASSUME FiguresTypeOK, NEW ls \in SUBSET Slots, NEW T \in SUBSET Years,
         \A l \in ls : YearOf[l[2]] \in T
  PROVE  SumFunction([y \in T |-> Spending(InYear(ls, y))]) = Spending(ls)
<1> DEFINE G == [y \in Years |-> InYear(ls, y)]
           t == [y \in T |-> Spending(InYear(ls, y))]
<1>1. /\ \A y \in Years : G[y] \in SUBSET ls
      /\ \A l \in ls : \E y \in Years : l \in G[y]
      /\ \A x, y \in Years : x # y => G[x] \cap G[y] = {}
  BY ByYear
<1>2. \A y \in T : t[y] = SpentOn(G[y], Names)
  BY DEF Spending
<1>3. \A y \in Years : y \notin T => SpentOn(G[y], Names) = 0
  <2> SUFFICES ASSUME NEW y \in Years, y \notin T PROVE SpentOn(G[y], Names) = 0
    OBVIOUS
  <2>1. G[y] = {}
    BY OfAYear
  <2> QED
    BY <2>1, SpentOnNone
<1>4. SumFunctionOnSet(t, T) = SpentOn(ls, Names)
  <2> HIDE DEF G, t
  <2> QED
    BY <1>1, <1>2, <1>3, YearsOrAll, SpendingBy
<1> QED
  BY <1>4 DEF SumFunction, Spending

\* Incidents by year.
LEMMA IncidentsByYear ==
  ASSUME FiguresTypeOK, NEW ls \in SUBSET Slots
  PROVE  SumFunction([y \in Years |-> Incidents(InYear(ls, y))]) = Incidents(ls)
<1> DEFINE G == [y \in Years |-> InYear(ls, y)]
           t == [y \in Years |-> Incidents(InYear(ls, y))]
<1>1. /\ \A y \in Years : G[y] \in SUBSET ls
      /\ \A l \in ls : \E y \in Years : l \in G[y]
      /\ \A x, y \in Years : x # y => G[x] \cap G[y] = {}
  BY ByYear
<1>2. \A y \in Years : t[y] = SumFunctionOnSet(incidents, G[y])
  BY DEF Incidents
<1>3. IsFiniteSet(ls) /\ \A l \in ls : incidents[l] \in Int
  BY FiniteLogs, NumbersOf
<1>4. SumFunctionOnSet(t, Years) = SumFunctionOnSet(incidents, ls)
  <2> HIDE DEF G, t
  <2> QED
    BY <1>1, <1>2, <1>3, YearsOrAll, SumGroups
<1> QED
  BY <1>4 DEF SumFunction, Incidents

\* Hours by project are all hours there are.
LEMMA HoursByProject ==
  ASSUME FiguresTypeOK
  PROVE  SumFunction([p \in Projects |-> SumFunctionOnSet(hours, Attended(LogsOf({p})))])
           = SumFunctionOnSet(hours, Attended(logs))
<1> DEFINE A == Attended(logs)
           G == [p \in Projects |-> Attended(LogsOf({p}))]
           t == [p \in Projects |-> SumFunctionOnSet(hours, Attended(LogsOf({p})))]
<1>1. logs \in SUBSET Slots
  BY DEF FiguresTypeOK
<1>2. IsFiniteSet(A) /\ \A s \in A : hours[s] \in Int
  BY <1>1, FiniteLogs, NumbersOf
<1>3. /\ \A p \in Projects : G[p] \in SUBSET A
      /\ \A s \in A : \E p \in Projects : s \in G[p]
      /\ \A p, q \in Projects : p # q => G[p] \cap G[q] = {}
  <2>1. \A s \in A : s[1] \in logs /\ s[1][1] \in Projects
    BY <1>1, OfLogs DEF Attended
  <2> QED
    BY <2>1 DEF Attended, LogsOf
<1>4. \A p \in Projects : t[p] = SumFunctionOnSet(hours, G[p])
  OBVIOUS
<1>5. SumFunctionOnSet(t, Projects) = SumFunctionOnSet(hours, A)
  <2> HIDE DEF A, G, t
  <2> QED
    BY <1>2, <1>3, <1>4, FiniteAssumption, SumGroups
<1> QED
  BY <1>5 DEF SumFunction

\* And so are the hours that each worker sees.
LEMMA HoursByWorker ==
  ASSUME FiguresTypeOK
  PROVE  SumFunction([w \in Workers |-> Worker(w).total_hours_worked])
           = SumFunctionOnSet(hours, Attended(logs))
<1> DEFINE A == Attended(logs)
           G == [w \in Workers |-> DOMAIN hours \cap (logs \X {w})]
           t == [w \in Workers |-> Worker(w).total_hours_worked]
<1>1. IsFiniteSet(A) /\ \A s \in A : hours[s] \in Int
  BY FiniteLogs, NumbersOf DEF FiguresTypeOK
<1>2. /\ \A w \in Workers : G[w] \in SUBSET A
      /\ \A s \in A : \E w \in Workers : s \in G[w]
      /\ \A v, w \in Workers : v # w => G[v] \cap G[w] = {}
  BY DEF Attended
<1>3. \A w \in Workers : t[w] = SumFunctionOnSet(hours, G[w])
  BY DEF Worker
<1>4. SumFunctionOnSet(t, Workers) = SumFunctionOnSet(hours, A)
  <2> HIDE DEF A, G, t
  <2> QED
    BY <1>1, <1>2, <1>3, FiniteAssumption, SumGroups
<1> QED
  BY <1>4 DEF SumFunction

-----------------------------------------------------------------------------
(* The trends.                                                             *)

\* Week, item and project of a row; what was spent of such a group, and all there are.
GroupOf(s) == <<WeekOf[s[1][2]], s[2], s[1][1]>>
RowsOf(ls, k) == Bought({l \in ls : WeekOf[l[2]] = k[1] /\ l[1] = k[3]}, {k[2]})
KeysOf(ls) == {GroupOf(s) : s \in Bought(ls, Names)}

\* The groups are finitely many.
LEMMA FiniteKeys ==
  ASSUME FiguresTypeOK, NEW ls \in SUBSET Slots
  PROVE  IsFiniteSet(KeysOf(ls))
<1> DEFINE S == Bought(ls, Names)
           h == [s \in S |-> GroupOf(s)]
<1>1. IsFiniteSet({h[s] : s \in S})
  <2>1. IsFiniteSet(S)
    BY FiniteLogs
  <2> HIDE DEF h, S
  <2> QED
    BY <2>1, FiniteRange
<1>2. KeysOf(ls) = {h[s] : s \in S}
  BY DEF KeysOf
<1> QED
  BY <1>1, <1>2

\* The weekly trends are of the groups that have a row.
LEMMA TrendsAre ==
  ASSUME NEW ls
  PROVE  /\ DOMAIN WeeklyTrends(ls) = KeysOf(ls)
         /\ \A k \in KeysOf(ls) : WeeklyTrends(ls)[k] = SumFunctionOnSet(cost, RowsOf(ls, k))
  BY DEF WeeklyTrends, KeysOf, GroupOf, RowsOf, SpentOn

\* The weekly trends of some weeks, items and projects add up to what was spent then on them.
LEMMA TrendsSum ==
  ASSUME FiguresTypeOK, NEW ls \in SUBSET Slots, NEW ks \in SUBSET KeysOf(ls),
         NEW S, S = {s \in Bought(ls, Names) : GroupOf(s) \in ks}
  PROVE  SumFunctionOnSet(WeeklyTrends(ls), ks) = SumFunctionOnSet(cost, S)
<1> DEFINE t == WeeklyTrends(ls)
           G == [k \in ks |-> RowsOf(ls, k)]
<1>1. IsFiniteSet(ks)
  BY FiniteKeys, FS_Subset
<1>2. IsFiniteSet(S) /\ \A s \in S : cost[s] \in Int
  <2>1. S \in SUBSET Bought(ls, Names)
    OBVIOUS
  <2> QED
    BY <2>1, FiniteLogs, FS_Subset, NumbersOf
<1>3. \A k \in ks : \A s : s \in G[k] <=> s \in Bought(ls, Names) /\ GroupOf(s) = k
  <2> SUFFICES ASSUME NEW k \in ks, NEW s
               PROVE  s \in RowsOf(ls, k) <=> s \in Bought(ls, Names) /\ GroupOf(s) = k
    OBVIOUS
  <2>1. k = <<k[1], k[2], k[3]>> /\ k[2] \in Names
    BY DEF KeysOf, GroupOf, Bought
  <2>2. s \in RowsOf(ls, k) <=> /\ s \in Bought(ls, Names)
                               /\ WeekOf[s[1][2]] = k[1] /\ s[2] = k[2] /\ s[1][1] = k[3]
    BY <2>1 DEF RowsOf, Bought
  <2> QED
    BY <2>1, <2>2 DEF GroupOf
<1>4. /\ \A k \in ks : G[k] \in SUBSET S
      /\ \A s \in S : \E k \in ks : s \in G[k]
      /\ \A j, k \in ks : j # k => G[j] \cap G[k] = {}
  <2> HIDE DEF G
  <2> QED
    BY <1>3
<1>5. \A k \in ks : t[k] = SumFunctionOnSet(cost, G[k])
  BY TrendsAre
<1> HIDE DEF t, G
<1>6. SumFunctionOnSet(t, ks) = SumFunctionOnSet(cost, S)
  BY <1>1, <1>2, <1>4, <1>5, SumGroups
<1> QED
  BY <1>6 DEF t

\* All of them add up to what was spent.
LEMMA TrendsSumUp ==
  ASSUME FiguresTypeOK, NEW ls \in SUBSET Slots
  PROVE  SumFunction(WeeklyTrends(ls)) = Spending(ls)
<1>1. Bought(ls, Names) = {s \in Bought(ls, Names) : GroupOf(s) \in KeysOf(ls)}
  BY DEF KeysOf
<1>2. SumFunctionOnSet(WeeklyTrends(ls), KeysOf(ls)) = SumFunctionOnSet(cost, Bought(ls, Names))
  BY <1>1, TrendsSum
<1> QED
  BY <1>2, TrendsAre DEF SumFunction, Spending, SpentOn

-----------------------------------------------------------------------------
(* The type invariant.                                                     *)

\* Before the first log nothing is entered.
LEMMA InitFiguresTypeOK == FiguresInit => FiguresTypeOK
  BY FiguresAssumption DEF FiguresInit, FiguresTypeOK

\* Every entry, change of a status and turn of a day keeps the types.
LEMMA StepFiguresTypeOK == FiguresTypeOK /\ [FiguresNext]_figures => FiguresTypeOK'
<1> SUFFICES ASSUME FiguresTypeOK, [FiguresNext]_figures PROVE FiguresTypeOK'
  OBVIOUS
<1>1. CASE UNCHANGED figures
  BY <1>1 DEF figures, FiguresTypeOK
<1>2. CASE NextDay
  BY <1>2 DEF NextDay, FiguresTypeOK
<1>3. CASE \E l \in Slots : SubmitLog(l)
  BY <1>3 DEF SubmitLog, FiguresTypeOK
<1>4. CASE \E l \in Slots : CreateIncident(l)
  BY <1>4 DEF CreateIncident, FiguresTypeOK
<1>5. CASE \E l \in Slots : DeleteIncident(l)
  BY <1>5 DEF DeleteIncident, FiguresTypeOK
<1>6. CASE \E l \in Slots, n \in Names, c \in Costs : SetCost(l, n, c)
  BY <1>6, FiguresAssumption DEF SetCost, FiguresTypeOK
<1>d. CASE \E l \in Slots, n \in Names : DeleteCost(l, n)
  BY <1>d DEF DeleteCost, Restrict, FiguresTypeOK
<1>7. CASE \E l \in Slots, w \in Workers, h \in Hours : EnterHours(l, w, h)
  BY <1>7, FiguresAssumption DEF EnterHours, FiguresTypeOK
<1>8. CASE \E p \in Projects, s \in Statuses : SetStatus(p, s)
  BY <1>8 DEF SetStatus, FiguresTypeOK
<1>9. CASE \E w \in Workers : SetStaff(w)
  BY <1>9 DEF SetStaff, FiguresTypeOK
<1> QED
  BY <1>1, <1>2, <1>3, <1>4, <1>5, <1>6, <1>7, <1>8, <1>9, <1>d DEF FiguresNext

\* The rows, the dates and the states of projects stay what the queries take them for, of
\* any calendar and after any entries: no incident is deleted that is not there.
THEOREM FiguresTypeCorrect == FiguresSpec => []FiguresTypeOK
  BY InitFiguresTypeOK, StepFiguresTypeOK, PTL DEF FiguresSpec

-----------------------------------------------------------------------------
(* The owner and the manager.                                              *)

\* The dashboard of all years, term by term.
LEMMA OwnerOfAllYears ==
  /\ OwnerProjects(AllYears) = Projects
  /\ Owner(AllYears).total_spending = SumFunction([p \in Projects |-> Spending(LogsOf({p}))])
  /\ Owner(AllYears).summaries = [p \in Projects |-> Summary(p, LogsOf({p}))]
  /\ Owner(AllYears).over_budget = {p \in Projects : Spending(LogsOf({p})) > Budget[p]}
  /\ Owner(AllYears).trends = WeeklyTrends(LogsOf(Active))
  /\ Owner(AllYears).total_material_cost = Spending(logs)
  /\ Owner(AllYears).total_incidents = Incidents(LogsOf(Active))
  /\ Owner(AllYears).workers_delta = Cardinality(staff) - Cardinality(staff)
<1> DEFINE summaries == [p \in OwnerProjects(AllYears) |-> Summary(p, OwnerLogs(p, AllYears))]
<1>1. OwnerProjects(AllYears) = Projects /\ \A p : OwnerLogs(p, AllYears) = LogsOf({p})
  BY OfAllYears DEF OwnerProjects, OwnerLogs
<1>2. summaries = [p \in Projects |-> Summary(p, LogsOf({p}))]
  BY <1>1
<1>3. \A p \in Projects : /\ summaries[p].actual_spending = Spending(LogsOf({p}))
                          /\ summaries[p].is_over_budget = (Spending(LogsOf({p})) > Budget[p])
  BY <1>2 DEF Summary
<1>4. [p \in OwnerProjects(AllYears) |-> summaries[p].actual_spending]
        = [p \in Projects |-> Spending(LogsOf({p}))]
  <2> HIDE DEF summaries
  <2> QED
    BY <1>1, <1>3
<1>5. {p \in OwnerProjects(AllYears) : summaries[p].is_over_budget}
        = {p \in Projects : Spending(LogsOf({p})) > Budget[p]}
  <2> HIDE DEF summaries
  <2> QED
    BY <1>1, <1>3
<1>6. InYear(LogsOf(Active), AllYears) = LogsOf(Active)
  BY OfAllYears
<1> QED
  BY <1>1, <1>2, <1>4, <1>5, <1>6 DEF Owner

\* A year of the owner's dashboard is of the active projects with a log in it.
LEMMA OwnerOfAYear ==
  ASSUME NEW y \in Years
  PROVE  /\ OwnerProjects(y) = {p \in Active : InYear(LogsOf({p}), y) # {}}
         /\ \A p \in OwnerProjects(y) :
              Owner(y).summaries[p].actual_spending = Spending(InYear(LogsOf({p}), y))
         /\ Owner(y).total_incidents = Incidents(InYear(LogsOf(Active), y))
<1>1. OwnerProjects(y) = {p \in Active : InYear(LogsOf({p}), y) # {}}
  BY YearsOrAll DEF OwnerProjects
<1>2. Owner(y).summaries = [p \in OwnerProjects(y) |-> Summary(p, OwnerLogs(p, y))]
  BY DEF Owner
<1>3. \A p \in OwnerProjects(y) :
        Owner(y).summaries[p].actual_spending = Spending(InYear(LogsOf({p}), y))
  BY <1>2 DEF Summary, OwnerLogs
<1>4. Owner(y).total_incidents = Incidents(InYear(LogsOf(Active), y))
  BY DEF Owner
<1> QED
  BY <1>1, <1>3, <1>4

\* The manager's dashboard of one project.
LEMMA ManagerIs ==
  ASSUME NEW p
  PROVE  /\ Manager(p).logs_submitted = Cardinality(LogsOf({p}))
         /\ Manager(p).total_material_cost = Spending(LogsOf({p}))
         /\ Manager(p).total_incidents = Incidents(LogsOf({p}))
         /\ Manager(p).trends = ItemTotals(LogsOf({p}))
         /\ Manager(p).attendance_rate = AverageHours(LogsOf({p}))
  BY DEF Manager

\* The manager's dashboard of all active projects.
LEMMA AggregateIs ==
  /\ Aggregate.total_spending = SumFunction([p \in Mine |-> Spending(LogsOf({p}))])
  /\ Aggregate.over_budget = {p \in Mine : Spending(LogsOf({p})) > Budget[p]}
  /\ Aggregate.trends = RecentTrends(LogsOf(Mine))
<1> DEFINE summaries == [p \in Mine |-> Summary(p, LogsOf({p}))]
<1>1. \A p \in Mine : /\ summaries[p].actual_spending = Spending(LogsOf({p}))
                      /\ summaries[p].is_over_budget = (Spending(LogsOf({p})) > Budget[p])
  BY DEF Summary
<1>2. [p \in Mine |-> summaries[p].actual_spending] = [p \in Mine |-> Spending(LogsOf({p}))]
  <2> HIDE DEF summaries
  <2> QED
    BY <1>1
<1>3. {p \in Mine : summaries[p].is_over_budget} = {p \in Mine : Spending(LogsOf({p})) > Budget[p]}
  <2> HIDE DEF summaries
  <2> QED
    BY <1>1
<1> QED
  BY <1>2, <1>3 DEF Aggregate

\* The years of a project add up.
LEMMA YearsAddUp ==
  ASSUME FiguresTypeOK, NEW p \in Active
  PROVE  SumFunction([y \in Years |-> IF p \in OwnerProjects(y)
                                      THEN Owner(y).summaries[p].actual_spending ELSE 0])
           = Spending(LogsOf({p}))
<1> DEFINE ls == LogsOf({p})
<1>1. ASSUME NEW y \in Years
      PROVE  (IF p \in OwnerProjects(y) THEN Owner(y).summaries[p].actual_spending ELSE 0)
               = Spending(InYear(ls, y))
  <2>1. CASE InYear(ls, y) = {}
    <3>1. p \notin OwnerProjects(y)
      BY <2>1, OwnerOfAYear
    <3> QED
      BY <2>1, <3>1, SpentOnNone DEF Spending
  <2>2. CASE InYear(ls, y) # {}
    <3>1. p \in OwnerProjects(y)
      BY <2>2, OwnerOfAYear
    <3> QED
      BY <3>1, OwnerOfAYear
  <2> QED
    BY <2>1, <2>2
<1>2. [y \in Years |-> IF p \in OwnerProjects(y) THEN Owner(y).summaries[p].actual_spending ELSE 0]
        = [y \in Years |-> Spending(InYear(ls, y))]
  BY <1>1
<1>3. ls \in SUBSET Slots /\ \A l \in ls : YearOf[l[2]] \in Years
  BY SomeLogs, OfLogs
<1>4. SumFunction([y \in Years |-> Spending(InYear(ls, y))]) = Spending(ls)
  <2> HIDE DEF ls
  <2> QED
    BY <1>3, SpendingByYear
<1> QED
  BY <1>2, <1>4

\* The figures agree in every state with rows, dates and states of projects.
LEMMA StateDashboardsAgree == FiguresTypeOK => DashboardsAgree
<1> SUFFICES ASSUME FiguresTypeOK PROVE DashboardsAgree
  OBVIOUS
<1> DEFINE all == Owner(AllYears)
<1>p. Active \in SUBSET Projects /\ Mine \in SUBSET Projects /\ Mine \in SUBSET Active
  BY DEF Active, Mine
<1>1. all.total_spending = all.total_material_cost
  <2>1. LogsOf(Projects) = logs
    BY OfLogs DEF LogsOf, FiguresTypeOK
  <2> QED
    BY <2>1, SpendingByProject, OwnerOfAllYears
<1>2. SumFunction(all.trends) = SumFunction([p \in Active |-> Manager(p).total_material_cost])
  <2>1. [p \in Active |-> Manager(p).total_material_cost] = [p \in Active |-> Spending(LogsOf({p}))]
    BY ManagerIs
  <2>2. SumFunction([p \in Active |-> Spending(LogsOf({p}))]) = Spending(LogsOf(Active))
    BY <1>p, SpendingByProject
  <2>3. SumFunction(all.trends) = Spending(LogsOf(Active))
    BY SomeLogs, TrendsSumUp, OwnerOfAllYears
  <2> QED
    BY <2>1, <2>2, <2>3
<1>3. \A p \in Projects :
        /\ all.summaries[p].actual_spending = Manager(p).total_material_cost
        /\ SumFunction(Manager(p).trends) = Manager(p).total_material_cost
  <2> SUFFICES ASSUME NEW p \in Projects
               PROVE  /\ all.summaries[p].actual_spending = Manager(p).total_material_cost
                      /\ SumFunction(Manager(p).trends) = Manager(p).total_material_cost
    OBVIOUS
  <2>1. all.summaries[p].actual_spending = Spending(LogsOf({p}))
    BY OwnerOfAllYears DEF Summary
  <2>2. SumFunction(ItemTotals(LogsOf({p}))) = Spending(LogsOf({p}))
    BY SomeLogs, SpendingByItem
  <2> QED
    BY <2>1, <2>2, ManagerIs
<1>4. Aggregate.over_budget = all.over_budget \cap Mine
  <2>1. {p \in Mine : Spending(LogsOf({p})) > Budget[p]}
          = {p \in Projects : Spending(LogsOf({p})) > Budget[p]} \cap Mine
    BY <1>p
  <2> QED
    BY <2>1, AggregateIs, OwnerOfAllYears
<1>5. SumFunction([p \in Projects |-> Manager(p).attendance_rate[1]])
        = SumFunction([w \in Workers |-> Worker(w).total_hours_worked])
  <2>1. [p \in Projects |-> Manager(p).attendance_rate[1]]
          = [p \in Projects |-> SumFunctionOnSet(hours, Attended(LogsOf({p})))]
    BY ManagerIs DEF AverageHours
  <2> QED
    BY <2>1, HoursByProject, HoursByWorker
<1>6. Aggregate.total_spending = SumFunction([p \in Mine |-> all.summaries[p].actual_spending])
  <2>1. \A p \in Projects : all.summaries[p].actual_spending = Spending(LogsOf({p}))
    BY OwnerOfAllYears DEF Summary
  <2>2. [p \in Mine |-> all.summaries[p].actual_spending] = [p \in Mine |-> Spending(LogsOf({p}))]
    <3> HIDE DEF all
    <3> QED
      BY <1>p, <2>1
  <2> QED
    BY <2>2, AggregateIs
<1>7. \A p \in Active :
        SumFunction([y \in Years |-> IF p \in OwnerProjects(y)
                                     THEN Owner(y).summaries[p].actual_spending ELSE 0])
          = all.summaries[p].actual_spending
  <2> SUFFICES ASSUME NEW p \in Active
               PROVE  Spending(LogsOf({p})) = all.summaries[p].actual_spending
    BY YearsAddUp
  <2> QED
    BY <1>p, OwnerOfAllYears DEF Summary
<1>8. SumFunction([y \in Years |-> Owner(y).total_incidents]) = all.total_incidents
  <2>1. [y \in Years |-> Owner(y).total_incidents]
          = [y \in Years |-> Incidents(InYear(LogsOf(Active), y))]
    BY OwnerOfAYear
  <2> QED
    BY <2>1, SomeLogs, IncidentsByYear, OwnerOfAllYears
<1>9. Summarized(Mine) /\ \A y \in Years : Summarized(OwnerProjects(y))
  <2>1. \A p \in Active : status[p] \in {"Active", "Completed"}
    BY DEF Active
  <2>2. \A y \in Years : OwnerProjects(y) \in SUBSET Active
    BY OwnerOfAYear
  <2> QED
    BY <1>p, <2>1, <2>2 DEF Summarized
<1>10. all.workers_delta = 0
  <2>1. Cardinality(staff) \in Nat
    BY FiniteAssumption, FS_Subset, FS_CardinalityType DEF FiguresTypeOK
  <2> QED
    BY <2>1, OwnerOfAllYears
<1> QED
  BY <1>1, <1>2, <1>3, <1>4, <1>5, <1>6, <1>7, <1>8, <1>9, <1>10 DEF DashboardsAgree

\* For any calendar, projects and rows, the owner's, the manager's and the workers' figures
\* agree however they are grouped: by project, item, week, year or worker.
THEOREM FiguresAgree == FiguresSpec => []DashboardsAgree
  BY FiguresTypeCorrect, StateDashboardsAgree, PTL

-----------------------------------------------------------------------------
(* The recent trends.                                                      *)

\* What a cell of the recent trends shows, nothing when it is left out.
LEMMA RecentCell ==
  ASSUME FiguresTypeOK, NEW ls \in SUBSET Slots, NEW w, NEW n \in Names
  PROVE  (IF <<w, n>> \in DOMAIN RecentTrends(ls) THEN RecentTrends(ls)[<<w, n>>] ELSE 0)
           = SpentOn({l \in Recent(ls) : WeekOf[l[2]] = w}, {n})
<1> DEFINE part == {l \in Recent(ls) : WeekOf[l[2]] = w}
           keys == {<<WeekOf[s[1][2]], s[2]>> : s \in Bought(Recent(ls), Names)}
<1>1. DOMAIN RecentTrends(ls) = keys
  BY DEF RecentTrends
<1>2. CASE <<w, n>> \in keys
  BY <1>1, <1>2 DEF RecentTrends
<1>3. CASE <<w, n>> \notin keys
  <2>1. Bought(part, {n}) = {}
    BY <1>3 DEF Bought
  <2>2. SpentOn(part, {n}) = 0
    BY <2>1, SumEmpty DEF SpentOn
  <2> HIDE DEF part, keys
  <2> QED
    BY <1>1, <1>3, <2>2 DEF part
<1> QED
  BY <1>2, <1>3

\* The owner's weekly trends of one week and item, and some of the projects.
LEMMA OwnerCell ==
  ASSUME FiguresTypeOK, NEW w, NEW n \in Names, NEW ps \in SUBSET Active
  PROVE  SumFunctionOnSet(WeeklyTrends(LogsOf(Active)),
             {k \in DOMAIN WeeklyTrends(LogsOf(Active)) : k[1] = w /\ k[2] = n /\ k[3] \in ps})
           = SpentOn({l \in LogsOf(ps) : WeekOf[l[2]] = w}, {n})
<1> DEFINE ls == LogsOf(Active)
           ks == {k \in KeysOf(ls) : k[1] = w /\ k[2] = n /\ k[3] \in ps}
           S == Bought({l \in LogsOf(ps) : WeekOf[l[2]] = w}, {n})
<1>1. ls \in SUBSET Slots /\ ks \in SUBSET KeysOf(ls)
  BY SomeLogs
<1>2. S = {s \in Bought(ls, Names) : GroupOf(s) \in ks}
  <2>1. \A s \in Bought(ls, Names) :
          GroupOf(s) \in ks <=> WeekOf[s[1][2]] = w /\ s[2] = n /\ s[1][1] \in ps
    BY DEF KeysOf, GroupOf
  <2>2. \A s : s \in S <=> /\ s \in Bought(ls, Names)
                          /\ WeekOf[s[1][2]] = w /\ s[2] = n /\ s[1][1] \in ps
    BY DEF Bought, LogsOf
  <2> HIDE DEF S, ks, ls
  <2> QED
    BY <2>1, <2>2
<1>3. SumFunctionOnSet(WeeklyTrends(ls), ks) = SumFunctionOnSet(cost, S)
  <2> HIDE DEF ls, ks, S
  <2> QED
    BY <1>1, <1>2, TrendsSum
<1> QED
  BY <1>3, TrendsAre DEF SpentOn

\* Spending of logs that are divided in two.
LEMMA SpentApart ==
  ASSUME FiguresTypeOK, NEW ls \in SUBSET Slots, NEW ms \in SUBSET ls, NEW ns \in SUBSET Names
  PROVE  SpentOn(ls, ns) = SpentOn(ms, ns) + SpentOn(ls \ ms, ns)
<1> DEFINE S == Bought(ls, ns)
           T == Bought(ms, ns)
<1>1. IsFiniteSet(S) /\ \A x \in S : cost[x] \in Int
  BY FiniteLogs, NumbersOf
<1>2. T \in SUBSET S /\ S \ T = Bought(ls \ ms, ns)
  BY DEF Bought
<1>3. SumFunctionOnSet(cost, S) = SumFunctionOnSet(cost, T) + SumFunctionOnSet(cost, S \ T)
  <2> HIDE DEF S, T
  <2> QED
    BY <1>1, <1>2, SumPart
<1> QED
  BY <1>2, <1>3 DEF SpentOn

\* A week is in the window, before it or to come; logs of days to come are taken out of it.
LEMMA StateRecentTrendsAgree == FiguresTypeOK => RecentTrendsAgree
<1> SUFFICES ASSUME FiguresTypeOK, NEW w \in {WeekOf[d] : d \in Dates}, NEW n \in Names
             PROVE  (IF <<w, n>> \in DOMAIN Aggregate.trends THEN Aggregate.trends[<<w, n>>] ELSE 0)
                      = IF w \in WeekOf[today] - TrendWeeks + 1 .. WeekOf[today]
                        THEN SumFunctionOnSet(Owner(AllYears).trends,
                               {k \in DOMAIN Owner(AllYears).trends :
                                  k[1] = w /\ k[2] = n /\ k[3] \in Mine})
                               - SpentOn({l \in {l \in LogsOf(Mine) : l[2] > today} :
                                            WeekOf[l[2]] = w}, {n})
                        ELSE 0
  BY DEF RecentTrendsAgree
<1> DEFINE ls == LogsOf(Mine)
           all == {l \in ls : WeekOf[l[2]] = w}
           shown == {l \in Recent(ls) : WeekOf[l[2]] = w}
           ahead == {l \in {l \in ls : l[2] > today} : WeekOf[l[2]] = w}
<1>1. ls \in SUBSET Slots /\ Mine \in SUBSET Active
  BY SomeLogs DEF Mine
<1>2. (IF <<w, n>> \in DOMAIN Aggregate.trends THEN Aggregate.trends[<<w, n>>] ELSE 0)
        = SpentOn(shown, {n})
  BY <1>1, RecentCell, AggregateIs
<1>3. SumFunctionOnSet(Owner(AllYears).trends,
        {k \in DOMAIN Owner(AllYears).trends : k[1] = w /\ k[2] = n /\ k[3] \in Mine})
        = SpentOn(all, {n})
  <2>1. Owner(AllYears).trends = WeeklyTrends(LogsOf(Active))
    BY OwnerOfAllYears
  <2>2. SumFunctionOnSet(WeeklyTrends(LogsOf(Active)),
          {k \in DOMAIN WeeklyTrends(LogsOf(Active)) : k[1] = w /\ k[2] = n /\ k[3] \in Mine})
          = SpentOn(all, {n})
    BY <1>1, OwnerCell
  <2> QED
    BY <2>1, <2>2
<1>4. /\ w \in Int /\ WeekOf[today] \in Int /\ TrendWeeks \in Nat
      /\ today \in Dates /\ Dates \subseteq Int
      /\ \A l \in ls : l[2] \in Dates /\ l[2] \in Int /\ WeekOf[l[2]] \in Int
  BY <1>1, OfLogs, CalendarAssumption, FiguresAssumption DEF FiguresTypeOK
<1>5. CASE w \in WeekOf[today] - TrendWeeks + 1 .. WeekOf[today]
  <2>1. shown = all \ ahead /\ ahead \in SUBSET all
    BY <1>4, <1>5 DEF Recent
  <2>2. all \in SUBSET Slots /\ ahead \in SUBSET Slots /\ {n} \in SUBSET Names
    BY <1>1
  <2> HIDE DEF all, shown, ahead
  <2>3. SpentOn(all, {n}) = SpentOn(ahead, {n}) + SpentOn(shown, {n})
    BY <2>1, <2>2, SpentApart
  <2>4. shown \in SUBSET Slots
    BY <2>1, <2>2
  <2>5. SpentOn(ahead, {n}) \in Int /\ SpentOn(shown, {n}) \in Int
    BY <2>2, <2>4, SpentOnInt
  <2>6. SpentOn(shown, {n}) = SpentOn(all, {n}) - SpentOn(ahead, {n})
    BY <2>3, <2>5
  <2> QED
    BY <1>2, <1>3, <1>5, <2>6 DEF ahead
<1>6. CASE w \notin WeekOf[today] - TrendWeeks + 1 .. WeekOf[today]
  <2>1. ASSUME NEW l \in shown PROVE FALSE
    <3>1. l \in ls /\ WeekOf[l[2]] = w /\ w >= WeekOf[today] - (TrendWeeks - 1) /\ l[2] <= today
      BY DEF Recent
    <3>2. w > WeekOf[today]
      BY <1>4, <1>6, <3>1
    <3>3. l[2] < today \/ l[2] = today
      BY <1>4, <3>1
    <3>4. WeekOf[l[2]] <= WeekOf[today]
      BY <1>4, <3>1, <3>3, CalendarAssumption
    <3> QED
      BY <1>4, <3>1, <3>2, <3>4
  <2>2. shown = {}
    BY <2>1
  <2>3. SpentOn(shown, {n}) = 0
    BY <2>2, SpentOnNone
  <2> HIDE DEF shown
  <2> QED
    BY <1>2, <1>6, <2>3
<1> QED
  BY <1>5, <1>6

\* For any calendar and any number of weeks shown, the manager's recent trends are those of
\* the owner, less what is before the window and what is yet to come.
THEOREM RecentTrendsHold == FiguresSpec => []RecentTrendsAgree
  BY FiguresTypeCorrect, StateRecentTrendsAgree, PTL

-----------------------------------------------------------------------------
(* The features.                                                           *)

\* Spending log by log.
LEMMA SpendingByLog ==
  ASSUME FiguresTypeOK, NEW ls \in SUBSET Slots
  PROVE  SumFunctionOnSet([l \in ls |-> Spending({l})], ls) = Spending(ls)
<1> DEFINE G == [l \in ls |-> {l}]
           t == [l \in ls |-> Spending({l})]
<1>1. /\ \A l \in ls : G[l] \in SUBSET ls
      /\ \A l \in ls : \E k \in ls : l \in G[k]
      /\ \A j, k \in ls : j # k => G[j] \cap G[k] = {}
  OBVIOUS
<1>2. \A l \in ls : t[l] = SpentOn(G[l], Names)
  BY DEF Spending
<1>3. IsFiniteSet(ls)
  BY FiniteLogs
<1>4. SumFunctionOnSet(t, ls) = SpentOn(ls, Names)
  <2>1. \A l \in ls : l \notin ls => SpentOn(G[l], Names) = 0
    OBVIOUS
  <2>2. ls \in SUBSET ls /\ Names \in SUBSET Names
    OBVIOUS
  <2> HIDE DEF G, t
  <2> QED
    BY <1>1, <1>2, <1>3, <2>1, <2>2, SpendingBy, SMTT(30)
<1> QED
  BY <1>4 DEF Spending

\* A row counts once or more, and once while its log has no two incidents.
LEMMA JoinedAtLeastOnce ==
  ASSUME FiguresTypeOK, NEW l \in Slots
  PROVE  Joined(l) \in Nat /\ Joined(l) >= 1 /\ (incidents[l] <= 1 => Joined(l) = 1)
<1>1. incidents[l] \in Nat
  BY DEF FiguresTypeOK
<1> QED
  BY <1>1 DEF Joined

\* Something taken once or more is no less.
LEMMA Times == \A a, b \in Nat : a >= 1 => a * b \in Nat /\ b <= a * b
<1> SUFFICES ASSUME NEW a \in Nat, NEW b \in Nat, a >= 1 PROVE a * b \in Nat /\ b <= a * b
  OBVIOUS
<1>1. PICK c \in Nat : a = c + 1
  <2>1. a - 1 \in Nat /\ a = (a - 1) + 1
    OBVIOUS
  <2> QED
    BY <2>1
<1>2. a * b = c * b + b /\ c * b \in Nat
  BY <1>1
<1> QED
  BY <1>2

\* The features agree in every state with rows and dates.
LEMMA StateFeaturesAgree == FiguresTypeOK => FeaturesAgree
<1> SUFFICES ASSUME FiguresTypeOK, NEW p \in Projects
             PROVE  /\ BudgetFeatures(p).log_count = Manager(p).logs_submitted
                    /\ BudgetFeatures(p).incident_count = Manager(p).total_incidents
                    /\ SumFunction(ForecastFeatures(p)) = Manager(p).total_material_cost
                    /\ (\A l \in LogsOf({p}) : incidents[l] <= 1) =>
                         /\ BudgetFeatures(p).total_spent = Manager(p).total_material_cost
                         /\ DelayFeatures(p).avg_hours = Manager(p).attendance_rate
                    /\ (\A s \in Bought(LogsOf({p}), Names) : cost[s] >= 0) =>
                         (p \in Owner(AllYears).over_budget => BudgetFeatures(p).is_over_budget)
  BY DEF FeaturesAgree
<1> DEFINE ls == LogsOf({p})
           joined == [l \in ls |-> Joined(l) * Spending({l})]
           each == [l \in ls |-> Spending({l})]
<1>1. ls \in SUBSET Slots /\ IsFiniteSet(ls)
  BY SomeLogs, FiniteLogs
<1>2. /\ BudgetFeatures(p).log_count = Cardinality(ls)
      /\ BudgetFeatures(p).incident_count = Incidents(ls)
      /\ BudgetFeatures(p).total_spent = SumFunctionOnSet(joined, ls)
      /\ BudgetFeatures(p).is_over_budget = (SumFunctionOnSet(joined, ls) > Budget[p])
  BY DEF BudgetFeatures, SumFunction
<1>3. SumFunction(ForecastFeatures(p)) = Spending(ls)
  <2> DEFINE T == {YearOf[l[2]] : l \in ls}
  <2>1. T \in SUBSET Years /\ \A l \in ls : YearOf[l[2]] \in T
    BY <1>1, OfLogs
  <2>2. ForecastFeatures(p) = [y \in T |-> Spending(InYear(ls, y))]
    BY DEF ForecastFeatures
  <2> HIDE DEF T, ls
  <2> QED
    BY <1>1, <2>1, <2>2, SpendingByYear
<1>4. SumFunctionOnSet(each, ls) = Spending(ls)
  <2> HIDE DEF ls
  <2> QED
    BY <1>1, SpendingByLog
<1>5. \A l \in ls : /\ each[l] = Spending({l}) /\ joined[l] = Joined(l) * Spending({l})
                    /\ each[l] \in Int /\ Joined(l) \in Nat /\ Joined(l) >= 1
                    /\ (incidents[l] <= 1 => Joined(l) = 1)
  <2> SUFFICES ASSUME NEW l \in ls PROVE Spending({l}) \in Int /\ l \in Slots
    BY JoinedAtLeastOnce
  <2>1. {l} \in SUBSET Slots /\ l \in Slots
    BY <1>1
  <2> QED
    BY <2>1, SpentOnInt DEF Spending
<1>6. ASSUME \A l \in ls : incidents[l] <= 1
      PROVE  /\ BudgetFeatures(p).total_spent = Spending(ls)
             /\ DelayFeatures(p).avg_hours = AverageHours(ls)
  <2>1. \A l \in ls : Joined(l) = 1 /\ joined[l] = each[l]
    <3> SUFFICES ASSUME NEW l \in ls PROVE Joined(l) = 1 /\ joined[l] = each[l]
      OBVIOUS
    <3>1. Joined(l) = 1
      BY <1>5, <1>6
    <3>2. joined[l] = 1 * each[l] /\ each[l] \in Int
      BY <1>5, <3>1
    <3> HIDE DEF joined, each
    <3> QED
      BY <3>1, <3>2
  <2>2. SumFunctionOnSet(joined, ls) = SumFunctionOnSet(each, ls)
    <3> HIDE DEF joined, each, ls
    <3> QED
      BY <1>1, <2>1, SumSame
  <2> DEFINE A == Attended(ls)
             weighed == [s \in A |-> Joined(s[1]) * hours[s]]
             ones == [s \in A |-> Joined(s[1])]
  <2>3. IsFiniteSet(A) /\ \A s \in A : hours[s] \in Int /\ s[1] \in ls
    <3>1. \A s \in A : s[1] \in ls
      BY DEF Attended
    <3> HIDE DEF ls
    <3> QED
      BY <1>1, <3>1, FiniteLogs, NumbersOf
  <2>4. \A s \in A : weighed[s] = hours[s] /\ ones[s] = 1
    <3> SUFFICES ASSUME NEW s \in A PROVE weighed[s] = hours[s] /\ ones[s] = 1
      OBVIOUS
    <3>1. Joined(s[1]) = 1 /\ hours[s] \in Int
      BY <2>1, <2>3
    <3>2. weighed[s] = 1 * hours[s] /\ ones[s] = 1
      BY <3>1
    <3> HIDE DEF A, weighed, ones
    <3> QED
      BY <3>1, <3>2
  <2>5. DelayFeatures(p).avg_hours = <<SumFunctionOnSet(weighed, A), SumFunctionOnSet(ones, A)>>
    BY DEF DelayFeatures, SumFunction
  <2>6. /\ SumFunctionOnSet(weighed, A) = SumFunctionOnSet(hours, A)
        /\ SumFunctionOnSet(ones, A) = Cardinality(A)
    <3> HIDE DEF A, weighed, ones
    <3> QED
      BY <2>3, <2>4, SumSame, SumOnes
  <2>7. AverageHours(ls) = <<SumFunctionOnSet(hours, A), Cardinality(A)>>
    BY DEF AverageHours
  <2> QED
    BY <1>2, <1>4, <2>2, <2>5, <2>6, <2>7
<1>7. ASSUME \A s \in Bought(ls, Names) : cost[s] >= 0
      PROVE  p \in Owner(AllYears).over_budget => BudgetFeatures(p).is_over_budget
  <2>1. \A l \in ls : each[l] \in Nat
    <3> SUFFICES ASSUME NEW l \in ls PROVE Spending({l}) \in Nat
      OBVIOUS
    <3>1. {l} \in SUBSET Slots /\ Bought({l}, Names) \in SUBSET Bought(ls, Names)
      BY <1>1 DEF Bought
    <3> HIDE DEF ls
    <3>2. IsFiniteSet(Bought({l}, Names)) /\ \A s \in Bought({l}, Names) : cost[s] \in Int
      BY <3>1, FiniteLogs, NumbersOf
    <3>3. \A s \in Bought({l}, Names) : cost[s] \in Nat
      BY <1>7, <3>1, <3>2
    <3> QED
      BY <3>2, <3>3, SumNat DEF Spending, SpentOn
  <2>2. \A l \in ls : each[l] \in Int /\ joined[l] \in Int /\ each[l] <= joined[l]
    <3> SUFFICES ASSUME NEW l \in ls
                 PROVE  each[l] \in Int /\ joined[l] \in Int /\ each[l] <= joined[l]
      OBVIOUS
    <3>1. /\ each[l] \in Nat /\ Joined(l) \in Nat /\ Joined(l) >= 1
          /\ joined[l] = Joined(l) * each[l]
      BY <1>5, <2>1
    <3> HIDE DEF joined, each, ls
    <3>2. Joined(l) * each[l] \in Nat /\ each[l] <= Joined(l) * each[l]
      BY <3>1, Times
    <3> QED
      BY <3>1, <3>2
  <2>3. SumFunctionOnSet(each, ls) <= SumFunctionOnSet(joined, ls)
    <3> HIDE DEF joined, each, ls
    <3> QED
      BY <1>1, <2>2, SumMore
  <2>4. SumFunctionOnSet(each, ls) \in Int /\ SumFunctionOnSet(joined, ls) \in Int
    <3> HIDE DEF joined, each, ls
    <3> QED
      BY <1>1, <2>2, SumInt
  <2>5. Budget[p] \in Int
    BY FiguresAssumption
  <2>6. p \in Owner(AllYears).over_budget => Spending(ls) > Budget[p]
    BY OwnerOfAllYears
  <2> HIDE DEF joined, each, ls
  <2>7. p \in Owner(AllYears).over_budget => SumFunctionOnSet(joined, ls) > Budget[p]
    BY <1>4, <2>3, <2>4, <2>5, <2>6
  <2> QED
    BY <1>2, <2>7, Zenon
<1> QED
  BY <1>2, <1>3, <1>6, <1>7, ManagerIs

\* For any rows, the predictions are made from the figures the dashboards show, and no
\* project that is over budget there is within it for them.
THEOREM FeaturesHold == FiguresSpec => []FeaturesAgree
  BY FiguresTypeCorrect, StateFeaturesAgree, PTL

-----------------------------------------------------------------------------
(* The turn of a week.                                                     *)

\* A week turns on a Monday, by one, and nothing else is done then.
LEMMA WeekTurnsByOne ==
  ASSUME FiguresTypeOK, FiguresTypeOK', [FiguresNext]_figures, WeekOf[today'] # WeekOf[today]
  PROVE  NextDay /\ WeekOf[today'] = WeekOf[today] + 1
<1>1. NextDay
  BY DEF FiguresNext, figures, SubmitLog, CreateIncident, DeleteIncident, SetCost, DeleteCost,
         EnterHours, SetStatus, SetStaff
<1>2. today \in Dates /\ today' \in Dates /\ today' = today + 1 /\ today \in Int
  BY <1>1, CalendarAssumption DEF FiguresTypeOK, NextDay
<1>3. WeekOf[today] \in Int /\ WeekOf[today'] \in Int
  BY <1>2, CalendarAssumption
<1>4. WeekOf[today] <= WeekOf[today'] /\ WeekOf[today'] <= WeekOf[today] + 1
  <2>1. today < today'
    BY <1>2
  <2>2. WeekOf[today] <= WeekOf[today']
    BY <1>2, <2>1, CalendarAssumption
  <2>3. WeekOf[today + 1] <= WeekOf[today] + 1
    BY <1>2, CalendarAssumption
  <2> QED
    BY <1>2, <2>2, <2>3
<1> QED
  BY <1>1, <1>3, <1>4

\* What a manager's dashboard says of this week and the last.
LEMMA ManagerWeeks ==
  \A p \in Projects :
    /\ Manager(p).incidents_this_week = Incidents(ThisWeek(LogsOf({p})))
    /\ Manager(p).deltas.incidents
         = Incidents(ThisWeek(LogsOf({p}))) - Incidents(LastWeek(LogsOf({p})))
  BY DEF Manager, Deltas

\* The same after a step.
LEMMA ManagerWeeksNext ==
  \A p \in Projects :
    /\ Manager(p)'.incidents_this_week = Incidents(ThisWeek(LogsOf({p})))'
    /\ Manager(p)'.deltas.incidents
         = Incidents(ThisWeek(LogsOf({p})))' - Incidents(LastWeek(LogsOf({p})))'
  BY DEF Manager, Deltas

\* What was of this week is last week's when the week turns, but for what is of the new one.
LEMMA StepWeekTurns ==
  ASSUME FiguresTypeOK, FiguresTypeOK', [FiguresNext]_figures, WeekOf[today'] # WeekOf[today],
         NEW p \in Projects
  PROVE  /\ Manager(p)'.incidents_this_week - Manager(p)'.deltas.incidents
              = Manager(p).incidents_this_week - Manager(p)'.incidents_this_week
         /\ Cardinality(LastWeek(LogsOf({p}))') = Cardinality(ThisWeek(LogsOf({p})))
                                               - Cardinality(ThisWeek(LogsOf({p}))')
<1> DEFINE ls == LogsOf({p})
           old == ThisWeek(ls)
           new == {l \in ls : WeekOf[l[2]] >= WeekOf[today] + 1}
           last == {l \in ls : WeekOf[l[2]] = WeekOf[today]}
<1>1. logs' = logs /\ incidents' = incidents /\ WeekOf[today'] = WeekOf[today] + 1
  BY WeekTurnsByOne DEF NextDay
<1>2. ls \in SUBSET Slots /\ \A l \in ls : WeekOf[l[2]] \in Int
  BY SomeLogs, OfLogs
<1>i. WeekOf[today] \in Int
  BY CalendarAssumption DEF FiguresTypeOK
<1>3. ThisWeek(LogsOf({p}))' = new
  BY <1>1 DEF ThisWeek, LogsOf
<1>4. LastWeek(LogsOf({p}))' = last
  <2>1. LastWeek(LogsOf({p}))' = {l \in ls : WeekOf[l[2]] = WeekOf[today'] - 1}
    BY <1>1 DEF LastWeek, LogsOf
  <2>2. WeekOf[today'] - 1 = WeekOf[today]
    BY <1>1, <1>i
  <2> QED
    BY <2>1, <2>2
<1>5. new \in SUBSET old /\ last = old \ new /\ old \in SUBSET Slots
  <2>1. old \in SUBSET ls
    BY DEF ThisWeek
  <2>2. \A l \in ls : l \in old <=> WeekOf[l[2]] >= WeekOf[today]
    BY DEF ThisWeek
  <2>3. \A l \in ls : /\ l \in new => l \in old
                      /\ l \in last <=> l \in old /\ l \notin new
    <3> HIDE DEF ls, old
    <3> QED
      BY <1>2, <1>i, <2>2
  <2> HIDE DEF ls, old
  <2> QED
    BY <1>2, <2>1, <2>3
<1>6. /\ IsFiniteSet(old) /\ IsFiniteSet(new) /\ IsFiniteSet(last)
      /\ \A l \in old : incidents[l] \in Int
  <2> HIDE DEF old, new, last
  <2>1. IsFiniteSet(old)
    BY <1>5, FiniteLogs
  <2>2. last \in SUBSET old
    BY <1>5
  <2>3. \A l \in old : incidents[l] \in Int
    BY <1>5, NumbersOf
  <2> QED
    BY <1>5, <2>1, <2>2, <2>3, FS_Subset
<1>7. /\ Incidents(ThisWeek(LogsOf({p})))' = SumFunctionOnSet(incidents, new)
      /\ Incidents(LastWeek(LogsOf({p})))' = SumFunctionOnSet(incidents, last)
  <2> HIDE DEF new, last
  <2> QED
    BY <1>1, <1>3, <1>4 DEF Incidents
<1>8. Incidents(old) = SumFunctionOnSet(incidents, new) + SumFunctionOnSet(incidents, last)
  <2> HIDE DEF old, new, last
  <2> QED
    BY <1>5, <1>6, SumPart DEF Incidents
<1>9. SumFunctionOnSet(incidents, new) \in Int /\ SumFunctionOnSet(incidents, last) \in Int
  <2> HIDE DEF old, new, last
  <2> QED
    BY <1>5, <1>6, SumInt
<1>10. Cardinality(old) = Cardinality(new) + Cardinality(last)
  <2> HIDE DEF old, new, last
  <2>1. new \cup last = old /\ new \cap last = {}
    BY <1>5
  <2>2. Cardinality(new \cup last) = Cardinality(new) + Cardinality(last) - Cardinality({})
    BY <1>6, <2>1, FS_Union
  <2>3. Cardinality({}) = 0 /\ Cardinality(new) \in Nat /\ Cardinality(last) \in Nat
    BY <1>6, FS_EmptySet, FS_CardinalityType
  <2>4. Cardinality(new \cup last) = Cardinality(old)
    BY <2>1
  <2> QED
    BY <2>2, <2>3, <2>4
<1>11. Cardinality(new) \in Nat /\ Cardinality(last) \in Nat
  BY <1>6, FS_CardinalityType
<1> HIDE DEF old, new, last
<1>12. Cardinality(LastWeek(LogsOf({p}))') = Cardinality(old) - Cardinality(ThisWeek(LogsOf({p}))')
  BY <1>3, <1>4, <1>10, <1>11
<1>13. Manager(p).incidents_this_week = Incidents(old)
  BY ManagerWeeks DEF old
<1>14. Manager(p)'.incidents_this_week - Manager(p)'.deltas.incidents
         = Manager(p).incidents_this_week - Manager(p)'.incidents_this_week
  BY <1>7, <1>8, <1>9, <1>13, ManagerWeeksNext
<1> QED
  BY <1>12, <1>14 DEF old

\* For any calendar, when a week turns no log and no incident is skipped and none is
\* counted twice between the week and the one before it.
THEOREM WeeksTurn == FiguresSpec => WeekTurns
<1>1. FiguresTypeOK /\ FiguresTypeOK' /\ [FiguresNext]_figures =>
        [WeekOf[today'] # WeekOf[today] =>
           \A p \in Projects :
             LET old == Manager(p)
                 new == Manager(p)'
             IN  /\ new.incidents_this_week - new.deltas.incidents
                      = old.incidents_this_week - new.incidents_this_week
                 /\ Cardinality(LastWeek(LogsOf({p}))')
                      = Cardinality(ThisWeek(LogsOf({p})))
                          - Cardinality(ThisWeek(LogsOf({p}))')]_figures
  BY StepWeekTurns
<1> QED
  BY <1>1, FiguresTypeCorrect, PTL DEF FiguresSpec, WeekTurns

-----------------------------------------------------------------------------
(* The model files.                                                        *)

Trainings == [at : 0 .. 4, seen : Versions, writing : BOOLEAN]
FileStates == [is : {"absent", "partial", "mixed", "whole"}, v : Versions]
Requests == [at : {"free", "asking", "loading", "storing"}, of : Models, sound : BOOLEAN,
             got : Versions \cup {Mixture}, since : SUBSET Versions]

\* The values that each variable has, one by one.
LEMMA ModelsTypes ==
  TypeOK <=> /\ data \in 1 .. MaxData /\ queue \in 0 .. MaxQueue /\ aborts \in 0 .. MaxAborts
             /\ trainer \in [Trainers -> Trainings] /\ file \in [Models -> FileStates]
             /\ cache \in [Models -> SUBSET (Versions \cup {Mixture})]
             /\ reader \in [Readers -> Requests] /\ overlapped \in BOOLEAN
  BY DEF TypeOK, Trainings, FileStates, Requests

\* The records the actions start from, and what is true of the bounds.
LEMMA ModelsConstants ==
  /\ Idle \in Trainings /\ Free \in Requests
  /\ 0 \in Versions /\ Models = {1, 2, 3} /\ Mixture \notin Versions
  /\ \A v \in Versions : {v} \in SUBSET Versions
  /\ \A v \in Versions : v > 0 => Enough[v] \subseteq Models
  BY BoundsAssumption DEF Idle, Free, Trainings, Requests, Versions, Models, Mixture

\* What is there before the first request and the first training.
LEMMA InitIInv == Init => IInv
<1> SUFFICES ASSUME Init PROVE IInv
  OBVIOUS
<1> USE BoundsAssumption DEF Init
<1>1. overlapped \in BOOLEAN
  BY Zenon
<1>2. TypeOK
  BY <1>1, ModelsTypes, ModelsConstants DEF FileStates, Versions
<1>3. WritersHaveRows /\ WritersKnown /\ LoadsSound /\ RegularLoads /\ TrainedInOrder
  BY DEF WritersHaveRows, WritersKnown, LoadsSound, RegularLoads, TrainedInOrder, Writes,
         Idle, Free
<1> QED
  BY <1>2, <1>3 DEF IInv

\* A request under way in the record that an action gives it.
LEMMA ReaderTyped ==
  ASSUME TypeOK, NEW r \in Readers, NEW X \in Requests, reader' = [reader EXCEPT ![r] = X]
  PROVE  reader' \in [Readers -> Requests]
  BY ModelsTypes

\* The actions of a training keep the types.
LEMMA TrainsTyped ==
  ASSUME IInv, NEW t \in Trainers, Receive(t) \/ Trains(t) \/ Abort(t)
  PROVE  TypeOK'
<1> DEFINE m == trainer[t].at
<1> USE ModelsConstants DEF IInv
<1>0. trainer[t] \in Trainings /\ trainer \in [Trainers -> Trainings] /\ file \in [Models -> FileStates]
  BY ModelsTypes
<1>1. CASE Receive(t)
  <2>1. overlapped' \in BOOLEAN
    BY <1>1, Zenon DEF Receive
  <2>2. [trainer[t] EXCEPT !.at = 1] \in Trainings
    BY <1>0 DEF Trainings
  <2>3. trainer' \in [Trainers -> Trainings]
    BY <1>0, <1>1, <2>2 DEF Receive
  <2> QED
    BY <1>1, <2>1, <2>3, BoundsAssumption DEF Receive, TypeOK, Trainings
<1>2. CASE SelectFeatures(t)
  <2>0. data \in Versions
    BY ModelsTypes, BoundsAssumption DEF Versions
  <2>1. [trainer[t] EXCEPT !.seen = data] \in Trainings
    BY <1>0, <2>0 DEF Trainings
  <2>2. trainer' \in [Trainers -> Trainings]
    BY <1>0, <1>2, <2>1 DEF SelectFeatures
  <2> QED
    BY <1>2, <2>2 DEF SelectFeatures, TypeOK, Trainings
<1>3. CASE SkipTraining(t)
  <2>1. m \in {1, 2, 3}
    BY <1>3 DEF SkipTraining, WritersHaveRows
  <2>2. [Idle EXCEPT !.at = m + 1] \in Trainings
    <3>1. m + 1 \in 0 .. 4
      BY <2>1
    <3> HIDE DEF m
    <3> QED
      BY <3>1 DEF Trainings, Idle
  <2>3. trainer' \in [Trainers -> Trainings]
    BY <1>3, <2>2, <1>0 DEF SkipTraining
  <2> QED
    BY <1>3, <2>3 DEF SkipTraining, TypeOK, Trainings
<1>4. CASE OpenFile(t)
  <2>1. [trainer[t] EXCEPT !.writing = TRUE] \in Trainings
    BY <1>0 DEF Trainings
  <2>2. trainer' \in [Trainers -> Trainings]
    BY <1>0, <1>4, <2>1 DEF OpenFile
  <2>3. m \in Models
    BY <1>4 DEF OpenFile, WritersHaveRows
  <2>4. file' \in [Models -> FileStates]
    BY <1>0, <1>4, <2>3 DEF OpenFile, FileStates
  <2>5. \A r \in Readers : reader[r] \in Requests /\ [reader[r] EXCEPT !.sound = FALSE] \in Requests
    BY ModelsTypes DEF Requests
  <2>6. reader' \in [Readers -> Requests]
    BY <1>4, <2>5 DEF OpenFile
  <2> QED
    BY <1>4, <2>2, <2>4, <2>6 DEF OpenFile, TypeOK, Trainings, FileStates, Requests
<1>5. CASE CloseFile(t)
  <2>1. m \in {1, 2, 3} /\ trainer[t].seen \in Versions
    BY <1>0, <1>5 DEF CloseFile, WritersHaveRows, Trainings
  <2>2. [Idle EXCEPT !.at = m + 1] \in Trainings
    <3>1. m + 1 \in 0 .. 4
      BY <2>1
    <3> HIDE DEF m
    <3> QED
      BY <3>1 DEF Trainings, Idle
  <2>3. trainer' \in [Trainers -> Trainings]
    BY <1>5, <2>2, <1>0 DEF CloseFile
  <2>4. \A is \in Closed(t, m) : [is |-> is, v |-> trainer[t].seen] \in FileStates
    BY <2>1 DEF Closed, FileStates
  <2>5. file' \in [Models -> FileStates]
    BY <1>0, <1>5, <2>4 DEF CloseFile
  <2>6. \A r \in Readers : reader[r] \in Requests
                           /\ [reader[r] EXCEPT !.since = @ \cup {trainer[t].seen}] \in Requests
    BY <2>1, ModelsTypes DEF Requests
  <2>7. reader' \in [Readers -> Requests]
    BY <1>5, <2>6 DEF CloseFile
  <2> QED
    BY <1>5, <2>3, <2>5, <2>7 DEF CloseFile, TypeOK, Trainings, FileStates, Requests
<1>6. CASE DropAnswers(t)
  BY <1>0, <1>6, ModelsTypes DEF DropAnswers, TypeOK, Trainings
<1>7. CASE Abort(t)
  <2>1. trainer' \in [Trainers -> Trainings]
    BY <1>0, <1>7 DEF Abort
  <2> QED
    BY <1>7, <2>1, BoundsAssumption DEF Abort, TypeOK, Trainings
<1> QED
  BY <1>1, <1>2, <1>3, <1>4, <1>5, <1>6, <1>7 DEF Trains

\* So do those of a request.
LEMMA AnswersTyped ==
  ASSUME IInv, NEW r \in Readers, Answers(r) \/ (\E m \in Models : Ask(r, m))
  PROVE  TypeOK'
<1> DEFINE f == file[reader[r].of]
<1> USE ModelsConstants DEF IInv
<1>0. reader[r] \in Requests /\ reader \in [Readers -> Requests] /\ f \in FileStates
      /\ f.v \in Versions
  BY ModelsTypes DEF Requests, FileStates
<1>1. ASSUME NEW X \in Requests, reader' = [reader EXCEPT ![r] = X],
             UNCHANGED <<data, queue, trainer, file, overlapped, aborts>>,
             cache' \in [Models -> SUBSET (Versions \cup {Mixture})]
      PROVE  TypeOK'
  <2>1. reader' \in [Readers -> Requests]
    BY <1>1, ReaderTyped
  <2> QED
    BY <1>1, <2>1 DEF TypeOK, Requests
<1>2. cache \in [Models -> SUBSET (Versions \cup {Mixture})]
  BY ModelsTypes
<1>3. ASSUME NEW m \in Models, Ask(r, m) PROVE TypeOK'
  <2>1. [Free EXCEPT !.at = "asking", !.of = m] \in Requests
    BY DEF Requests
  <2> QED
    BY <1>1, <1>2, <1>3, <2>1 DEF Ask
<1>4. CASE NoModel(r)
  <2>1. [reader[r] EXCEPT !.at = "storing"] \in Requests
    BY <1>0 DEF Requests
  <2> QED
    BY <1>1, <1>2, <1>4, <2>1 DEF NoModel
<1>5. CASE BeginLoad(r)
  <2>1. (f.is = "whole") \in BOOLEAN
    BY Zenon
  <2>2. [reader[r] EXCEPT !.at = "loading", !.sound = (f.is = "whole"), !.since = {f.v}] \in Requests
    BY <1>0, <2>1 DEF Requests
  <2> QED
    BY <1>1, <1>2, <1>5, <2>2 DEF BeginLoad
<1>6. ASSUME NEW g \in Versions \cup {Mixture}
      PROVE  [reader[r] EXCEPT !.at = "storing", !.got = g] \in Requests
  BY <1>0 DEF Requests
<1>7. CASE EndLoad(r)
  <2> DEFINE X == [reader[r] EXCEPT !.at = "storing", !.got = f.v]
  <2>1. X \in Requests
    BY <1>0, <1>6
  <2>2. reader' = [reader EXCEPT ![r] = X]
    BY <1>7 DEF EndLoad
  <2> HIDE DEF X
  <2> QED
    BY <1>1, <1>2, <1>7, <2>1, <2>2 DEF EndLoad
<1>8. CASE LoadMixture(r)
  <2>1. PICK g \in {f.v, Mixture} : reader' = [reader EXCEPT ![r] = [@ EXCEPT !.at = "storing", !.got = g]]
    BY <1>8 DEF LoadMixture
  <2> DEFINE X == [reader[r] EXCEPT !.at = "storing", !.got = g]
  <2>2. X \in Requests
    BY <1>0, <1>6
  <2>3. reader' = [reader EXCEPT ![r] = X]
    BY <2>1
  <2> HIDE DEF X
  <2> QED
    BY <1>1, <1>2, <1>8, <2>2, <2>3 DEF LoadMixture
<1>9. CASE LoadRaises(r)
  BY <1>1, <1>2, <1>9 DEF LoadRaises
<1>10. CASE Store(r)
  <2>1. reader[r].of \in Models /\ reader[r].got \in Versions \cup {Mixture}
    BY <1>0 DEF Requests
  <2>2. cache' \in [Models -> SUBSET (Versions \cup {Mixture})]
    BY <1>2, <1>10, <2>1 DEF Store
  <2> QED
    BY <1>1, <1>10, <2>2 DEF Store
<1> QED
  BY <1>3, <1>4, <1>5, <1>7, <1>8, <1>9, <1>10 DEF Answers

\* Every step keeps the types.
LEMMA TypeStep == IInv /\ [Next]_vars => TypeOK'
<1> SUFFICES ASSUME IInv, [Next]_vars PROVE TypeOK'
  OBVIOUS
<1> USE BoundsAssumption DEF IInv
<1>1. CASE Write \/ TriggerRetrain \/ UNCHANGED vars
  BY <1>1 DEF Write, TriggerRetrain, vars, TypeOK
<1>2. CASE \E m \in Models : Expire(m)
  BY <1>2 DEF Expire, TypeOK
<1> QED
  BY <1>1, <1>2, TrainsTyped, AnswersTyped DEF Next

\* A training moves to the next model with nothing in its hands.
LEMMA RowsStep == IInv /\ [Next]_vars => WritersHaveRows'
<1> SUFFICES ASSUME IInv, [Next]_vars PROVE WritersHaveRows'
  OBVIOUS
<1> USE ModelsConstants DEF IInv, WritersHaveRows, Idle
<1>0. trainer \in [Trainers -> Trainings]
  BY ModelsTypes
<1>1. ASSUME NEW t \in Trainers, Receive(t) \/ Trains(t) \/ Abort(t) PROVE WritersHaveRows'
  <2>1. CASE Receive(t)
    BY <1>0, <2>1 DEF Receive
  <2>2. CASE SelectFeatures(t)
    BY <1>0, <2>2 DEF SelectFeatures
  <2>3. CASE SkipTraining(t)
    BY <1>0, <2>3 DEF SkipTraining
  <2>4. CASE OpenFile(t)
    BY <1>0, <2>4 DEF OpenFile
  <2>5. CASE CloseFile(t)
    BY <1>0, <2>5 DEF CloseFile
  <2>6. CASE DropAnswers(t) \/ Abort(t)
    BY <1>0, <2>6 DEF DropAnswers, Abort
  <2> QED
    BY <1>1, <2>1, <2>2, <2>3, <2>4, <2>5, <2>6 DEF Trains
<1>2. CASE UNCHANGED trainer
  BY <1>2
<1> QED
  BY <1>1, <1>2 DEF Next, vars, Write, TriggerRetrain, Answers, NoModel, BeginLoad, EndLoad,
     LoadRaises, LoadMixture, Store, Ask, Expire

\* A training that opens a file another one writes leaves it mixed, and only the
\* last to close one may find it whole.
LEMMA WritersStep == IInv /\ [Next]_vars => WritersKnown'
<1> SUFFICES ASSUME IInv, [Next]_vars PROVE WritersKnown'
  OBVIOUS
<1> USE ModelsConstants DEF IInv, WritersKnown, Writes
<1>0. trainer \in [Trainers -> Trainings] /\ file \in [Models -> FileStates]
  BY ModelsTypes
<1>1. ASSUME NEW t \in Trainers, Receive(t) \/ Trains(t) \/ Abort(t) PROVE WritersKnown'
  <2>1. CASE Receive(t)
    BY <1>0, <2>1 DEF Receive, WritersHaveRows
  <2>2. CASE SelectFeatures(t)
    BY <1>0, <2>2 DEF SelectFeatures
  <2>3. CASE SkipTraining(t)
    BY <1>0, <2>3 DEF SkipTraining, Idle
  <2>4. CASE OpenFile(t)
    <3>1. trainer[t].at \in Models
      BY <2>4 DEF OpenFile, WritersHaveRows
    <3>2. \A m \in Models \ {trainer[t].at} : file'[m] = file[m] /\ \A u \in Trainers : Writes(u, m)' <=> Writes(u, m)
      BY <1>0, <2>4 DEF OpenFile
    <3>4. file'[trainer[t].at].is = IF OthersWrite(t, trainer[t].at) THEN "mixed" ELSE "partial"
      BY <1>0, <2>4, <3>1 DEF OpenFile, FileStates
    <3>5. ASSUME NEW k \in Models, k = trainer[t].at
          PROVE  file'[k].is = "partial" => \A u \in Trainers : Writes(u, k)' => u = t
      <4>1. \A u \in Trainers \ {t} : Writes(u, k)' <=> Writes(u, k)
        BY <1>0, <2>4 DEF OpenFile
      <4> QED
        BY <3>4, <3>5, <4>1 DEF OthersWrite
    <3>6. file'[trainer[t].at].is # "whole"
      BY <3>4
    <3>7. ASSUME NEW m \in Models \ {trainer[t].at}
          PROVE  /\ file'[m].is = "whole" => \A u \in Trainers : ~Writes(u, m)'
                 /\ file'[m].is = "partial" => \A u, w \in Trainers : Writes(u, m)' /\ Writes(w, m)' => u = w
      <4> USE <3>2
      <4> QED
        BY DEF WritersKnown
    <3>8. ASSUME NEW m \in Models
          PROVE  /\ file'[m].is = "whole" => \A u \in Trainers : ~Writes(u, m)'
                 /\ file'[m].is = "partial" => \A u, w \in Trainers : Writes(u, m)' /\ Writes(w, m)' => u = w
      <4>1. CASE m = trainer[t].at
        BY <4>1, <3>5, <3>6
      <4> QED
        BY <4>1, <3>7
    <3> QED
      BY <3>8
  <2>5. CASE CloseFile(t)
    <3>1. trainer[t].at \in Models /\ ~trainer'[t].writing
      BY <1>0, <2>5 DEF CloseFile, WritersHaveRows, Idle
    <3>2. \A m \in Models \ {trainer[t].at} : file'[m] = file[m] /\ \A u \in Trainers : Writes(u, m)' => Writes(u, m)
      BY <1>0, <2>5, <3>1 DEF CloseFile
    <3>3. \A u \in Trainers \ {t} : trainer'[u] = trainer[u]
      BY <1>0, <2>5 DEF CloseFile
    <3>4. file'[trainer[t].at].is \in Closed(t, trainer[t].at)
      BY <1>0, <2>5, <3>1 DEF CloseFile
    <3>5. file'[trainer[t].at].is = "whole" => ~OthersWrite(t, trainer[t].at)
      BY <2>5, <3>1, <3>4 DEF Closed, OthersWrite, CloseFile
    <3>6. file'[trainer[t].at].is # "partial"
      BY <3>4 DEF Closed
    <3> QED
      BY <3>1, <3>2, <3>3, <3>5, <3>6 DEF OthersWrite
  <2>6. CASE DropAnswers(t) \/ Abort(t)
    BY <1>0, <2>6 DEF DropAnswers, Abort, Idle
  <2> QED
    BY <1>1, <2>1, <2>2, <2>3, <2>4, <2>5, <2>6 DEF Trains
<1>2. CASE UNCHANGED <<trainer, file>>
  BY <1>2
<1> QED
  BY <1>1, <1>2 DEF Next, vars, Write, TriggerRetrain, Answers, NoModel, BeginLoad, EndLoad,
     LoadRaises, LoadMixture, Store, Ask, Expire

\* An undisturbed load keeps its file, for opening it disturbs the load and only
\* a training that opened it closes it.
LEMMA LoadsStep == IInv /\ [Next]_vars => LoadsSound' /\ RegularLoads'
<1> SUFFICES ASSUME IInv, [Next]_vars PROVE LoadsSound' /\ RegularLoads'
  OBVIOUS
<1> USE ModelsConstants DEF IInv, LoadsSound, RegularLoads
<1>0. /\ reader \in [Readers -> Requests] /\ file \in [Models -> FileStates]
      /\ \A r \in Readers : reader[r] \in Requests /\ reader[r].of \in Models
  BY ModelsTypes DEF Requests
<1>1. ASSUME NEW t \in Trainers, OpenFile(t) PROVE LoadsSound' /\ RegularLoads'
  BY <1>0, <1>1 DEF OpenFile, Requests
<1>2. ASSUME NEW t \in Trainers, CloseFile(t) PROVE LoadsSound' /\ RegularLoads'
  <2> DEFINE m == trainer[t].at
  <2>1. Writes(t, m) /\ m \in Models
    BY <1>2 DEF CloseFile, Writes, WritersHaveRows
  <2>2. file[m].is # "whole"
    BY <2>1 DEF WritersKnown
  <2>3. \A k \in Models \ {m} : file'[k] = file[k]
    BY <1>0, <1>2 DEF CloseFile
  <2>4. \A r \in Readers :
          /\ reader'[r].at = reader[r].at /\ reader'[r].of = reader[r].of
          /\ reader'[r].sound = reader[r].sound /\ reader'[r].got = reader[r].got
          /\ reader[r].since \subseteq reader'[r].since
          /\ reader[r].at # "loading" => reader'[r] = reader[r]
    BY <1>0, <1>2 DEF CloseFile, Requests
  <2> HIDE DEF m
  <2>5. LoadsSound'
    BY <1>0, <2>1, <2>2, <2>3, <2>4 DEF LoadsSound
  <2>6. RegularLoads'
    <3>1. \A r \in Readers : reader[r].at = "storing" => reader'[r] = reader[r]
      BY <2>4
    <3> QED
      BY <2>4, <3>1 DEF RegularLoads
  <2> QED
    BY <2>5, <2>6
<1>3. ASSUME NEW r \in Readers, Answers(r) \/ (\E m \in Models : Ask(r, m))
      PROVE  LoadsSound' /\ RegularLoads'
  <2> DEFINE f == file[reader[r].of]
  <2>0. reader[r] \in Requests /\ f \in FileStates
    BY <1>0
  <2>1. ASSUME NEW m \in Models, Ask(r, m) PROVE LoadsSound' /\ RegularLoads'
    BY <1>0, <2>1 DEF Ask, Free
  <2>2. CASE NoModel(r)
    BY <1>0, <2>0, <2>2 DEF NoModel, Requests
  <2>3. CASE BeginLoad(r)
    BY <1>0, <2>0, <2>3 DEF BeginLoad, Requests
  <2>4. CASE EndLoad(r)
    BY <1>0, <2>0, <2>4 DEF EndLoad, Requests
  <2>5. CASE LoadMixture(r)
    BY <1>0, <2>0, <2>5 DEF LoadMixture, Requests
  <2>6. CASE LoadRaises(r) \/ Store(r)
    BY <1>0, <2>0, <2>6 DEF LoadRaises, Store, Free
  <2> QED
    BY <1>3, <2>1, <2>2, <2>3, <2>4, <2>5, <2>6 DEF Answers
<1>4. CASE UNCHANGED <<reader, file>>
  BY <1>4
<1> QED
  BY <1>1, <1>2, <1>3, <1>4 DEF Next, vars, Write, TriggerRetrain, Receive, Trains, SelectFeatures,
     SkipTraining, DropAnswers, Abort, Expire

\* A training that reads the tables after the last one ended is ahead of every
\* file, and nobody else writes until it ends.
LEMMA OrderStep == IInv /\ [Next]_vars => TrainedInOrder'
<1> SUFFICES ASSUME IInv, [Next]_vars PROVE TrainedInOrder'
  OBVIOUS
<1> USE DEF TrainedInOrder
<1>0. /\ trainer \in [Trainers -> Trainings] /\ file \in [Models -> FileStates] /\ data \in Nat
      /\ \A t \in Trainers : trainer[t].seen \in Nat /\ trainer[t].at \in Nat
      /\ \A m \in Models : file[m].v \in Nat
      /\ Idle.at = 0 /\ Idle.seen = 0
  <2>1. trainer \in [Trainers -> Trainings] /\ file \in [Models -> FileStates]
    BY ModelsTypes DEF IInv
  <2>2. data \in Nat /\ Idle.at = 0 /\ Idle.seen = 0
    BY ModelsTypes, BoundsAssumption DEF IInv, Idle
  <2>3. \A t \in Trainers : trainer[t].seen \in Nat /\ trainer[t].at \in Nat
    BY <2>1, BoundsAssumption DEF Trainings, Versions
  <2>4. \A m \in Models : file[m].v \in Nat
    BY <2>1, BoundsAssumption DEF FileStates, Versions
  <2> QED
    BY <2>1, <2>2, <2>3, <2>4
<1>1. \A t \in Trainers : trainer[t].seen > 0 => trainer[t].at \in Models /\ trainer[t].at > 0
  BY DEF IInv, WritersHaveRows, Models
<1>2. TrainedInOrder
  BY DEF IInv
<1>3. ASSUME NEW t \in Trainers, Receive(t) PROVE TrainedInOrder'
  <2>1. /\ \A u \in Trainers \ {t} : trainer'[u] = trainer[u]
        /\ trainer'[t].seen = trainer[t].seen
        /\ file' = file /\ data' = data
    BY <1>0, <1>3 DEF Receive, Trainings
  <2>2. overlapped' <=> overlapped \/ \E u \in Trainers : trainer[u].at > 0
    BY <1>3, Zenon DEF Receive
  <2>3. CASE \E u \in Trainers : trainer[u].at > 0
    BY <1>0, <1>2, <2>1, <2>2, <2>3
  <2>4. CASE \A u \in Trainers : ~(trainer[u].at > 0)
    BY <1>0, <1>1, <1>2, <2>1, <2>2, <2>4
  <2> QED
    BY <2>3, <2>4
<1>4. ASSUME NEW t \in Trainers, SelectFeatures(t) PROVE TrainedInOrder'
  <2>1. /\ \A u \in Trainers \ {t} : trainer'[u] = trainer[u]
        /\ trainer'[t].seen = data /\ trainer'[t].at = trainer[t].at
        /\ file' = file /\ data' = data /\ overlapped' = overlapped
    BY <1>0, <1>4 DEF SelectFeatures, Trainings
  <2> QED
    BY <1>0, <1>2, <2>1
<1>5. ASSUME NEW t \in Trainers, OpenFile(t) PROVE TrainedInOrder'
  <2>1. /\ \A u \in Trainers : trainer'[u].seen = trainer[u].seen /\ trainer'[u].at = trainer[u].at
        /\ \A m \in Models : file'[m].v = file[m].v
        /\ data' = data /\ overlapped' = overlapped
    BY <1>0, <1>5 DEF OpenFile, Trainings, FileStates
  <2> QED
    BY <1>0, <1>2, <2>1
<1>6. ASSUME NEW t \in Trainers, CloseFile(t) PROVE TrainedInOrder'
  <2> DEFINE k == trainer[t].at
  <2>1. k \in Models /\ trainer[t].seen > 0
    BY <1>6, <1>1 DEF CloseFile, IInv, WritersHaveRows
  <2>2. /\ \A u \in Trainers \ {t} : trainer'[u] = trainer[u]
        /\ trainer'[t].seen = 0
        /\ data' = data /\ overlapped' = overlapped
    BY <1>0, <1>6 DEF CloseFile, Idle
  <2>3. /\ \A m \in Models \ {k} : file'[m] = file[m]
        /\ file'[k].v = trainer[t].seen
    BY <1>0, <1>6, <2>1 DEF CloseFile
  <2>4. \A m \in Models : file'[m].v <= data
    BY <1>0, <1>2, <2>3
  <2>5. \A u \in Trainers : trainer'[u].seen <= data
    BY <1>0, <1>2, <2>2
  <2>6. ~overlapped => \A u \in Trainers \ {t} : ~(trainer[u].at > 0) /\ ~(trainer[u].seen > 0)
    BY <1>1, <1>2, <2>1
  <2> QED
    BY <1>0, <2>2, <2>4, <2>5, <2>6
<1>7. ASSUME NEW t \in Trainers, trainer' = [trainer EXCEPT ![t] = Idle]
             \/ trainer' = [trainer EXCEPT ![t] = [Idle EXCEPT !.at = trainer[t].at + 1]],
             trainer[t].at > 0, file' = file, data' = data, overlapped' = overlapped
      PROVE TrainedInOrder'
  <2>1. (\A u \in Trainers \ {t} : trainer'[u] = trainer[u]) /\ trainer'[t].seen = 0
    BY <1>0, <1>7 DEF Idle
  <2> QED
    BY <1>0, <1>2, <1>7, <2>1
<1>8. ASSUME NEW t \in Trainers, SkipTraining(t) \/ DropAnswers(t) \/ Abort(t)
      PROVE  TrainedInOrder'
  BY <1>1, <1>7, <1>8 DEF SkipTraining, DropAnswers, Abort
<1>9. CASE Write
  BY <1>0, <1>2, <1>9 DEF Write
<1>10. CASE UNCHANGED <<trainer, file, data, overlapped>>
  BY <1>2, <1>10
<1> QED
  BY <1>3, <1>4, <1>5, <1>6, <1>8, <1>9, <1>10
  DEF Next, Trains, vars, TriggerRetrain, Answers, NoModel, BeginLoad, EndLoad, LoadRaises,
      LoadMixture, Store, Ask, Expire

\* Only the close of a file changes the version of its model.
LEMMA NeverOlderStep ==
  ASSUME IInv, [Next]_vars, ~overlapped, NEW m \in Models
  PROVE  file'[m].v >= file[m].v
<1>0. /\ trainer \in [Trainers -> Trainings] /\ file \in [Models -> FileStates]
      /\ \A k \in Models : file[k].v \in Nat
  BY ModelsTypes, BoundsAssumption DEF IInv, FileStates, Versions
<1>1. ASSUME NEW t \in Trainers, OpenFile(t) PROVE file'[m].v >= file[m].v
  <2>1. file'[m].v = file[m].v
    BY <1>0, <1>1 DEF OpenFile, FileStates
  <2> QED
    BY <1>0, <2>1
<1>2. ASSUME NEW t \in Trainers, CloseFile(t) PROVE file'[m].v >= file[m].v
  <2>1. trainer[t].seen > 0 /\ trainer[t].seen \in Nat
    BY <1>0, <1>2, BoundsAssumption DEF CloseFile, IInv, WritersHaveRows, Trainings, Versions
  <2>2. file'[m] = file[m] \/ file'[m].v = trainer[t].seen
    BY <1>0, <1>2 DEF CloseFile
  <2> QED
    BY <1>0, <2>1, <2>2 DEF IInv, TrainedInOrder
<1>3. CASE file' = file
  BY <1>0, <1>3
<1> QED
  BY <1>1, <1>2, <1>3
  DEF Next, vars, Write, TriggerRetrain, Receive, Trains, SelectFeatures, SkipTraining,
      DropAnswers, Abort, Answers, NoModel, BeginLoad, EndLoad, LoadRaises, LoadMixture, Store,
      Ask, Expire

\* For any number of processes and requests, whatever retrainings fail or overlap:
\* the bookkeeping of writers and loads is right in every state.
THEOREM ModelsInvariance == Spec => []IInv
<1>1. IInv /\ [Next]_vars => IInv'
  BY TypeStep, RowsStep, WritersStep, LoadsStep, OrderStep DEF IInv
<1> QED
  BY InitIInv, <1>1, PTL DEF Spec

\* Every variable keeps its type.
THEOREM ModelsTypeCorrect == Spec => []TypeOK
<1>1. IInv => TypeOK
  BY DEF IInv
<1> QED
  BY ModelsInvariance, <1>1, PTL

\* What a request predicts with was the last model written when its load began or
\* since, unless the bytes of two of them were mixed.
THEOREM LoadsAreRegular == Spec => []RegularLoads
<1>1. IInv => RegularLoads
  BY DEF IInv
<1> QED
  BY ModelsInvariance, <1>1, PTL

\* Until two trainings overlap, a model is replaced by one of rows at least as
\* recent: for any number of processes, failures and versions of the tables.
THEOREM ModelsNeverGetOlder == Spec => NeverOlder
<1>1. IInv /\ [Next]_vars => [overlapped \/ \A m \in Models : file'[m].v >= file[m].v]_vars
  BY NeverOlderStep
<1> QED
  BY ModelsInvariance, <1>1, PTL DEF Spec, NeverOlder
=============================================================================

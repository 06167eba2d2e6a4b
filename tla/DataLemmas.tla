----------------------------- MODULE DataLemmas -----------------------------
(***************************************************************************)
(* Facts about natural numbers, finite sets, sums and codes that the proofs *)
(* share.                                                                   *)
(* Induction is by a smallest counterexample: the library's theorem that    *)
(* the naturals are well founded is about sets, and so can be cited, where  *)
(* its induction rules are about operators, and cannot.                     *)
(***************************************************************************)
EXTENDS Base62, Functions, Integers, FiniteSets, FiniteSetTheorems, WellFoundedInduction, TLAPS

LEMMA Smallest ==
    ASSUME NEW T \in SUBSET Nat, T # {}
    PROVE  \E n \in T : \A m \in T : n <= m
<1>1. PICK n \in T : \A m \in T : ~(<<m, n>> \in OpToRel(<, Nat))
  <2> HIDE DEF OpToRel
  <2> QED BY NatLessThanWellFounded, WFMin
<1>2. \A m \in T : ~(m < n)
  BY <1>1 DEF OpToRel
<1> QED BY <1>2

(* What holds of a set when it holds of what is left by taking out any one   *)
(* element holds of every finite set.                                        *)
LEMMA FiniteInduction ==
    ASSUME NEW S, IsFiniteSet(S), NEW Good,
           \A T \in SUBSET S : (\A x \in T : T \ {x} \in Good) => T \in Good
    PROVE  S \in Good
<1> SUFFICES ASSUME S \notin Good PROVE FALSE
  OBVIOUS
<1> DEFINE Sizes == {n \in Nat : \E T \in SUBSET S : T \notin Good /\ Cardinality(T) = n}
<1>1. Cardinality(S) \in Sizes
  BY FS_CardinalityType
<1>2. PICK n \in Sizes : \A m \in Sizes : n <= m
  BY <1>1, Smallest
<1>3. PICK T \in SUBSET S : T \notin Good /\ Cardinality(T) = n
  BY <1>2
<1>4. ASSUME NEW x \in T PROVE T \ {x} \in Good
  <2>1. IsFiniteSet(T)
    BY FS_Subset
  <2>2. T \ {x} \in SUBSET S /\ Cardinality(T \ {x}) = n - 1 /\ n - 1 \in Nat
    <3>1. Cardinality(T \ {x}) = n - 1 /\ IsFiniteSet(T \ {x})
      BY <2>1, <1>3, FS_RemoveElement
    <3>2. n - 1 \in Nat
      BY <3>1, FS_CardinalityType
    <3> QED BY <3>1, <3>2
  <2>3. n - 1 \notin Sizes
    BY <1>2, <2>2
  <2> QED BY <2>2, <2>3
<1> QED BY <1>3, <1>4

-----------------------------------------------------------------------------
(* Sums over a finite set: the community module folds with an iterator it    *)
(* chooses, which exists, and for which the order of the terms is immaterial. *)
Pick(s) == CHOOSE x \in s : TRUE
Sums(it, fun, D) ==
    it = [s \in D |-> IF s = {} THEN 0 ELSE fun[Pick(s)] + it[s \ {Pick(s)}]]

LEMMA SumIsChosen ==
    ASSUME NEW fun, NEW S
    PROVE  SumFunctionOnSet(fun, S) = (CHOOSE it : Sums(it, fun, SUBSET S))[S]
BY DEF SumFunctionOnSet, FoldFunctionOnSet, MapThenFoldSet, Sums, Pick

LEMMA PickIn ==
    ASSUME NEW s, s # {}
    PROVE  Pick(s) \in s
BY DEF Pick

LEMMA SumsExist ==
    ASSUME NEW fun, NEW S, IsFiniteSet(S)
    PROVE  \E it : Sums(it, fun, SUBSET S)
<1> DEFINE UpTo(n) == {s \in SUBSET S : Cardinality(s) <= n}
           Bad == {n \in Nat : ~ \E it : Sums(it, fun, UpTo(n))}
<1>0. \A s \in SUBSET S : IsFiniteSet(s) /\ Cardinality(s) \in Nat /\ Cardinality(s) <= Cardinality(S)
  BY FS_Subset, FS_CardinalityType
<1>1. Bad = {}
  <2> SUFFICES ASSUME Bad # {} PROVE FALSE
    OBVIOUS
  <2>1. PICK n \in Bad : \A m \in Bad : n <= m
    BY Smallest
  <2>2. CASE n = 0
    <3> DEFINE it == [s \in UpTo(n) |-> 0]
    <3>1. \A s \in UpTo(n) : s = {}
      BY <1>0, <2>2, FS_EmptySet
    <3>2. Sums(it, fun, UpTo(n))
      <4> HIDE DEF UpTo
      <4>1. it = [s \in UpTo(n) |-> IF s = {} THEN 0 ELSE fun[Pick(s)] + it[s \ {Pick(s)}]]
        BY <3>1
      <4> QED BY <4>1 DEF Sums
    <3> QED BY <3>2, <2>1
  <2>3. CASE n # 0
    <3>0. n \in Nat
      BY <2>1
    <3>1. n - 1 \in Nat /\ n - 1 \notin Bad
      <4> HIDE DEF Bad
      <4> QED BY <2>1, <2>3, <3>0
    <3>2. PICK g : Sums(g, fun, UpTo(n - 1))
      BY <3>1
    <3> DEFINE it == [s \in UpTo(n) |-> IF s = {} THEN 0 ELSE fun[Pick(s)] + g[s \ {Pick(s)}]]
    <3>3. ASSUME NEW s \in UpTo(n), s # {}
          PROVE  it[s \ {Pick(s)}] = g[s \ {Pick(s)}]
      <4>1. Pick(s) \in s
        BY <3>3, PickIn
      <4> DEFINE r == s \ {Pick(s)}
      <4>2. Cardinality(r) = Cardinality(s) - 1
        BY <4>1, <1>0, FS_RemoveElement
      <4>3. r \in UpTo(n) /\ r \in UpTo(n - 1)
        BY <4>2, <1>0, <3>0
      <4>4. it[r] = IF r = {} THEN 0 ELSE fun[Pick(r)] + g[r \ {Pick(r)}]
        BY <4>3
      <4>5. g[r] = IF r = {} THEN 0 ELSE fun[Pick(r)] + g[r \ {Pick(r)}]
        <5> HIDE DEF r, UpTo
        <5> QED BY <4>3, <3>2 DEF Sums
      <4> QED BY <4>4, <4>5
    <3>4. Sums(it, fun, UpTo(n))
      <4> HIDE DEF UpTo
      <4>1. \A s \in UpTo(n) : it[s] = IF s = {} THEN 0 ELSE fun[Pick(s)] + it[s \ {Pick(s)}]
        BY <3>3
      <4> QED BY <4>1 DEF Sums
    <3> QED BY <3>4, <2>1
  <2> QED BY <2>2, <2>3
<1>2. UpTo(Cardinality(S)) = SUBSET S
  BY <1>0
<1>3. Cardinality(S) \in Nat
  BY FS_CardinalityType
<1> QED BY <1>1, <1>2, <1>3

LEMMA SumsAgree ==
    ASSUME NEW fun, NEW S, IsFiniteSet(S), NEW T \in SUBSET S, NEW f, NEW g,
           Sums(f, fun, SUBSET S), Sums(g, fun, SUBSET T)
    PROVE  f[T] = g[T]
<1> DEFINE Good == {s \in SUBSET T : f[s] = g[s]}
<1>1. IsFiniteSet(T)
  BY FS_Subset
<1>2. ASSUME NEW s \in SUBSET T, \A x \in s : s \ {x} \in Good PROVE s \in Good
  <2>1. f[s] = IF s = {} THEN 0 ELSE fun[Pick(s)] + f[s \ {Pick(s)}]
    <3>1. s \in SUBSET S
      OBVIOUS
    <3> QED BY <3>1 DEF Sums
  <2>2. g[s] = IF s = {} THEN 0 ELSE fun[Pick(s)] + g[s \ {Pick(s)}]
    BY DEF Sums
  <2>3. s # {} => f[s \ {Pick(s)}] = g[s \ {Pick(s)}]
    BY <1>2, PickIn
  <2> QED BY <2>1, <2>2, <2>3
<1>3. T \in Good
  <2> HIDE DEF Good
  <2> QED BY <1>1, <1>2, FiniteInduction
<1> QED BY <1>3

LEMMA SumHasIterator ==
    ASSUME NEW fun, NEW S, IsFiniteSet(S)
    PROVE  \E f : Sums(f, fun, SUBSET S) /\ SumFunctionOnSet(fun, S) = f[S]
BY SumsExist, SumIsChosen

LEMMA SumEquation ==
    ASSUME NEW fun, NEW S, IsFiniteSet(S)
    PROVE  /\ S = {} => SumFunctionOnSet(fun, S) = 0
           /\ S # {} => SumFunctionOnSet(fun, S) =
                            fun[Pick(S)] + SumFunctionOnSet(fun, S \ {Pick(S)})
<1>1. PICK R \in SUBSET S : R = S \ {Pick(S)}
  OBVIOUS
<1>2. IsFiniteSet(R)
  BY FS_Subset
<1>3. PICK f : Sums(f, fun, SUBSET S) /\ SumFunctionOnSet(fun, S) = f[S]
  BY SumHasIterator
<1>4. PICK g : Sums(g, fun, SUBSET R) /\ SumFunctionOnSet(fun, R) = g[R]
  BY <1>2, SumHasIterator
<1>5. f[S] = IF S = {} THEN 0 ELSE fun[Pick(S)] + f[R]
  BY <1>1, <1>3 DEF Sums
<1>6. f[R] = g[R]
  BY <1>3, <1>4, SumsAgree
<1> QED BY <1>1, <1>3, <1>4, <1>5, <1>6

LEMMA SumType ==
    ASSUME NEW fun, NEW S, IsFiniteSet(S), \A x \in S : fun[x] \in Nat
    PROVE  SumFunctionOnSet(fun, S) \in Nat
<1> DEFINE Good == {T \in SUBSET S : SumFunctionOnSet(fun, T) \in Nat}
<1>1. ASSUME NEW T \in SUBSET S, \A x \in T : T \ {x} \in Good PROVE T \in Good
  <2>1. IsFiniteSet(T)
    BY FS_Subset
  <2>2. CASE T = {}
    <3>1. SumFunctionOnSet(fun, T) = 0
      BY <2>1, <2>2, SumEquation
    <3> QED BY <3>1
  <2>3. CASE T # {}
    <3>1. Pick(T) \in T
      BY <2>3, PickIn
    <3>2. SumFunctionOnSet(fun, T \ {Pick(T)}) \in Nat /\ fun[Pick(T)] \in Nat
      BY <1>1, <3>1
    <3>3. SumFunctionOnSet(fun, T) = fun[Pick(T)] + SumFunctionOnSet(fun, T \ {Pick(T)})
      BY <2>1, <2>3, SumEquation
    <3> QED BY <3>2, <3>3
  <2> QED BY <2>2, <2>3
<1>2. S \in Good
  <2> HIDE DEF Good
  <2> QED BY <1>1, FiniteInduction
<1> QED BY <1>2

(* Any element may be the first of the sum, whichever one is picked.         *)
LEMMA SumRemove ==
    ASSUME NEW fun, NEW S, IsFiniteSet(S), \A x \in S : fun[x] \in Nat, NEW x \in S
    PROVE  SumFunctionOnSet(fun, S) = fun[x] + SumFunctionOnSet(fun, S \ {x})
<1> DEFINE Sum(T) == SumFunctionOnSet(fun, T)
           Good == {T \in SUBSET S : \A y \in T : Sum(T) = fun[y] + Sum(T \ {y})}
<1>0. \A T \in SUBSET S : IsFiniteSet(T) /\ Sum(T) \in Nat
  BY FS_Subset, SumType
<1>1. ASSUME NEW T \in SUBSET S, \A y \in T : T \ {y} \in Good PROVE T \in Good
  <2> SUFFICES ASSUME NEW y \in T PROVE Sum(T) = fun[y] + Sum(T \ {y})
    OBVIOUS
  <2>1. PICK p \in T : p = Pick(T)
    BY PickIn
  <2>2. Sum(T) = fun[p] + Sum(T \ {p})
    BY <1>0, <2>1, SumEquation
  <2>3. CASE p = y
    BY <2>2, <2>3
  <2>4. CASE p # y
    <3>1. Sum(T \ {p}) = fun[y] + Sum((T \ {p}) \ {y})
      BY <1>1, <2>4
    <3>2. Sum(T \ {y}) = fun[p] + Sum((T \ {y}) \ {p})
      BY <1>1, <2>4
    <3>3. (T \ {p}) \ {y} = (T \ {y}) \ {p}
      OBVIOUS
    <3>4. fun[p] \in Nat /\ fun[y] \in Nat /\ Sum((T \ {y}) \ {p}) \in Nat
      BY <1>0
    <3> HIDE DEF Sum
    <3> QED BY <2>2, <3>1, <3>2, <3>3, <3>4
  <2> QED BY <2>3, <2>4
<1>2. S \in Good
  <2> HIDE DEF Good
  <2> QED BY <1>1, FiniteInduction
<1> QED BY <1>2

(* More and larger terms make no smaller sum.                                *)
LEMMA SumMonotone ==
    ASSUME NEW f, NEW g, NEW S, IsFiniteSet(S), NEW T \in SUBSET S,
           \A x \in S : f[x] \in Nat, \A x \in S : g[x] \in Nat,
           \A x \in T : f[x] <= g[x]
    PROVE  SumFunctionOnSet(f, T) <= SumFunctionOnSet(g, S)
<1> DEFINE F(V) == SumFunctionOnSet(f, V)
           G(V) == SumFunctionOnSet(g, V)
           Good == {V \in SUBSET S : F(V \cap T) <= G(V)}
<1>0. \A V \in SUBSET S : IsFiniteSet(V) /\ F(V) \in Nat /\ G(V) \in Nat
  BY FS_Subset, SumType
<1>1. ASSUME NEW V \in SUBSET S, \A y \in V : V \ {y} \in Good PROVE V \in Good
  <2>1. CASE V = {}
    <3>1. F({}) = 0
      <4>1. IsFiniteSet({})
        BY FS_EmptySet
      <4> QED BY <4>1, SumEquation
    <3>2. G({}) \in Nat /\ V \cap T = {}
      BY <1>0, <2>1
    <3> HIDE DEF F, G
    <3> QED BY <2>1, <3>1, <3>2
  <2>2. CASE V # {}
    <3>1. PICK p \in V : TRUE
      BY <2>2
    <3>2. G(V) = g[p] + G(V \ {p}) /\ V \ {p} \in SUBSET S
      BY <1>0, SumRemove
    <3>3. F((V \ {p}) \cap T) <= G(V \ {p})
      BY <1>1
    <3>4. CASE p \in T
      <4>1. V \cap T \in SUBSET S /\ p \in V \cap T
        BY <3>4
      <4>2. F(V \cap T) = f[p] + F((V \cap T) \ {p})
        BY <1>0, <4>1, SumRemove
      <4>3. F(V \cap T) = f[p] + F((V \ {p}) \cap T)
        <5>1. (V \cap T) \ {p} = (V \ {p}) \cap T
          OBVIOUS
        <5> QED BY <4>2, <5>1
      <4>4. /\ f[p] \in Nat /\ g[p] \in Nat /\ f[p] <= g[p]
            /\ F((V \ {p}) \cap T) \in Nat /\ G(V \ {p}) \in Nat
        BY <1>0, <3>4
      <4>5. F(V \cap T) <= G(V)
        <5> HIDE DEF F, G
        <5> QED BY <3>2, <3>3, <4>3, <4>4
      <4> QED BY <4>5
    <3>5. CASE p \notin T
      <4>1. V \cap T = (V \ {p}) \cap T
        BY <3>5
      <4>2. g[p] \in Nat /\ F((V \ {p}) \cap T) \in Nat /\ G(V \ {p}) \in Nat
        BY <1>0
      <4>3. F(V \cap T) <= G(V)
        <5> HIDE DEF F, G
        <5> QED BY <3>2, <3>3, <4>1, <4>2
      <4> QED BY <4>3
    <3> QED BY <3>4, <3>5
  <2> QED BY <2>1, <2>2
<1>2. S \in Good
  <2> HIDE DEF Good
  <2> QED BY <1>1, FiniteInduction
<1>3. S \cap T = T
  OBVIOUS
<1> QED BY <1>2, <1>3
(* Terms that are zero may be left out.                                      *)
LEMMA SumWithoutZeros ==
    ASSUME NEW f, NEW g, NEW S, IsFiniteSet(S), NEW T \in SUBSET S,
           \A x \in S : f[x] \in Nat,
           \A x \in T : g[x] = f[x], \A x \in S \ T : f[x] = 0
    PROVE  SumFunctionOnSet(f, S) = SumFunctionOnSet(g, T)
<1> DEFINE F(V) == SumFunctionOnSet(f, V)
           G(V) == SumFunctionOnSet(g, V)
           Good == {V \in SUBSET S : F(V) = G(V \cap T)}
<1>0. \A V \in SUBSET S : IsFiniteSet(V) /\ F(V) \in Nat
  BY FS_Subset, SumType
<1>1. ASSUME NEW V \in SUBSET S, \A y \in V : V \ {y} \in Good PROVE V \in Good
  <2>1. CASE V = {}
    <3>1. F({}) = 0 /\ G({}) = 0
      <4>1. IsFiniteSet({})
        BY FS_EmptySet
      <4> QED BY <4>1, SumEquation
    <3>2. V \cap T = {}
      BY <2>1
    <3> QED BY <2>1, <3>1, <3>2
  <2>2. CASE V # {}
    <3>1. PICK p \in V : TRUE
      BY <2>2
    <3>2. F(V) = f[p] + F(V \ {p}) /\ F(V \ {p}) = G((V \ {p}) \cap T)
      BY <1>0, <1>1, SumRemove
    <3>3. F(V \ {p}) \in Nat
      BY <1>0
    <3>4. CASE p \in T
      <4>1. V \cap T \in SUBSET S /\ p \in V \cap T /\ \A x \in V \cap T : g[x] \in Nat
        BY <3>4
      <4>2. G(V \cap T) = g[p] + G((V \cap T) \ {p})
        BY <1>0, <4>1, SumRemove
      <4>3. (V \cap T) \ {p} = (V \ {p}) \cap T
        OBVIOUS
      <4> QED BY <3>2, <3>4, <4>2, <4>3
    <3>5. CASE p \notin T
      <4>1. V \cap T = (V \ {p}) \cap T /\ f[p] = 0
        BY <3>5
      <4>2. F(V) = F(V \ {p})
        BY <3>2, <3>3, <4>1
      <4> QED BY <3>2, <4>1, <4>2
    <3> QED BY <3>4, <3>5
  <2> QED BY <2>1, <2>2
<1>2. S \in Good
  <2> HIDE DEF Good
  <2> QED BY <1>1, FiniteInduction
<1>3. S \cap T = T
  OBVIOUS
<1> QED BY <1>2, <1>3

(* A set is counted part by part, h saying which part an element is in.      *)
Part(E, h, k) == {e \in E : h[e] = k}
PartsOf(E, h, K) == {e \in E : h[e] \in K}
LEMMA SumOfParts ==
    ASSUME NEW E, IsFiniteSet(E), NEW h, NEW K, IsFiniteSet(K), NEW n,
           \A k \in K : n[k] = Cardinality(Part(E, h, k))
    PROVE  SumFunctionOnSet(n, K) = Cardinality(PartsOf(E, h, K))
<1> USE DEF Part, PartsOf
<1> DEFINE Sum(V) == SumFunctionOnSet(n, V)
           In(V) == {e \in E : h[e] \in V}
           Good == {V \in SUBSET K : Sum(V) = Cardinality(In(V))}
<1>0. \A V \in SUBSET E : IsFiniteSet(V) /\ Cardinality(V) \in Nat
  BY FS_Subset, FS_CardinalityType
<1>1. \A k \in K : n[k] \in Nat
  BY <1>0
<1>2. ASSUME NEW V \in SUBSET K, \A y \in V : V \ {y} \in Good PROVE V \in Good
  <2>0. IsFiniteSet(V)
    BY FS_Subset
  <2>1. CASE V = {}
    <3>1. Sum(V) = 0
      BY <2>0, <2>1, SumEquation
    <3>2. In(V) = {}
      BY <2>1
    <3> QED BY <3>1, <3>2, FS_EmptySet
  <2>2. CASE V # {}
    <3>1. PICK p \in V : TRUE
      BY <2>2
    <3> DEFINE A == {e \in E : h[e] = p}
               B == In(V \ {p})
    <3>2. Sum(V) = Cardinality(A) + Sum(V \ {p})
      BY <2>0, <1>1, SumRemove
    <3>3. Sum(V \ {p}) = Cardinality(B)
      BY <1>2
    <3>4. /\ IsFiniteSet(A) /\ IsFiniteSet(B) /\ A \cap B = {} /\ A \cup B = In(V)
      BY <1>0
    <3>5. Cardinality(A \cup B) = Cardinality(A) + Cardinality(B)
      <4> HIDE DEF A, B
      <4>1. Cardinality(A \cap B) = 0 /\ Cardinality(A) \in Nat /\ Cardinality(B) \in Nat
        BY <3>4, FS_EmptySet, FS_CardinalityType
      <4>2. Cardinality(A \cup B) = Cardinality(A) + Cardinality(B) - Cardinality(A \cap B)
        BY <3>4, FS_Union
      <4> QED BY <4>1, <4>2
    <3> QED BY <3>2, <3>3, <3>4, <3>5
  <2> QED BY <2>1, <2>2
<1>3. K \in Good
  <2> HIDE DEF Good
  <2> QED BY <1>2, FiniteInduction
<1> QED BY <1>3
-----------------------------------------------------------------------------
(* Numbers in base 62: the recursion of Digits ends for every number, and     *)
(* two numbers have never the same text.                                      *)
Coded(f, N) ==
    f = [n \in 0 .. N |-> IF n = 0 THEN <<>> ELSE Append(f[n \div 62], n % 62)]

LEMMA Quotient ==
    ASSUME NEW n \in Nat, n # 0
    PROVE  n \div 62 \in Nat /\ n \div 62 < n /\ n % 62 \in 0 .. 61
           /\ n = 62 * (n \div 62) + (n % 62)
OBVIOUS

LEMMA CodedAt ==
    ASSUME NEW N \in Nat, NEW f, Coded(f, N), NEW n \in Nat, n <= N
    PROVE  f[n] = IF n = 0 THEN <<>> ELSE Append(f[n \div 62], n % 62)
<1>1. n \in 0 .. N
  OBVIOUS
<1>2. \A k \in 0 .. N : f[k] = IF k = 0 THEN <<>> ELSE Append(f[k \div 62], k % 62)
  BY Zenon DEF Coded
<1> QED BY <1>1, <1>2

LEMMA CodedExist ==
    ASSUME NEW N \in Nat
    PROVE  \E f : Coded(f, N)
<1> DEFINE Bad == {n \in Nat : ~ \E f : Coded(f, n)}
<1> SUFFICES ASSUME Bad # {} PROVE FALSE
  OBVIOUS
<1>1. PICK n \in Bad : \A m \in Bad : n <= m
  BY Smallest
<1>2. CASE n = 0
  <2> DEFINE f == [k \in 0 .. 0 |-> <<>>]
  <2>1. f = [k \in 0 .. 0 |-> IF k = 0 THEN <<>> ELSE Append(f[k \div 62], k % 62)]
    OBVIOUS
  <2>2. Coded(f, 0)
    BY <2>1 DEF Coded
  <2> QED BY <1>1, <1>2, <2>2
<1>3. CASE n # 0
  <2>1. n \in Nat /\ n - 1 \in Nat /\ n - 1 \notin Bad
    <3>1. n \in Nat /\ n - 1 \in Nat
      BY <1>1, <1>3
    <3> HIDE DEF Bad
    <3> QED BY <1>1, <3>1
  <2>2. PICK g : Coded(g, n - 1)
    BY <2>1
  <2>3. PICK f : f = [k \in 0 .. n |-> IF k = 0 THEN <<>> ELSE Append(g[k \div 62], k % 62)]
    OBVIOUS
  <2>4. ASSUME NEW k \in 0 .. n, k # 0 PROVE f[k \div 62] = g[k \div 62]
    <3>1. PICK j \in 0 .. n - 1 : j = k \div 62
      BY <2>1, <2>4, Quotient
    <3>2. f[j] = IF j = 0 THEN <<>> ELSE Append(g[j \div 62], j % 62)
      BY <2>1, <2>3
    <3>3. g[j] = IF j = 0 THEN <<>> ELSE Append(g[j \div 62], j % 62)
      BY <2>2 DEF Coded
    <3> QED BY <3>1, <3>2, <3>3
  <2>5. f = [k \in 0 .. n |-> IF k = 0 THEN <<>> ELSE Append(f[k \div 62], k % 62)]
    BY <2>3, <2>4
  <2>6. Coded(f, n)
    BY <2>5 DEF Coded
  <2> QED BY <1>1, <2>6
<1> QED BY <1>2, <1>3

LEMMA CodedAgree ==
    ASSUME NEW M \in Nat, NEW N \in Nat, NEW f, NEW g, Coded(f, M), Coded(g, N)
    PROVE  \A n \in Nat : n <= M /\ n <= N => f[n] = g[n]
<1> DEFINE Bad == {n \in Nat : n <= M /\ n <= N /\ f[n] # g[n]}
<1> SUFFICES ASSUME Bad # {} PROVE FALSE
  OBVIOUS
<1>1. PICK n \in Bad : \A m \in Bad : n <= m
  BY Smallest
<1>2. /\ f[n] = IF n = 0 THEN <<>> ELSE Append(f[n \div 62], n % 62)
      /\ g[n] = IF n = 0 THEN <<>> ELSE Append(g[n \div 62], n % 62)
  BY <1>1, CodedAt
<1>3. n # 0
  BY <1>1, <1>2
<1>4. PICK j \in Nat : j = n \div 62 /\ j < n
  BY <1>1, <1>3, Quotient
<1>5. f[j] = g[j]
  BY <1>1, <1>4
<1> QED BY <1>1, <1>2, <1>4, <1>5

LEMMA DigitsOf ==
    ASSUME NEW n \in Nat
    PROVE  Digits[n] = IF n = 0 THEN <<>> ELSE Append(Digits[n \div 62], n % 62)
<1>1. PICK F : F = [k \in Nat |-> (CHOOSE f : Coded(f, k))[k]]
  OBVIOUS
<1>2. ASSUME NEW k \in Nat
      PROVE  F[k] = IF k = 0 THEN <<>> ELSE Append(F[k \div 62], k % 62)
  <2>1. PICK f : Coded(f, k) /\ F[k] = f[k]
    BY <1>1, CodedExist
  <2>2. f[k] = IF k = 0 THEN <<>> ELSE Append(f[k \div 62], k % 62)
    BY <2>1, CodedAt
  <2>3. ASSUME k # 0 PROVE f[k \div 62] = F[k \div 62]
    <3>1. PICK j \in Nat : j = k \div 62 /\ j < k
      BY <2>3, Quotient
    <3>2. PICK g : Coded(g, j) /\ F[j] = g[j]
      BY <1>1, CodedExist
    <3> QED BY <2>1, <3>1, <3>2, CodedAgree
  <2> QED BY <2>1, <2>2, <2>3
<1>3. F = [k \in Nat |-> IF k = 0 THEN <<>> ELSE Append(F[k \div 62], k % 62)]
  BY <1>1, <1>2
<1>4. Digits = [k \in Nat |-> IF k = 0 THEN <<>> ELSE Append(Digits[k \div 62], k % 62)]
  BY <1>3 DEF Digits
<1> QED BY <1>4

LEMMA DigitsType ==
    ASSUME NEW n \in Nat
    PROVE  Digits[n] \in Seq(0 .. 61)
<1> DEFINE Bad == {k \in Nat : Digits[k] \notin Seq(0 .. 61)}
<1> SUFFICES ASSUME Bad # {} PROVE FALSE
  OBVIOUS
<1>1. PICK k \in Bad : \A m \in Bad : k <= m
  BY Smallest
<1>2. k # 0
  <2>1. Digits[0] \in Seq(0 .. 61)
    <3>1. Digits[0] = <<>>
      BY DigitsOf
    <3> QED BY <3>1
  <2> QED BY <1>1, <2>1, Zenon
<1>3. PICK j \in Nat, d \in 0 .. 61 : j = k \div 62 /\ d = k % 62 /\ j < k
  BY <1>1, <1>2, Quotient
<1>4. Digits[j] \in Seq(0 .. 61)
  BY <1>1, <1>3
<1>5. Digits[k] = Append(Digits[j], d)
  BY <1>1, <1>2, <1>3, DigitsOf
<1>6. Append(Digits[j], d) \in Seq(0 .. 61)
  BY <1>3, <1>4
<1> QED BY <1>1, <1>5, <1>6, Zenon

(* Reading a text from its first digit *)
Decoded(f, s) == f = [i \in 0 .. Len(s) |-> IF i = 0 THEN 0 ELSE 62 * f[i - 1] + s[i]]

LEMMA ReadsAgree ==
    ASSUME NEW s \in Seq(0 .. 61), NEW f, NEW g, Decoded(f, s), Decoded(g, s)
    PROVE  f[Len(s)] = g[Len(s)]
<1> DEFINE Bad == {i \in Nat : i <= Len(s) /\ f[i] # g[i]}
<1> SUFFICES ASSUME Bad # {} PROVE FALSE
  OBVIOUS
<1>1. PICK i \in Bad : \A j \in Bad : i <= j
  BY Smallest
<1>2. \A j \in 0 .. Len(s) :
          /\ f[j] = IF j = 0 THEN 0 ELSE 62 * f[j - 1] + s[j]
          /\ g[j] = IF j = 0 THEN 0 ELSE 62 * g[j - 1] + s[j]
  BY Zenon DEF Decoded
<1>3. i \in 0 .. Len(s) /\ f[i] # g[i]
  BY <1>1
<1>4. i # 0 /\ i - 1 \in Nat /\ f[i - 1] = g[i - 1]
  BY <1>1, <1>2, <1>3
<1> QED BY <1>2, <1>3, <1>4

LEMMA ReadOn ==
    ASSUME NEW s \in Seq(0 .. 61), NEW d \in 0 .. 61, NEW f, Decoded(f, s)
    PROVE  \E g : Decoded(g, Append(s, d)) /\ g[Len(s) + 1] = 62 * f[Len(s)] + d
<1>1. PICK t \in Seq(0 .. 61) : /\ t = Append(s, d) /\ Len(t) = Len(s) + 1
                               /\ t[Len(t)] = d /\ \A i \in 1 .. Len(s) : t[i] = s[i]
  <2>1. /\ Append(s, d) \in Seq(0 .. 61) /\ Len(Append(s, d)) = Len(s) + 1
        /\ Append(s, d)[Len(s) + 1] = d
    OBVIOUS
  <2>2. \A i \in 1 .. Len(s) : Append(s, d)[i] = s[i]
    OBVIOUS
  <2> QED BY <2>1, <2>2, Zenon
<1>2. PICK N \in Nat : N = Len(s)
  OBVIOUS
<1>3. PICK g : g = [i \in 0 .. N + 1 |-> IF i = N + 1 THEN 62 * f[N] + d ELSE f[i]]
  OBVIOUS
<1>4. \A i \in 0 .. N : f[i] = IF i = 0 THEN 0 ELSE 62 * f[i - 1] + s[i]
  BY <1>2, Zenon DEF Decoded
<1>5. ASSUME NEW i \in 0 .. N + 1
      PROVE  g[i] = IF i = 0 THEN 0 ELSE 62 * g[i - 1] + t[i]
  <2>1. CASE i = N + 1
    BY <2>1, <1>1, <1>2, <1>3
  <2>2. CASE i # N + 1
    <3>1. i \in 0 .. N /\ g[i] = f[i] /\ (i # 0 => g[i - 1] = f[i - 1])
      BY <2>2, <1>2, <1>3
    <3> QED BY <3>1, <1>1, <1>2, <1>4
  <2> QED BY <2>1, <2>2
<1>6. g = [i \in 0 .. N + 1 |-> IF i = 0 THEN 0 ELSE 62 * g[i - 1] + t[i]]
  BY <1>3, <1>5
<1>7. Decoded(g, t) /\ g[N + 1] = 62 * f[N] + d
  BY <1>1, <1>2, <1>3, <1>6 DEF Decoded
<1> QED BY <1>1, <1>2, <1>7

LEMMA DigitsRead ==
    ASSUME NEW n \in Nat
    PROVE  \E f : Decoded(f, Digits[n]) /\ f[Len(Digits[n])] = n
<1> DEFINE Good(k) == \E f : Decoded(f, Digits[k]) /\ f[Len(Digits[k])] = k
           Bad == {k \in Nat : ~Good(k)}
<1> SUFFICES ASSUME Bad # {} PROVE FALSE
  OBVIOUS
<1>1. PICK k \in Bad : \A m \in Bad : k <= m
  BY Smallest
<1>2. k # 0
  <2>1. PICK f : f = [i \in 0 .. 0 |-> 0]
    OBVIOUS
  <2>2. f = [i \in 0 .. 0 |-> IF i = 0 THEN 0 ELSE 62 * f[i - 1] + <<>>[i]]
    BY <2>1
  <2>3. Digits[0] = <<>> /\ Len(<<>>) = 0
    BY DigitsOf
  <2>4. Good(0)
    BY <2>1, <2>2, <2>3 DEF Decoded
  <2> HIDE DEF Good
  <2> QED BY <1>1, <2>4
<1>3. PICK j \in Nat, d \in 0 .. 61 : j = k \div 62 /\ d = k % 62 /\ j < k /\ k = 62 * j + d
  BY <1>1, <1>2, Quotient
<1>4. Good(j)
  <2> HIDE DEF Good
  <2> QED BY <1>1, <1>3
<1>5. PICK s \in Seq(0 .. 61) : s = Digits[j] /\ Digits[k] = Append(s, d)
  BY <1>1, <1>2, <1>3, DigitsOf, DigitsType
<1>6. PICK f : Decoded(f, s) /\ f[Len(s)] = j
  BY <1>4, <1>5
<1>7. PICK g : Decoded(g, Append(s, d)) /\ g[Len(s) + 1] = 62 * j + d
  <2>1. \E g : Decoded(g, Append(s, d)) /\ g[Len(s) + 1] = 62 * f[Len(s)] + d
    BY <1>3, <1>5, <1>6, ReadOn
  <2> QED BY <1>6, <2>1
<1>8. Len(Append(s, d)) = Len(s) + 1
  OBVIOUS
<1>9. Good(k)
  BY <1>3, <1>5, <1>7, <1>8
<1> QED BY <1>1, <1>9

LEMMA ReadWhole ==
    ASSUME NEW s \in Seq(0 .. 61), NEW f, Decoded(f, s)
    PROVE  String2Int(s) = f[Len(s)]
<1>1. PICK g : g = CHOOSE h : Decoded(h, s)
  OBVIOUS
<1>2. Decoded(g, s)
  BY <1>1
<1>3. String2Int(s) = g[Len(s)]
  BY <1>1 DEF String2Int, Decoded
<1> QED BY <1>2, <1>3, ReadsAgree

(* A code is read back as the number it was written for (Int2String,         *)
(* reverse and String2Int), for every number ...                              *)
THEOREM CodesAreReadBack ==
    ASSUME NEW n \in Nat
    PROVE  String2Int(Int2String(n)) = n
<1>1. CASE n = 0
  <2>1. PICK s : s = <<0>> /\ s \in Seq(0 .. 61) /\ Len(s) = 1 /\ s[1] = 0
    <3>1. <<0>> \in Seq(0 .. 61) /\ Len(<<0>>) = 1 /\ <<0>>[1] = 0
      OBVIOUS
    <3> QED BY <3>1, Zenon
  <2>2. PICK f : f = [i \in 0 .. 1 |-> 0]
    OBVIOUS
  <2>3. f = [i \in 0 .. 1 |-> IF i = 0 THEN 0 ELSE 62 * f[i - 1] + s[i]]
    BY <2>1, <2>2
  <2>4. Decoded(f, s) /\ f[Len(s)] = 0
    BY <2>1, <2>2, <2>3 DEF Decoded
  <2> QED BY <1>1, <2>1, <2>4, ReadWhole DEF Int2String
<1>2. CASE n # 0
  <2>1. PICK s \in Seq(0 .. 61) : s = Digits[n]
    BY DigitsType
  <2>2. PICK f : Decoded(f, s) /\ f[Len(s)] = n
    BY <2>1, DigitsRead
  <2> QED BY <1>2, <2>1, <2>2, ReadWhole DEF Int2String
<1> QED BY <1>1, <1>2

(* ... so two numbers have never the same code: a number stands for its text. *)
THEOREM CodesTellNumbersApart ==
    ASSUME NEW m \in Nat, NEW n \in Nat, Int2String(m) = Int2String(n)
    PROVE  m = n
BY CodesAreReadBack
=============================================================================

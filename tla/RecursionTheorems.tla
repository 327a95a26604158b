------------------------- MODULE RecursionTheorems -------------------------
(***************************************************************************)
(* Facts about recursive definitions that the proofs share: the least       *)
(* number principle in a form without an operator parameter, and the sum of *)
(* a function over a finite set, SumFunctionOnSet of module Functions, that *)
(* the capacity and the budget of the models are counted with.              *)
(***************************************************************************)
EXTENDS Integers, FiniteSets, Functions, FiniteSetTheorems, TLAPS

(* Induction: a nonempty set of naturals, say of counterexamples, has a     *)
(* least element.                                                           *)

LEMMA LeastNatural ==
  ASSUME NEW T, T \subseteq Nat, T # {}
  PROVE  \E x \in T : \A y \in T : x <= y
<1> DEFINE R == OpToRel(<, Nat)
<1>1. IsWellFoundedOn(R, Nat)
  BY NatLessThanWellFounded, Zenon
<1>2. R = {ss \in Nat \X Nat : ss[1] < ss[2]}
  BY DEF OpToRel
<1> HIDE DEF R
<1>3. PICK x \in T : \A y \in T : <<y, x>> \notin R
  BY <1>1, WFMin, Zenon
<1>4. \A y \in T : ~(y < x)
  BY <1>2, <1>3
<1> QED
  BY <1>3, <1>4

----------------------------------------------------------------------------
(* Sums.                                                                    *)

Pick(s) == CHOOSE x \in s : TRUE

\* g is the sum of f over each set of D, which loses one element at a time.
IsSum(g, f, D) ==
    g = [s \in D |-> IF s = {} THEN 0 ELSE f[Pick(s)] + g[s \ {Pick(s)}]]

SubsetsUpTo(S, n) == {s \in SUBSET S : Cardinality(s) <= n}

\* The recursion is well defined on a finite set: level by level of cardinality.
LEMMA SumExists ==
  ASSUME NEW f, NEW S, IsFiniteSet(S)
  PROVE  \E g : IsSum(g, f, SUBSET S)
<1> DEFINE Bad == {n \in Nat : ~\E g : IsSum(g, f, SubsetsUpTo(S, n))}
<1>1. \A s \in SUBSET S : IsFiniteSet(s) /\ Cardinality(s) \in Nat
  BY FS_Subset, FS_CardinalityType
<1>2. \A s \in SUBSET S : Cardinality(s) <= 0 => s = {}
  BY <1>1, FS_EmptySet
<1>3. \A s \in SUBSET S : s # {} =>
         Pick(s) \in s /\ s \ {Pick(s)} \in SUBSET S
           /\ Cardinality(s \ {Pick(s)}) = Cardinality(s) - 1
  <2> TAKE s \in SUBSET S
  <2> HAVE s # {}
  <2>1. Pick(s) \in s
    BY DEF Pick
  <2> QED BY <1>1, <2>1, FS_RemoveElement
<1>4. Bad = {}
  <2> SUFFICES ASSUME Bad # {} PROVE FALSE
    OBVIOUS
  <2>1. PICK n \in Bad : \A m \in Bad : n <= m
    BY LeastNatural
  <2>2. CASE n = 0
    <3> DEFINE g == [s \in SubsetsUpTo(S, 0) |-> 0]
    <3>1. \A s \in SubsetsUpTo(S, 0) : s = {}
      BY <1>2 DEF SubsetsUpTo
    <3>2. IsSum(g, f, SubsetsUpTo(S, 0))
      BY <3>1 DEF IsSum
    <3> QED BY <2>1, <2>2, <3>2
  <2>3. CASE n # 0
    <3>1. n \in Nat /\ n - 1 \in Nat /\ n - 1 \notin Bad
      BY <2>1, <2>3
    <3>2. PICK h : IsSum(h, f, SubsetsUpTo(S, n - 1))
      BY <3>1
    <3> DEFINE D == SubsetsUpTo(S, n)
               E == SubsetsUpTo(S, n - 1)
               g == [s \in D |-> IF s = {} THEN 0 ELSE f[Pick(s)] + h[s \ {Pick(s)}]]
    <3>3. \A s \in D : s # {} => s \ {Pick(s)} \in E
      BY <1>1, <1>3, <3>1 DEF SubsetsUpTo
    <3>4. E \subseteq D
      BY <1>1, <3>1 DEF SubsetsUpTo
    <3>5. h = [s \in E |-> IF s = {} THEN 0 ELSE f[Pick(s)] + h[s \ {Pick(s)}]]
      BY <3>2 DEF IsSum
    <3> HIDE DEF D, E
    <3>6. \A s \in E : h[s] = g[s]
      BY <3>4, <3>5
    <3>7. \A s \in D : g[s] = IF s = {} THEN 0 ELSE f[Pick(s)] + g[s \ {Pick(s)}]
      BY <3>3, <3>6
    <3>8. IsSum(g, f, D)
      BY <3>7 DEF IsSum
    <3> QED BY <2>1, <3>8 DEF D
  <2> QED BY <2>2, <2>3
<1>5. Cardinality(S) \in Nat /\ Cardinality(S) \notin Bad
  BY <1>4, FS_CardinalityType
<1>6. SubsetsUpTo(S, Cardinality(S)) = SUBSET S
  BY FS_Subset DEF SubsetsUpTo
<1> QED
  BY <1>5, <1>6

\* The operator of the community module is such a sum.
LEMMA SumIsSum ==
  ASSUME NEW f, NEW S, IsFiniteSet(S)
  PROVE  \E g : IsSum(g, f, SUBSET S) /\ SumFunctionOnSet(f, S) = g[S]
<1> DEFINE g == CHOOSE h : IsSum(h, f, SUBSET S)
<1>1. SumFunctionOnSet(f, S) = g[S]
  BY DEF SumFunctionOnSet, FoldFunctionOnSet, MapThenFoldSet, IsSum, Pick
<1>2. IsSum(g, f, SUBSET S)
  BY SumExists, Zenon
<1> QED
  BY <1>1, <1>2

\* A sum depends only on the values over the set.
LEMMA SumsAgree ==
  ASSUME NEW f, NEW e, NEW S, IsFiniteSet(S), NEW T \in SUBSET S,
         \A x \in T : f[x] = e[x],
         NEW g, NEW h, IsSum(g, f, SUBSET S), IsSum(h, e, SUBSET T)
  PROVE  g[T] = h[T]
<1> DEFINE Bad == {n \in Nat : \E s \in SUBSET T : Cardinality(s) = n /\ g[s] # h[s]}
<1>1. \A s \in SUBSET T : IsFiniteSet(s) /\ Cardinality(s) \in Nat
  BY FS_Subset, FS_CardinalityType
<1>2. \A s \in SUBSET T : s # {} =>
         Pick(s) \in s /\ s \ {Pick(s)} \in SUBSET T
           /\ Cardinality(s \ {Pick(s)}) = Cardinality(s) - 1
  <2> TAKE s \in SUBSET T
  <2> HAVE s # {}
  <2>1. Pick(s) \in s
    BY DEF Pick
  <2> QED BY <1>1, <2>1, FS_RemoveElement
<1>3. Bad = {}
  <2> SUFFICES ASSUME Bad # {} PROVE FALSE
    OBVIOUS
  <2>1. PICK n \in Bad : \A m \in Bad : n <= m
    BY LeastNatural
  <2>2. PICK s \in SUBSET T : Cardinality(s) = n /\ g[s] # h[s]
    BY <2>1
  <2>3. CASE s = {}
    <3>1. g[{}] = 0 /\ h[{}] = 0
      BY DEF IsSum
    <3> QED BY <2>2, <2>3, <3>1
  <2>4. CASE s # {}
    <3>1. Cardinality(s \ {Pick(s)}) \notin Bad /\ Cardinality(s \ {Pick(s)}) \in Nat
      BY <1>1, <1>2, <2>1, <2>2, <2>4
    <3>2. g[s \ {Pick(s)}] = h[s \ {Pick(s)}]
      BY <1>2, <2>4, <3>1
    <3>3. g[s] = f[Pick(s)] + g[s \ {Pick(s)}] /\ h[s] = e[Pick(s)] + h[s \ {Pick(s)}]
      BY <2>4 DEF IsSum
    <3> QED BY <1>2, <2>2, <2>4, <3>2, <3>3
  <2> QED BY <2>3, <2>4
<1> QED
  BY <1>1, <1>3

\* The sum over no element.
THEOREM SumEmpty ==
  ASSUME NEW f
  PROVE  SumFunctionOnSet(f, {}) = 0
<1>1. PICK g : IsSum(g, f, SUBSET {}) /\ SumFunctionOnSet(f, {}) = g[{}]
  BY SumIsSum, FS_EmptySet
<1> QED
  BY <1>1 DEF IsSum

\* Functions that agree on a set have the same sum over it.
THEOREM SumSame ==
  ASSUME NEW f, NEW e, NEW S, IsFiniteSet(S), \A x \in S : f[x] = e[x]
  PROVE  SumFunctionOnSet(f, S) = SumFunctionOnSet(e, S)
<1>1. PICK g : IsSum(g, f, SUBSET S) /\ SumFunctionOnSet(f, S) = g[S]
  BY SumIsSum
<1>2. PICK h : IsSum(h, e, SUBSET S) /\ SumFunctionOnSet(e, S) = h[S]
  BY SumIsSum
<1>3. g[S] = h[S]
  <2>1. S \in SUBSET S
    OBVIOUS
  <2>2. IsSum(g, f, SUBSET S)
    BY <1>1
  <2>3. IsSum(h, e, SUBSET S)
    BY <1>2
  <2> QED BY <2>1, <2>2, <2>3, SumsAgree
<1> QED
  BY <1>1, <1>2, <1>3

LEMMA SumPicks ==
  ASSUME NEW f, NEW S, IsFiniteSet(S), S # {}
  PROVE  /\ Pick(S) \in S
         /\ SumFunctionOnSet(f, S) = f[Pick(S)] + SumFunctionOnSet(f, S \ {Pick(S)})
<1> DEFINE T == S \ {Pick(S)}
<1>1. Pick(S) \in S
  BY DEF Pick
<1>2. IsFiniteSet(T) /\ T \in SUBSET S
  BY FS_Subset
<1>3. PICK g : IsSum(g, f, SUBSET S) /\ SumFunctionOnSet(f, S) = g[S]
  BY SumIsSum
<1>4. PICK h : IsSum(h, f, SUBSET T) /\ SumFunctionOnSet(f, T) = h[T]
  BY <1>2, SumIsSum
<1>5. g[T] = h[T]
  <2> HIDE DEF T
  <2>1. IsSum(g, f, SUBSET S)
    BY <1>3
  <2>2. IsSum(h, f, SUBSET T)
    BY <1>4
  <2>3. ASSUME NEW e, e = f PROVE \A x \in T : f[x] = e[x]
    BY <2>3
  <2>4. ASSUME NEW e, e = f, IsSum(h, e, SUBSET T) PROVE g[T] = h[T]
    BY <1>2, <2>1, <2>3, <2>4, SumsAgree
  <2> QED BY <2>2, <2>4
<1>6. g[S] = f[Pick(S)] + g[T]
  BY <1>3 DEF IsSum
<1> QED
  BY <1>1, <1>3, <1>4, <1>5, <1>6

\* A sum of integers is an integer, one of naturals a natural.
THEOREM SumType ==
  ASSUME NEW f, NEW S, IsFiniteSet(S), \A x \in S : f[x] \in Int
  PROVE  /\ SumFunctionOnSet(f, S) \in Int
         /\ (\A x \in S : f[x] >= 0) => SumFunctionOnSet(f, S) >= 0
<1> DEFINE Bad == {n \in Nat : \E s \in SUBSET S :
                      /\ Cardinality(s) = n
                      /\ ~(/\ SumFunctionOnSet(f, s) \in Int
                           /\ (\A x \in S : f[x] >= 0) => SumFunctionOnSet(f, s) >= 0)}
<1>1. \A s \in SUBSET S : IsFiniteSet(s) /\ Cardinality(s) \in Nat
  BY FS_Subset, FS_CardinalityType
<1>2. Bad = {}
  <2> SUFFICES ASSUME Bad # {} PROVE FALSE
    OBVIOUS
  <2>1. PICK n \in Bad : \A m \in Bad : n <= m
    BY LeastNatural
  <2>2. PICK s \in SUBSET S :
           /\ Cardinality(s) = n
           /\ ~(/\ SumFunctionOnSet(f, s) \in Int
                /\ (\A x \in S : f[x] >= 0) => SumFunctionOnSet(f, s) >= 0)
    BY <2>1
  <2>3. CASE s = {}
    BY <2>2, <2>3, SumEmpty
  <2>4. CASE s # {}
    <3> DEFINE t == s \ {Pick(s)}
    <3>1. /\ Pick(s) \in s /\ t \in SUBSET S
          /\ SumFunctionOnSet(f, s) = f[Pick(s)] + SumFunctionOnSet(f, t)
      BY <1>1, <2>4, SumPicks
    <3>2. Cardinality(t) = n - 1 /\ Cardinality(t) \in Nat
      BY <1>1, <2>2, <3>1, FS_RemoveElement
    <3> HIDE DEF t
    <3>3. Cardinality(t) \notin Bad
      BY <2>1, <3>2
    <3>4. /\ SumFunctionOnSet(f, t) \in Int
          /\ (\A x \in S : f[x] >= 0) => SumFunctionOnSet(f, t) >= 0
      BY <3>1, <3>2, <3>3
    <3> QED BY <2>2, <3>1, <3>4
  <2> QED BY <2>3, <2>4
<1> QED
  BY <1>1, <1>2

\* Any element can be taken out of a sum.
THEOREM SumRemove ==
  ASSUME NEW f, NEW S, IsFiniteSet(S), \A x \in S : f[x] \in Int, NEW a \in S
  PROVE  SumFunctionOnSet(f, S) = f[a] + SumFunctionOnSet(f, S \ {a})
<1> DEFINE Bad == {n \in Nat : \E s \in SUBSET S : \E x \in s :
                      /\ Cardinality(s) = n
                      /\ SumFunctionOnSet(f, s) # f[x] + SumFunctionOnSet(f, s \ {x})}
<1>1. \A s \in SUBSET S : /\ IsFiniteSet(s) /\ Cardinality(s) \in Nat
                          /\ SumFunctionOnSet(f, s) \in Int
  BY FS_Subset, FS_CardinalityType, SumType
<1>2. Bad = {}
  <2> SUFFICES ASSUME Bad # {} PROVE FALSE
    OBVIOUS
  <2>1. PICK n \in Bad : \A m \in Bad : n <= m
    BY LeastNatural
  <2>2a. PICK s \in SUBSET S : \E x \in s :
           /\ Cardinality(s) = n
           /\ SumFunctionOnSet(f, s) # f[x] + SumFunctionOnSet(f, s \ {x})
    BY <2>1
  <2>2. PICK x \in s :
           /\ Cardinality(s) = n
           /\ SumFunctionOnSet(f, s) # f[x] + SumFunctionOnSet(f, s \ {x})
    BY <2>2a
  <2> DEFINE c == Pick(s)
             t == s \ {c}
             r == s \ {x}
             b == t \ {x}
  <2>3. c \in s /\ SumFunctionOnSet(f, s) = f[c] + SumFunctionOnSet(f, t)
    BY <1>1, <2>2, SumPicks
  <2>4. c # x
    BY <2>2, <2>3
  <2>5. /\ t \in SUBSET S /\ r \in SUBSET S /\ b \in SUBSET S
        /\ x \in t /\ c \in r /\ t \ {x} = b /\ r \ {c} = b
    BY <2>3, <2>4
  <2>6. /\ Cardinality(t) = n - 1 /\ Cardinality(r) = n - 1 /\ n - 1 \in Nat
    BY <1>1, <2>2, <2>3, <2>5, FS_RemoveElement
  <2> HIDE DEF c, t, r, b
  <2>7. \A u \in SUBSET S : \A y \in u : Cardinality(u) = n - 1 =>
           SumFunctionOnSet(f, u) = f[y] + SumFunctionOnSet(f, u \ {y})
    <3>1. n - 1 \notin Bad
      BY <2>1, <2>6
    <3> QED BY <2>6, <3>1
  <2>8. SumFunctionOnSet(f, t) = f[x] + SumFunctionOnSet(f, b)
    BY <2>5, <2>6, <2>7
  <2>9. SumFunctionOnSet(f, r) = f[c] + SumFunctionOnSet(f, b)
    BY <2>5, <2>6, <2>7
  <2>10. SumFunctionOnSet(f, b) \in Int /\ f[x] \in Int /\ f[c] \in Int
    BY <1>1, <2>2, <2>3, <2>5
  <2>11. SumFunctionOnSet(f, s) = f[x] + SumFunctionOnSet(f, r)
    BY <2>3, <2>8, <2>9, <2>10
  <2> QED BY <2>2, <2>11 DEF r
<1> QED
  BY <1>1, <1>2

\* A new element joins a sum.
THEOREM SumAdd ==
  ASSUME NEW f, NEW S, IsFiniteSet(S), NEW a, a \notin S,
         \A x \in S \cup {a} : f[x] \in Int
  PROVE  SumFunctionOnSet(f, S \cup {a}) = f[a] + SumFunctionOnSet(f, S)
<1> DEFINE T == S \cup {a}
<1>1. IsFiniteSet(T) /\ a \in T /\ T \ {a} = S
  BY FS_AddElement
<1> HIDE DEF T
<1>2. SumFunctionOnSet(f, T) = f[a] + SumFunctionOnSet(f, T \ {a})
  BY <1>1, SumRemove DEF T
<1> QED
  BY <1>1, <1>2 DEF T

\* Changing one value changes the sum by the difference.
THEOREM SumChange ==
  ASSUME NEW f, NEW e, NEW S, IsFiniteSet(S), NEW a \in S,
         \A x \in S : f[x] \in Int /\ e[x] \in Int,
         \A x \in S \ {a} : e[x] = f[x]
  PROVE  SumFunctionOnSet(e, S) = SumFunctionOnSet(f, S) - f[a] + e[a]
<1> DEFINE T == S \ {a}
<1>1. IsFiniteSet(T)
  BY FS_Subset
<1>2. SumFunctionOnSet(f, S) = f[a] + SumFunctionOnSet(f, T)
  BY SumRemove
<1>3. SumFunctionOnSet(e, S) = e[a] + SumFunctionOnSet(e, T)
  BY SumRemove
<1>4. SumFunctionOnSet(e, T) = SumFunctionOnSet(f, T)
  BY <1>1, SumSame
<1>5. SumFunctionOnSet(f, T) \in Int
  BY <1>1, SumType
<1> QED
  BY <1>2, <1>3, <1>4, <1>5
\* A sum of naturals over a subset is not larger.
THEOREM SumSubset ==
  ASSUME NEW f, NEW S, IsFiniteSet(S), NEW T \in SUBSET S, \A x \in S : f[x] \in Nat
  PROVE  SumFunctionOnSet(f, T) <= SumFunctionOnSet(f, S)
<1> DEFINE Bad == {n \in Nat : \E s \in SUBSET S : \E t \in SUBSET s :
                      /\ Cardinality(s) = n
                      /\ ~(SumFunctionOnSet(f, t) <= SumFunctionOnSet(f, s))}
<1>1. \A s \in SUBSET S : /\ IsFiniteSet(s) /\ Cardinality(s) \in Nat
                          /\ SumFunctionOnSet(f, s) \in Int
  BY FS_Subset, FS_CardinalityType, SumType
<1>2. Bad = {}
  <2> SUFFICES ASSUME Bad # {} PROVE FALSE
    OBVIOUS
  <2>1. PICK n \in Bad : \A m \in Bad : n <= m
    BY LeastNatural
  <2>2a. PICK s \in SUBSET S : \E t \in SUBSET s :
           /\ Cardinality(s) = n
           /\ ~(SumFunctionOnSet(f, t) <= SumFunctionOnSet(f, s))
    BY <2>1
  <2>2. PICK t \in SUBSET s :
           /\ Cardinality(s) = n
           /\ ~(SumFunctionOnSet(f, t) <= SumFunctionOnSet(f, s))
    BY <2>2a
  <2>3. t \in SUBSET S /\ t # s
    BY <1>1, <2>2
  <2>4. PICK a \in s : a \notin t
    BY <2>3
  <2> DEFINE r == s \ {a}
  <2>5. r \in SUBSET S /\ t \in SUBSET r
    BY <2>4
  <2>6. Cardinality(r) = n - 1 /\ n - 1 \in Nat
    <3>1. Cardinality(r) = Cardinality(s) - 1
      BY <1>1, FS_RemoveElement
    <3>2. Cardinality(r) \in Nat
      BY <1>1, <2>5
    <3> QED BY <2>2, <3>1, <3>2
  <2>7. SumFunctionOnSet(f, s) = f[a] + SumFunctionOnSet(f, r)
    BY <1>1, SumRemove
  <2> HIDE DEF r
  <2>8. n - 1 \notin Bad
    BY <2>1, <2>6
  <2>9. SumFunctionOnSet(f, t) <= SumFunctionOnSet(f, r)
    BY <2>5, <2>6, <2>8
  <2>10. f[a] \in Nat /\ SumFunctionOnSet(f, r) \in Int /\ SumFunctionOnSet(f, t) \in Int
    BY <1>1, <2>3, <2>5
  <2> QED BY <2>2, <2>7, <2>9, <2>10
<1> QED
  BY <1>1, <1>2
\* A sum of zeros is zero.
THEOREM SumZero ==
  ASSUME NEW f, NEW S, IsFiniteSet(S), \A x \in S : f[x] = 0
  PROVE  SumFunctionOnSet(f, S) = 0
<1> DEFINE Bad == {n \in Nat : \E s \in SUBSET S :
                      Cardinality(s) = n /\ SumFunctionOnSet(f, s) # 0}
<1>3. \A s \in SUBSET S : IsFiniteSet(s) /\ Cardinality(s) \in Nat
  BY FS_Subset, FS_CardinalityType
<1>4. Bad = {}
  <2> SUFFICES ASSUME Bad # {} PROVE FALSE
    OBVIOUS
  <2>1. PICK n \in Bad : \A m \in Bad : n <= m
    BY LeastNatural
  <2>2. PICK s \in SUBSET S : Cardinality(s) = n /\ SumFunctionOnSet(f, s) # 0
    BY <2>1
  <2>3. s # {}
    BY <2>2, SumEmpty
  <2> DEFINE t == s \ {Pick(s)}
  <2>4. /\ Pick(s) \in s /\ t \in SUBSET S
        /\ SumFunctionOnSet(f, s) = f[Pick(s)] + SumFunctionOnSet(f, t)
    BY <1>3, <2>3, SumPicks
  <2>5. Cardinality(t) = n - 1 /\ Cardinality(t) \in Nat
    BY <1>3, <2>2, <2>4, FS_RemoveElement
  <2> HIDE DEF t
  <2>6. SumFunctionOnSet(f, t) = 0
    BY <2>1, <2>4, <2>5
  <2> QED BY <2>2, <2>4, <2>6
<1> QED
  BY <1>3, <1>4
=============================================================================

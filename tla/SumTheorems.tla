---------------------------- MODULE SumTheorems ----------------------------
(***************************************************************************)
(* Sums of a function over a finite set, the SUM(...) of the ledger's      *)
(* queries: what SumFunctionOnSet of module Functions returns.             *)
(*                                                                         *)
(* The sum is a fold, and a fold is a recursive function on the subsets of *)
(* the set.  Facts about it are proved by minimal counterexample: strict   *)
(* inclusion is well-founded on the subsets of a finite set, so were the   *)
(* fact false of some subset it would be false of a smallest one.          *)
(***************************************************************************)
EXTENDS Integers, Functions, FiniteSetTheorems, WellFoundedInduction, TLAPS

-----------------------------------------------------------------------------
(* The fold, as a function that satisfies its own recursive definition.    *)

Pick(s) == CHOOSE x \in s : TRUE

Sums(g, f, S) ==
    g = [s \in SUBSET S |-> IF s = {} THEN 0 ELSE f[Pick(s)] + g[s \ {Pick(s)}]]

LEMMA Unfold ==
    ASSUME NEW f, NEW S
    PROVE  SumFunctionOnSet(f, S) = (CHOOSE g : Sums(g, f, S))[S]
BY DEF SumFunctionOnSet, FoldFunctionOnSet, MapThenFoldSet, Sums, Pick

LEMMA PickIn == ASSUME NEW s, s # {} PROVE Pick(s) \in s
BY DEF Pick

(* Of some subsets of a finite set one has none of the others within it.   *)
LEMMA Smallest ==
    ASSUME NEW S, IsFiniteSet(S), NEW Bad \in SUBSET SUBSET S, Bad # {}
    PROVE  \E T \in Bad : \A U \in Bad : ~ (U \subseteq T /\ U # T)
<1>1. IsWellFoundedOn(StrictSubsetOrdering(S), SUBSET S)
  BY FS_StrictSubsetOrderingWellFounded, FS_FiniteSubsetsOfFinite
<1>2. \E T \in Bad : \A U \in Bad : ~ (<<U, T>> \in StrictSubsetOrdering(S))
  BY <1>1, WFMin
<1> QED BY <1>2 DEF StrictSubsetOrdering

LEMMA SumsFact ==
    ASSUME NEW S, NEW f, NEW g, Sums(g, f, S), NEW s \in SUBSET S
    PROVE  g[s] = IF s = {} THEN 0 ELSE f[Pick(s)] + g[s \ {Pick(s)}]
BY DEF Sums

(* Two such functions agree where both are defined ...                     *)
LEMMA SumsUnique ==
    ASSUME NEW A, NEW B, NEW f, NEW g, NEW h, Sums(g, f, A), Sums(h, f, B),
           NEW S, IsFiniteSet(S), S \subseteq A, S \subseteq B
    PROVE  g[S] = h[S]
<1> DEFINE Bad == {T \in SUBSET S : g[T] # h[T]}
<1> SUFFICES ASSUME S \in Bad PROVE FALSE
  OBVIOUS
<1>1. PICK T \in Bad : \A U \in Bad : ~ (U \subseteq T /\ U # T)
  <2>1. Bad \in SUBSET SUBSET S /\ Bad # {}
    OBVIOUS
  <2> HIDE DEF Bad
  <2> QED BY <2>1, Smallest
<1>2. T # {}
  BY SumsFact
<1> DEFINE R == T \ {Pick(T)}
<1>3. R \subseteq T /\ R # T
  BY <1>2, PickIn
<1>4. g[R] = h[R]
  BY <1>1, <1>3
<1> QED BY <1>1, <1>2, <1>4, SumsFact

(* ... and there is one, built from those of the smaller sets.             *)
LEMMA SumsExist ==
    ASSUME NEW f, NEW S, IsFiniteSet(S)
    PROVE  \E g : Sums(g, f, S)
<1> DEFINE Bad == {T \in SUBSET S : ~ \E g : Sums(g, f, T)}
<1> SUFFICES ASSUME S \in Bad PROVE FALSE
  OBVIOUS
<1>1. PICK T \in Bad : \A U \in Bad : ~ (U \subseteq T /\ U # T)
  <2>1. Bad \in SUBSET SUBSET S /\ Bad # {}
    OBVIOUS
  <2> HIDE DEF Bad
  <2> QED BY <2>1, Smallest
<1> DEFINE At(U) == CHOOSE g : Sums(g, f, U)
           G == [s \in SUBSET T |-> IF s = {} THEN 0
                                    ELSE f[Pick(s)] + At(s \ {Pick(s)})[s \ {Pick(s)}]]
<1>2. ASSUME NEW s \in SUBSET T, s # {}
      PROVE  G[s \ {Pick(s)}] = At(s \ {Pick(s)})[s \ {Pick(s)}]
  <2> DEFINE r == s \ {Pick(s)}
             q == r \ {Pick(r)}
  <2>1. r \subseteq T /\ r # T /\ Sums(At(r), f, r)
    <3>1. r \subseteq T /\ r # T
      BY <1>2, PickIn
    <3>2. \E g : Sums(g, f, r)
      BY <1>1, <3>1
    <3> QED BY <3>1, <3>2
  <2>2. CASE r = {}
    BY <2>1, <2>2, SumsFact
  <2>3. CASE r # {}
    <3>1. q \subseteq r /\ q # T
      BY <2>1
    <3>2. \E g : Sums(g, f, q)
      BY <1>1, <2>1, <3>1
    <3>3. Sums(At(q), f, q)
      BY <3>2
    <3>4. IsFiniteSet(q)
      BY FS_Subset
    <3>5. At(q)[q] = At(r)[q]
      BY <2>1, <3>1, <3>3, <3>4, SumsUnique
    <3>6. At(r)[r] = f[Pick(r)] + At(r)[q]
      <4> HIDE DEF At
      <4>1. r \in SUBSET r
        OBVIOUS
      <4> HIDE DEF r
      <4> QED BY <2>1, <2>3, <4>1, SumsFact
    <3>7. G[r] = f[Pick(r)] + At(q)[q]
      BY <2>1, <2>3
    <3> QED BY <3>5, <3>6, <3>7
  <2> QED BY <2>2, <2>3
<1>3. Sums(G, f, T)
  <2>1. G = [s \in SUBSET T |-> IF s = {} THEN 0 ELSE f[Pick(s)] + G[s \ {Pick(s)}]]
    <3>1. \A s \in SUBSET T : s # {} => G[s] = f[Pick(s)] + G[s \ {Pick(s)}]
      BY <1>2
    <3>2. {} \in SUBSET T => G[{}] = 0
      OBVIOUS
    <3>3. G = [s \in SUBSET T |-> G[s]]
      OBVIOUS
    <3> HIDE DEF G
    <3> QED BY <3>1, <3>2, <3>3
  <2> HIDE DEF G
  <2> QED BY <2>1 DEF Sums
<1> QED BY <1>1, <1>3

(* The sum takes the picked element and goes on with the rest.             *)
LEMMA SumUnfold ==
    ASSUME NEW f, NEW S, IsFiniteSet(S)
    PROVE  /\ SumFunctionOnSet(f, {}) = 0
           /\ S # {} => SumFunctionOnSet(f, S) =
                            f[Pick(S)] + SumFunctionOnSet(f, S \ {Pick(S)})
<1> DEFINE At(U) == CHOOSE g : Sums(g, f, U)
<1>1. ASSUME NEW U, IsFiniteSet(U) PROVE Sums(At(U), f, U)
  BY <1>1, SumsExist
<1>2. \A U : SumFunctionOnSet(f, U) = At(U)[U]
  BY Unfold
<1>3. At({})[{}] = 0
  BY <1>1, SumsFact, FS_EmptySet
<1>4. ASSUME S # {} PROVE At(S)[S] = f[Pick(S)] + At(S \ {Pick(S)})[S \ {Pick(S)}]
  <2>1. IsFiniteSet(S \ {Pick(S)})
    BY FS_Subset
  <2>2. At(S)[S \ {Pick(S)}] = At(S \ {Pick(S)})[S \ {Pick(S)}]
    <3>1. Sums(At(S), f, S) /\ Sums(At(S \ {Pick(S)}), f, S \ {Pick(S)})
      BY <1>1, <2>1
    <3>2. S \ {Pick(S)} \subseteq S /\ S \ {Pick(S)} \subseteq S \ {Pick(S)}
      OBVIOUS
    <3> HIDE DEF At
    <3> QED BY <2>1, <3>1, <3>2, SumsUnique
  <2> QED BY <1>1, <1>4, <2>2, SumsFact
<1> QED BY <1>2, <1>3, <1>4

-----------------------------------------------------------------------------
(* No lines sum to zero.                                                   *)
LEMMA SumEmpty == ASSUME NEW f PROVE SumFunctionOnSet(f, {}) = 0
BY SumUnfold, FS_EmptySet

(* Integers sum to an integer.                                             *)
LEMMA SumType ==
    ASSUME NEW f, NEW S, IsFiniteSet(S), \A x \in S : f[x] \in Int
    PROVE  SumFunctionOnSet(f, S) \in Int
<1> DEFINE Bad == {T \in SUBSET S : SumFunctionOnSet(f, T) \notin Int}
<1> SUFFICES ASSUME S \in Bad PROVE FALSE
  OBVIOUS
<1>1. PICK T \in Bad : \A U \in Bad : ~ (U \subseteq T /\ U # T)
  <2>1. Bad \in SUBSET SUBSET S /\ Bad # {}
    OBVIOUS
  <2> HIDE DEF Bad
  <2> QED BY <2>1, Smallest
<1>2. IsFiniteSet(T)
  BY FS_Subset
<1>3. T # {}
  BY SumEmpty
<1>4. Pick(T) \in T
  BY <1>3, PickIn
<1>5. SumFunctionOnSet(f, T \ {Pick(T)}) \in Int
  BY <1>1, <1>4
<1>6. SumFunctionOnSet(f, T) = f[Pick(T)] + SumFunctionOnSet(f, T \ {Pick(T)})
  BY <1>2, <1>3, SumUnfold
<1> QED BY <1>4, <1>5, <1>6

(* Any element may be taken out of the sum, not only the picked one: the   *)
(* order in which rows are added does not matter.                          *)
LEMMA SumRemove ==
    ASSUME NEW f, NEW S, IsFiniteSet(S), \A y \in S : f[y] \in Int, NEW x \in S
    PROVE  SumFunctionOnSet(f, S) = f[x] + SumFunctionOnSet(f, S \ {x})
<1> DEFINE Sum(T) == SumFunctionOnSet(f, T)
           Bad == {T \in SUBSET S : \E z \in T : Sum(T) # f[z] + Sum(T \ {z})}
<1> SUFFICES ASSUME S \in Bad PROVE FALSE
  OBVIOUS
<1>1. PICK T \in Bad : \A U \in Bad : ~ (U \subseteq T /\ U # T)
  <2>1. Bad \in SUBSET SUBSET S /\ Bad # {}
    OBVIOUS
  <2> HIDE DEF Bad
  <2> QED BY <2>1, Smallest
<1>2. PICK z \in T : Sum(T) # f[z] + Sum(T \ {z})
  OBVIOUS
<1> DEFINE c == Pick(T)
<1>3. c \in T
  BY <1>2, PickIn
<1>4. \A U \in SUBSET S : IsFiniteSet(U) /\ Sum(U) \in Int
  <2> TAKE U \in SUBSET S
  <2>1. IsFiniteSet(U)
    BY FS_Subset
  <2> QED BY <2>1, SumType
<1>5. Sum(T) = f[c] + Sum(T \ {c})
  BY <1>2, <1>4, SumUnfold
<1>6. c # z
  BY <1>2, <1>5
<1>7. Sum(T \ {c}) = f[z] + Sum((T \ {c}) \ {z})
  <2>1. T \ {c} \notin Bad
    BY <1>1, <1>3
  <2> QED BY <1>2, <1>6, <2>1
<1>8. Sum(T \ {z}) = f[c] + Sum((T \ {z}) \ {c})
  <2>1. T \ {z} \notin Bad
    BY <1>1, <1>2
  <2> QED BY <1>3, <1>6, <2>1
<1>9. (T \ {c}) \ {z} = (T \ {z}) \ {c} /\ (T \ {c}) \ {z} \in SUBSET S
  OBVIOUS
<1>10. f[z] \in Int /\ f[c] \in Int /\ Sum((T \ {c}) \ {z}) \in Int
  BY <1>2, <1>3, <1>4, <1>9
<1> HIDE DEF Sum, c
<1> QED BY <1>2, <1>5, <1>7, <1>8, <1>9, <1>10

(* The sum depends on the function's values on the set only.               *)
LEMMA SumSame ==
    ASSUME NEW f, NEW g, NEW S, IsFiniteSet(S), \A x \in S : f[x] = g[x]
    PROVE  SumFunctionOnSet(f, S) = SumFunctionOnSet(g, S)
<1> DEFINE Bad == {T \in SUBSET S : SumFunctionOnSet(f, T) # SumFunctionOnSet(g, T)}
<1> SUFFICES ASSUME S \in Bad PROVE FALSE
  OBVIOUS
<1>1. PICK T \in Bad : \A U \in Bad : ~ (U \subseteq T /\ U # T)
  <2>1. Bad \in SUBSET SUBSET S /\ Bad # {}
    OBVIOUS
  <2> HIDE DEF Bad
  <2> QED BY <2>1, Smallest
<1>2. IsFiniteSet(T)
  BY FS_Subset
<1>3. T # {}
  BY SumEmpty
<1>4. Pick(T) \in T
  BY <1>3, PickIn
<1>5. SumFunctionOnSet(f, T \ {Pick(T)}) = SumFunctionOnSet(g, T \ {Pick(T)})
  BY <1>1, <1>4
<1>6. SumFunctionOnSet(f, T) = f[Pick(T)] + SumFunctionOnSet(f, T \ {Pick(T)})
  BY <1>2, <1>3, SumUnfold
<1>7. SumFunctionOnSet(g, T) = g[Pick(T)] + SumFunctionOnSet(g, T \ {Pick(T)})
  BY <1>2, <1>3, SumUnfold
<1> QED BY <1>4, <1>5, <1>6, <1>7

(* One value changes: the sum changes by as much (an UPDATE of one row).   *)
LEMMA SumChange ==
    ASSUME NEW f, NEW g, NEW S, IsFiniteSet(S), NEW x \in S,
           \A y \in S : f[y] \in Int, g[x] \in Int, \A y \in S \ {x} : g[y] = f[y]
    PROVE  SumFunctionOnSet(g, S) = SumFunctionOnSet(f, S) + g[x] - f[x]
<1>1. IsFiniteSet(S \ {x})
  BY FS_Subset
<1>2. SumFunctionOnSet(g, S \ {x}) = SumFunctionOnSet(f, S \ {x})
  BY <1>1, SumSame
<1>3. SumFunctionOnSet(f, S) = f[x] + SumFunctionOnSet(f, S \ {x})
  BY SumRemove
<1>4. SumFunctionOnSet(g, S) = g[x] + SumFunctionOnSet(g, S \ {x})
  <2>1. \A y \in S : g[y] \in Int
    OBVIOUS
  <2> QED BY <2>1, SumRemove
<1>5. SumFunctionOnSet(f, S \ {x}) \in Int
  BY <1>1, SumType
<1> QED BY <1>2, <1>3, <1>4, <1>5

(* Zeros sum to zero.                                                      *)
LEMMA SumZero ==
    ASSUME NEW f, NEW S, IsFiniteSet(S), \A x \in S : f[x] = 0
    PROVE  SumFunctionOnSet(f, S) = 0
<1> DEFINE Bad == {T \in SUBSET S : SumFunctionOnSet(f, T) # 0}
<1> SUFFICES ASSUME S \in Bad PROVE FALSE
  OBVIOUS
<1>1. PICK T \in Bad : \A U \in Bad : ~ (U \subseteq T /\ U # T)
  <2>1. Bad \in SUBSET SUBSET S /\ Bad # {}
    OBVIOUS
  <2> HIDE DEF Bad
  <2> QED BY <2>1, Smallest
<1>2. IsFiniteSet(T)
  BY FS_Subset
<1>3. T # {}
  BY SumEmpty
<1>4. Pick(T) \in T
  BY <1>3, PickIn
<1>5. SumFunctionOnSet(f, T \ {Pick(T)}) = 0
  BY <1>1, <1>4
<1>6. SumFunctionOnSet(f, T) = f[Pick(T)] + SumFunctionOnSet(f, T \ {Pick(T)})
  BY <1>2, <1>3, SumUnfold
<1> QED BY <1>4, <1>5, <1>6

(* The sum of two columns is the sum of their sums.                        *)
LEMMA SumPlus ==
    ASSUME NEW f, NEW g, NEW h, NEW S, IsFiniteSet(S),
           \A x \in S : f[x] \in Int /\ g[x] \in Int /\ h[x] = f[x] + g[x]
    PROVE  SumFunctionOnSet(h, S) = SumFunctionOnSet(f, S) + SumFunctionOnSet(g, S)
<1> DEFINE Bad == {T \in SUBSET S : SumFunctionOnSet(h, T)
                                      # SumFunctionOnSet(f, T) + SumFunctionOnSet(g, T)}
<1> SUFFICES ASSUME S \in Bad PROVE FALSE
  OBVIOUS
<1>1. PICK T \in Bad : \A U \in Bad : ~ (U \subseteq T /\ U # T)
  <2>1. Bad \in SUBSET SUBSET S /\ Bad # {}
    OBVIOUS
  <2> HIDE DEF Bad
  <2> QED BY <2>1, Smallest
<1>2. IsFiniteSet(T) /\ IsFiniteSet(T \ {Pick(T)})
  BY FS_Subset
<1>3. T # {}
  BY SumEmpty
<1>4. Pick(T) \in T
  BY <1>3, PickIn
<1>5. SumFunctionOnSet(h, T \ {Pick(T)}) =
          SumFunctionOnSet(f, T \ {Pick(T)}) + SumFunctionOnSet(g, T \ {Pick(T)})
  BY <1>1, <1>4
<1>6. \A k \in {f, g, h} : SumFunctionOnSet(k, T) =
          k[Pick(T)] + SumFunctionOnSet(k, T \ {Pick(T)})
  BY <1>2, <1>3, SumUnfold
<1>7. \A k \in {f, g} : SumFunctionOnSet(k, T \ {Pick(T)}) \in Int
  <2>1. \A x \in T : f[x] \in Int /\ g[x] \in Int
    OBVIOUS
  <2> QED BY <1>2, <2>1, SumType
<1>8. SumFunctionOnSet(h, T) = SumFunctionOnSet(f, T) + SumFunctionOnSet(g, T)
  <2> DEFINE r == T \ {Pick(T)}
  <2>1. f[Pick(T)] \in Int /\ g[Pick(T)] \in Int /\ h[Pick(T)] = f[Pick(T)] + g[Pick(T)]
    BY <1>4
  <2> QED BY <1>5, <1>6, <1>7, <2>1
<1> QED BY <1>8

(* Elements whose value is zero may be left out.                           *)
LEMMA SumOver ==
    ASSUME NEW f, NEW S, IsFiniteSet(S), NEW T \in SUBSET S,
           \A x \in S : f[x] \in Int, \A x \in S \ T : f[x] = 0
    PROVE  SumFunctionOnSet(f, S) = SumFunctionOnSet(f, T)
<1> DEFINE Bad == {U \in SUBSET S :
                      T \subseteq U /\ SumFunctionOnSet(f, U) # SumFunctionOnSet(f, T)}
<1> SUFFICES ASSUME S \in Bad PROVE FALSE
  OBVIOUS
<1>1. PICK U \in Bad : \A V \in Bad : ~ (V \subseteq U /\ V # U)
  <2>1. Bad \in SUBSET SUBSET S /\ Bad # {}
    OBVIOUS
  <2> HIDE DEF Bad
  <2> QED BY <2>1, Smallest
<1>2. PICK x \in U : x \notin T
  OBVIOUS
<1>3. IsFiniteSet(U) /\ IsFiniteSet(U \ {x})
  BY FS_Subset
<1>4. SumFunctionOnSet(f, U \ {x}) = SumFunctionOnSet(f, T)
  BY <1>1, <1>2
<1>5. SumFunctionOnSet(f, U) = f[x] + SumFunctionOnSet(f, U \ {x})
  BY <1>2, <1>3, SumRemove
<1>6. SumFunctionOnSet(f, U \ {x}) \in Int
  BY <1>3, SumType
<1> QED BY <1>2, <1>4, <1>5, <1>6

(* Two rows sum to the two together.                                       *)
LEMMA SumPair ==
    ASSUME NEW f, NEW x, NEW y, x # y, f[x] \in Int, f[y] \in Int
    PROVE  SumFunctionOnSet(f, {x, y}) = f[x] + f[y]
<1>1. IsFiniteSet({x, y}) /\ IsFiniteSet({y})
  <2>1. {x, y} = {y} \cup {x}
    OBVIOUS
  <2>2. IsFiniteSet({y})
    BY FS_Singleton
  <2> QED BY <2>1, <2>2, FS_AddElement
<1>2. SumFunctionOnSet(f, {x, y}) = f[x] + SumFunctionOnSet(f, {x, y} \ {x})
  BY <1>1, SumRemove
<1>3. SumFunctionOnSet(f, {y}) = f[y] + SumFunctionOnSet(f, {y} \ {y})
  BY <1>1, SumRemove
<1>4. {x, y} \ {x} = {y} /\ {y} \ {y} = {}
  OBVIOUS
<1>5. SumFunctionOnSet(f, {y} \ {y}) = 0
  BY <1>4, SumEmpty
<1>6. SumFunctionOnSet(f, {y}) = f[y]
  BY <1>3, <1>5
<1>7. SumFunctionOnSet(f, {x, y}) = f[x] + SumFunctionOnSet(f, {y})
  BY <1>2, <1>4
<1> QED BY <1>6, <1>7

(* One row is added.                                                       *)
LEMMA SumAdd ==
    ASSUME NEW f, NEW S, IsFiniteSet(S), \A y \in S : f[y] \in Int,
           NEW x, x \notin S, f[x] \in Int
    PROVE  SumFunctionOnSet(f, S \cup {x}) = SumFunctionOnSet(f, S) + f[x]
<1>1. IsFiniteSet(S \cup {x})
  BY FS_AddElement
<1>2. SumFunctionOnSet(f, S \cup {x}) = f[x] + SumFunctionOnSet(f, (S \cup {x}) \ {x})
  BY <1>1, SumRemove
<1>3. (S \cup {x}) \ {x} = S
  OBVIOUS
<1>4. SumFunctionOnSet(f, S) \in Int
  BY SumType
<1>5. SumFunctionOnSet(f, S \cup {x}) = f[x] + SumFunctionOnSet(f, S)
  BY <1>2, <1>3
<1> QED BY <1>4, <1>5

(* Amounts that are not negative have a sum that is not negative.          *)
LEMMA SumNat ==
    ASSUME NEW f, NEW S, IsFiniteSet(S), \A x \in S : f[x] \in Nat
    PROVE  SumFunctionOnSet(f, S) \in Nat
<1> DEFINE Bad == {T \in SUBSET S : SumFunctionOnSet(f, T) \notin Nat}
<1> SUFFICES ASSUME S \in Bad PROVE FALSE
  OBVIOUS
<1>1. PICK T \in Bad : \A U \in Bad : ~ (U \subseteq T /\ U # T)
  <2>1. Bad \in SUBSET SUBSET S /\ Bad # {}
    OBVIOUS
  <2> HIDE DEF Bad
  <2> QED BY <2>1, Smallest
<1>2. IsFiniteSet(T)
  BY FS_Subset
<1>3. T # {}
  BY SumEmpty
<1>4. Pick(T) \in T
  BY <1>3, PickIn
<1>5. SumFunctionOnSet(f, T \ {Pick(T)}) \in Nat
  BY <1>1, <1>4
<1>6. SumFunctionOnSet(f, T) = f[Pick(T)] + SumFunctionOnSet(f, T \ {Pick(T)})
  BY <1>2, <1>3, SumUnfold
<1> QED BY <1>4, <1>5, <1>6

(* One row sums to itself.                                                 *)
LEMMA SumOne ==
    ASSUME NEW f, NEW x, f[x] \in Int
    PROVE  SumFunctionOnSet(f, {x}) = f[x]
<1>1. SumFunctionOnSet(f, {x}) = f[x] + SumFunctionOnSet(f, {x} \ {x})
  <2>1. IsFiniteSet({x})
    BY FS_Singleton
  <2> QED BY <2>1, SumRemove
<1>2. {x} \ {x} = {}
  OBVIOUS
<1>3. SumFunctionOnSet(f, {x} \ {x}) = 0
  BY <1>2, SumEmpty
<1> QED BY <1>1, <1>3

(* Rows that have nothing in common sum to the two sums together.          *)
LEMMA SumUnion ==
    ASSUME NEW f, NEW S, IsFiniteSet(S), NEW T, IsFiniteSet(T), S \cap T = {},
           \A x \in S \cup T : f[x] \in Int
    PROVE  SumFunctionOnSet(f, S \cup T) = SumFunctionOnSet(f, S) + SumFunctionOnSet(f, T)
<1> DEFINE U == S \cup T
           g == [x \in U |-> IF x \in S THEN f[x] ELSE 0]
           h == [x \in U |-> IF x \in T THEN f[x] ELSE 0]
<1>1. IsFiniteSet(U)
  BY FS_Union
<1>2. \A x \in U : g[x] \in Int /\ h[x] \in Int /\ f[x] = g[x] + h[x]
  OBVIOUS
<1>3. \A x \in S : g[x] = f[x]
  OBVIOUS
<1>4. \A x \in T : h[x] = f[x]
  OBVIOUS
<1>5. S \in SUBSET U /\ \A x \in U \ S : g[x] = 0
  OBVIOUS
<1>6. T \in SUBSET U /\ \A x \in U \ T : h[x] = 0
  OBVIOUS
<1> HIDE DEF U, g, h
<1>7. SumFunctionOnSet(f, U) = SumFunctionOnSet(g, U) + SumFunctionOnSet(h, U)
  BY <1>1, <1>2, SumPlus
<1>8. SumFunctionOnSet(g, U) = SumFunctionOnSet(g, S)
  <2>1. \A x \in U : g[x] \in Int
    BY <1>2
  <2> QED BY <1>1, <1>5, <2>1, SumOver
<1>9. SumFunctionOnSet(h, U) = SumFunctionOnSet(h, T)
  <2>1. \A x \in U : h[x] \in Int
    BY <1>2
  <2> QED BY <1>1, <1>6, <2>1, SumOver
<1>10. SumFunctionOnSet(g, S) = SumFunctionOnSet(f, S)
  BY <1>3, SumSame
<1>11. SumFunctionOnSet(h, T) = SumFunctionOnSet(f, T)
  BY <1>4, SumSame
<1> QED BY <1>7, <1>8, <1>9, <1>10, <1>11 DEF U

(* What a function makes of a finite set is finite.                        *)
LEMMA ImageFinite ==
    ASSUME NEW h, NEW S, IsFiniteSet(S)
    PROVE  IsFiniteSet({h[x] : x \in S})
<1> DEFINE Image(U) == {h[x] : x \in U}
           Bad == {U \in SUBSET S : ~ IsFiniteSet(Image(U))}
<1> SUFFICES ASSUME S \in Bad PROVE FALSE
  OBVIOUS
<1>1. PICK U \in Bad : \A V \in Bad : ~ (V \subseteq U /\ V # U)
  <2>1. Bad \in SUBSET SUBSET S /\ Bad # {}
    OBVIOUS
  <2> HIDE DEF Bad
  <2> QED BY <2>1, Smallest
<1>2. PICK x \in U : TRUE
  <2>1. ASSUME U = {} PROVE FALSE
    <3>1. Image(U) = {}
      BY <2>1
    <3> QED BY <3>1, FS_EmptySet
  <2> QED BY <2>1
<1>3. IsFiniteSet(Image(U \ {x}))
  <2>1. U \ {x} \in SUBSET S /\ U \ {x} \subseteq U /\ U \ {x} # U
    BY <1>2
  <2>2. U \ {x} \notin Bad
    <3> HIDE DEF Bad
    <3> QED BY <1>1, <2>1
  <2> HIDE DEF Image
  <2> QED BY <2>1, <2>2
<1>4. Image(U) = Image(U \ {x}) \cup {h[x]}
  OBVIOUS
<1>5. IsFiniteSet(Image(U \ {x}) \cup {h[x]})
  <2> DEFINE T == Image(U \ {x})
  <2>1. IsFiniteSet(T)
    BY <1>3
  <2> HIDE DEF T
  <2>2. IsFiniteSet(T \cup {h[x]})
    BY <2>1, FS_AddElement
  <2> QED BY <2>2 DEF T
<1> QED BY <1>4, <1>5

(* A sum does not depend on what its rows are called.                      *)
LEMMA SumImage ==
    ASSUME NEW f, NEW g, NEW h, NEW S, IsFiniteSet(S),
           \A x \in S : f[x] \in Int /\ g[h[x]] = f[x],
           \A x, y \in S : h[x] = h[y] => x = y
    PROVE  SumFunctionOnSet(g, {h[x] : x \in S}) = SumFunctionOnSet(f, S)
<1> DEFINE Image(U) == {h[x] : x \in U}
           Bad == {U \in SUBSET S : SumFunctionOnSet(g, Image(U)) # SumFunctionOnSet(f, U)}
<1> SUFFICES ASSUME S \in Bad PROVE FALSE
  OBVIOUS
<1>1. PICK U \in Bad : \A V \in Bad : ~ (V \subseteq U /\ V # U)
  <2>1. Bad \in SUBSET SUBSET S /\ Bad # {}
    OBVIOUS
  <2> HIDE DEF Bad
  <2> QED BY <2>1, Smallest
<1>2. IsFiniteSet(U)
  BY FS_Subset
<1>3. PICK x \in U : TRUE
  <2>1. ASSUME U = {} PROVE FALSE
    <3>1. Image(U) = {}
      BY <2>1
    <3> QED BY <2>1, <3>1, SumEmpty
  <2> QED BY <2>1
<1>4. SumFunctionOnSet(g, Image(U \ {x})) = SumFunctionOnSet(f, U \ {x})
  BY <1>1, <1>3
<1>5. Image(U \ {x}) = Image(U) \ {h[x]}
  OBVIOUS
<1>6. SumFunctionOnSet(f, U) = f[x] + SumFunctionOnSet(f, U \ {x})
  <2>1. \A y \in U : f[y] \in Int
    OBVIOUS
  <2> QED BY <1>2, <2>1, SumRemove
<1>7. SumFunctionOnSet(g, Image(U)) = g[h[x]] + SumFunctionOnSet(g, Image(U) \ {h[x]})
  <2> DEFINE T == Image(U)
  <2>1. IsFiniteSet(T)
    BY <1>2, ImageFinite
  <2>2. h[x] \in T /\ \A y \in T : g[y] \in Int
    OBVIOUS
  <2> HIDE DEF T
  <2>3. SumFunctionOnSet(g, T) = g[h[x]] + SumFunctionOnSet(g, T \ {h[x]})
    BY <2>1, <2>2, SumRemove
  <2> QED BY <2>3 DEF T
<1> QED BY <1>4, <1>5, <1>6, <1>7
=============================================================================

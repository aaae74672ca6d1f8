----------------------------- MODULE SumProofs -----------------------------
(***************************************************************************)
(* Induction up to a number, and what SumFunctionOnSet computes, for every *)
(* finite set.  The balances of the vault, the charges of a note and the   *)
(* checksum of a digest are such sums, over sets that grow and shrink by   *)
(* an element and functions that change at a point.                        *)
(*                                                                         *)
(* The sum is a recursive function that takes the elements in an arbitrary *)
(* order.  It is compared with a function that is additive in every order, *)
(* whose existence and uniqueness come by induction; an induction here is  *)
(* the choice of a smallest counterexample among the subsets of the set.   *)
(***************************************************************************)
EXTENDS Integers, Functions, FiniteSetTheorems, WellFoundedInduction, TLAPS

\* Induction up to a number: a set that holds 0 and, with a number, the next
\* one holds them all.
LEMMA Climbing ==
    ASSUME NEW n \in Nat, NEW Good, 0 \in Good,
           \A k \in 1 .. n : k - 1 \in Good => k \in Good
    PROVE  \A k \in 0 .. n : k \in Good
<1> DEFINE Bad == {k \in 0 .. n : k \notin Good}
<1> SUFFICES ASSUME Bad # {} PROVE FALSE
    OBVIOUS
<1>1. PICK k \in Bad : \A j \in Bad : <<j, k>> \notin OpToRel(<, Nat)
    <2>1. Bad \in SUBSET Nat
        OBVIOUS
    <2> HIDE DEF Bad
    <2> QED
        BY <2>1, NatLessThanWellFounded, WFMin
<1> HIDE DEF Bad
<1>2. \A j \in Bad : ~(j < k)
    <2>1. Bad \subseteq Nat
        BY DEF Bad
    <2>2. \A j \in Nat : j < k => <<j, k>> \in OpToRel(<, Nat)
        BY <1>1, <2>1 DEF OpToRel
    <2> QED
        BY <1>1, <2>1, <2>2
<1>3. k \in 0 .. n /\ k \notin Good /\ k # 0
    BY <1>1 DEF Bad
<1>4. k - 1 \in 0 .. n /\ k - 1 < k
    BY <1>3
<1>5. k - 1 \notin Bad
    BY <1>2, <1>4
<1>6. k - 1 \in Good
    BY <1>4, <1>5 DEF Bad
<1>7. k \in 1 .. n
    BY <1>3
<1> QED
    BY <1>3, <1>6, <1>7

\* f sums g over every subset of S.
Additive(f, g, S) ==
    /\ f \in [SUBSET S -> Int]
    /\ \A x \in S : g[x] \in Int
    /\ f[{}] = 0
    /\ \A T \in SUBSET S : \A x \in T : f[T] = f[T \ {x}] + g[x]

\* A set of subsets of a finite set has a smallest element.
LEMMA SmallestSubset ==
    ASSUME NEW S, IsFiniteSet(S), NEW Bad \in SUBSET SUBSET S, Bad # {}
    PROVE  \E T \in Bad : \A U \in Bad : U \subseteq T => U = T
<1>1. IsWellFoundedOn(StrictSubsetOrdering(S), SUBSET S)
    BY FS_StrictSubsetOrderingWellFounded, FS_FiniteSubsetsOfFinite
<1>2. PICK T \in Bad : \A U \in Bad : <<U, T>> \notin StrictSubsetOrdering(S)
    BY <1>1, WFMin
<1> QED
    BY <1>2 DEF StrictSubsetOrdering

\* One element more.
LEMMA AdditiveExtends ==
    ASSUME NEW S, NEW x, x \notin S, NEW g, g[x] \in Int,
           NEW f, Additive(f, g, S)
    PROVE  \E h : Additive(h, g, S \cup {x})
<1> DEFINE R == S \cup {x}
           h == [T \in SUBSET R |->
                   f[T \ {x}] + (IF x \in T THEN g[x] ELSE 0)]
<1>1. \A T \in SUBSET R : T \ {x} \in SUBSET S
    OBVIOUS
<1>2. f \in [SUBSET S -> Int]
    BY DEF Additive
<1>3. h \in [SUBSET R -> Int]
    BY <1>1, <1>2
<1>4. h[{}] = 0
    <2>1. {} \in SUBSET R /\ {} \ {x} = {}
        OBVIOUS
    <2> QED
        BY <2>1 DEF Additive
<1>5. ASSUME NEW T \in SUBSET R, NEW y \in T
      PROVE  h[T] = h[T \ {y}] + g[y]
    <2>1. T \ {y} \in SUBSET R
        OBVIOUS
    <2>2. CASE y = x
        <3>1. (T \ {y}) \ {x} = T \ {x}
            BY <2>2
        <3>2. h[T] = f[T \ {x}] + g[x]
            BY <2>2
        <3>3. h[T \ {y}] = f[T \ {x}] + 0
            BY <2>1, <2>2, <3>1
        <3> QED
            BY <1>1, <1>2, <2>2, <3>2, <3>3
    <2>3. CASE y # x
        <3>1. /\ (T \ {y}) \ {x} = (T \ {x}) \ {y}
              /\ y \in T \ {x}
              /\ T \ {x} \in SUBSET S
              /\ x \in T \ {y} <=> x \in T
            BY <2>3
        <3>2. f[T \ {x}] = f[(T \ {x}) \ {y}] + g[y]
            BY <3>1 DEF Additive
        <3>3. h[T \ {y}] = f[(T \ {x}) \ {y}]
                               + (IF x \in T THEN g[x] ELSE 0)
            BY <2>1, <3>1
        <3>4. /\ f[T \ {x}] \in Int /\ f[(T \ {x}) \ {y}] \in Int
              /\ g[y] \in Int
            BY <3>1, <1>2 DEF Additive
        <3> QED
            BY <3>2, <3>3, <3>4
    <2> QED
        BY <2>2, <2>3
<1> HIDE DEF h
<1>6. Additive(h, g, R)
    BY <1>3, <1>4, <1>5 DEF Additive
<1> QED
    BY <1>6

\* Every finite set has one.
LEMMA AdditiveExists ==
    ASSUME NEW S, IsFiniteSet(S), NEW g, \A x \in S : g[x] \in Int
    PROVE  \E f : Additive(f, g, S)
<1> DEFINE Bad == {T \in SUBSET S : ~ \E f : Additive(f, g, T)}
<1> SUFFICES ASSUME S \in Bad PROVE FALSE
    OBVIOUS
<1>1. PICK T \in Bad : \A U \in Bad : U \subseteq T => U = T
    <2> HIDE DEF Bad
    <2>1. Bad \in SUBSET SUBSET S
        BY DEF Bad
    <2> QED
        BY <2>1, SmallestSubset
<1>2. CASE T = {}
    <2> DEFINE f == [U \in SUBSET {} |-> 0]
    <2>1. Additive(f, g, {})
        BY DEF Additive
    <2> QED
        BY <1>1, <1>2, <2>1
<1>3. CASE T # {}
    <2>1. PICK x \in T : TRUE
        BY <1>3
    <2>2. T \ {x} \in SUBSET S /\ T \ {x} \subseteq T /\ T \ {x} # T
        BY <1>1, <2>1
    <2>3. PICK f : Additive(f, g, T \ {x})
        BY <1>1, <2>2
    <2>4. /\ x \notin T \ {x} /\ (T \ {x}) \cup {x} = T
          /\ g[x] \in Int
        BY <1>1, <2>1
    <2>5. \E h : Additive(h, g, (T \ {x}) \cup {x})
        BY <2>3, <2>4, AdditiveExtends
    <2>6. \E h : Additive(h, g, T)
        BY <2>4, <2>5
    <2> QED
        BY <1>1, <2>6
<1> QED
    BY <1>2, <1>3

\* What SumFunctionOnSet is, without operators for arguments.
SumStep(g, S, f) ==
    [s \in SUBSET S |->
        IF s = {} THEN 0
        ELSE g[CHOOSE x \in s : TRUE] + f[s \ {CHOOSE x \in s : TRUE}]]

\* The library's sum is a fixpoint of SumStep.
LEMMA SumUnfolds ==
    ASSUME NEW g, NEW S
    PROVE  SumFunctionOnSet(g, S) = (CHOOSE f : f = SumStep(g, S, f))[S]
BY DEF SumFunctionOnSet, FoldFunctionOnSet, MapThenFoldSet, SumStep

\* An additive function satisfies the recursion: no order is special.
LEMMA AdditiveIsFixpoint ==
    ASSUME NEW S, NEW g, NEW f, Additive(f, g, S)
    PROVE  f = SumStep(g, S, f)
<1>1. f = [s \in SUBSET S |-> f[s]]
    BY DEF Additive
<1>2. ASSUME NEW s \in SUBSET S
      PROVE  f[s] = IF s = {} THEN 0
                    ELSE g[CHOOSE x \in s : TRUE]
                           + f[s \ {CHOOSE x \in s : TRUE}]
    <2>1. CASE s = {}
        BY <2>1 DEF Additive
    <2>2. CASE s # {}
        <3> DEFINE c == CHOOSE x \in s : TRUE
        <3>1. c \in s
            BY <2>2
        <3> HIDE DEF c
        <3>2. /\ f[s] = f[s \ {c}] + g[c]
              /\ f[s \ {c}] \in Int /\ g[c] \in Int
            BY <3>1 DEF Additive
        <3>3. f[s] = g[c] + f[s \ {c}]
            BY <3>2
        <3> QED
            BY <2>2, <3>3 DEF c
    <2> QED
        BY <2>1, <2>2
<1> QED
    BY <1>1, <1>2 DEF SumStep

\* The sum is the value of any additive function.
LEMMA SumIsAdditive ==
    ASSUME NEW S, IsFiniteSet(S), NEW g, NEW f, Additive(f, g, S)
    PROVE  SumFunctionOnSet(g, S) = f[S]
<1> DEFINE it == CHOOSE k : k = SumStep(g, S, k)
           Bad == {T \in SUBSET S : it[T] # f[T]}
<1>1. f = SumStep(g, S, f)
    BY AdditiveIsFixpoint
<1>2. it = SumStep(g, S, it)
    BY <1>1
<1>3. SumFunctionOnSet(g, S) = it[S]
    BY SumUnfolds
<1> HIDE DEF it
<1>4. Bad = {}
    <2> SUFFICES ASSUME Bad # {} PROVE FALSE
        OBVIOUS
    <2>1. PICK T \in Bad : \A U \in Bad : U \subseteq T => U = T
        <3> HIDE DEF Bad
        <3>1. Bad \in SUBSET SUBSET S
            BY DEF Bad
        <3> QED
            BY <3>1, SmallestSubset
    <2>2. T # {}
        <3>1. {} \in SUBSET S /\ it[{}] = 0 /\ f[{}] = 0
            BY <1>1, <1>2 DEF SumStep
        <3> QED
            BY <2>1, <3>1
    <2> DEFINE c == CHOOSE x \in T : TRUE
    <2>3. c \in T
        BY <2>2
    <2>4. /\ it[T] = g[c] + it[T \ {c}]
          /\ f[T] = g[c] + f[T \ {c}]
        BY <1>1, <1>2, <2>1, <2>2 DEF SumStep
    <2>5. T \ {c} \in SUBSET S /\ T \ {c} \subseteq T /\ T \ {c} # T
        BY <2>1, <2>3
    <2>6. it[T \ {c}] = f[T \ {c}]
        BY <2>1, <2>5
    <2> QED
        BY <2>1, <2>4, <2>6
<1> QED
    BY <1>3, <1>4

-----------------------------------------------------------------------------
(* What the other proofs use.                                              *)

\* Nothing sums to nothing.
LEMMA SumEmpty == ASSUME NEW g PROVE SumFunctionOnSet(g, {}) = 0
<1>1. \A x \in {} : g[x] \in Int
    OBVIOUS
<1>2. PICK f : Additive(f, g, {})
    BY <1>1, AdditiveExists, FS_EmptySet
<1> QED
    BY <1>2, SumIsAdditive, FS_EmptySet DEF Additive

\* One element more adds its value, whichever it is.
LEMMA SumAdd ==
    ASSUME NEW S, IsFiniteSet(S), NEW x, x \notin S, NEW g,
           \A y \in S \cup {x} : g[y] \in Int
    PROVE  /\ SumFunctionOnSet(g, S \cup {x})
                 = SumFunctionOnSet(g, S) + g[x]
           /\ SumFunctionOnSet(g, S) \in Int
<1> DEFINE R == S \cup {x}
<1>1. IsFiniteSet(R)
    BY FS_AddElement
<1>2. PICK f : Additive(f, g, R)
    BY <1>1, AdditiveExists
<1> DEFINE h == [T \in SUBSET S |-> f[T]]
<1>3. Additive(h, g, S)
    BY <1>2 DEF Additive
<1>4. SumFunctionOnSet(g, R) = f[R] /\ SumFunctionOnSet(g, S) = h[S]
    BY <1>1, <1>2, <1>3, SumIsAdditive
<1>5. R \ {x} = S /\ R \in SUBSET R /\ x \in R
    OBVIOUS
<1>6. f[R] = f[S] + g[x] /\ f[S] \in Int
    BY <1>2, <1>5 DEF Additive
<1> QED
    BY <1>4, <1>6

\* A sum of integers is an integer.
LEMMA SumInt ==
    ASSUME NEW S, IsFiniteSet(S), NEW g, \A x \in S : g[x] \in Int
    PROVE  SumFunctionOnSet(g, S) \in Int
<1>1. PICK f : Additive(f, g, S)
    BY AdditiveExists
<1>2. f[S] \in Int
    BY <1>1 DEF Additive
<1> QED
    BY <1>1, <1>2, SumIsAdditive

\* One element is one term.
LEMMA SumSplit ==
    ASSUME NEW S, IsFiniteSet(S), NEW x \in S, NEW g, \A y \in S : g[y] \in Int
    PROVE  /\ SumFunctionOnSet(g, S) = SumFunctionOnSet(g, S \ {x}) + g[x]
           /\ SumFunctionOnSet(g, S \ {x}) \in Int
<1>1. /\ IsFiniteSet(S \ {x}) /\ x \notin S \ {x}
      /\ (S \ {x}) \cup {x} = S
    BY FS_RemoveElement
<1> QED
    BY <1>1, SumAdd

\* The sum depends on the values at the elements only.
LEMMA SumSame ==
    ASSUME NEW S, IsFiniteSet(S), NEW g, NEW h, \A x \in S : g[x] = h[x],
           \A x \in S : g[x] \in Int
    PROVE  SumFunctionOnSet(g, S) = SumFunctionOnSet(h, S)
<1>1. PICK f : Additive(f, g, S)
    BY AdditiveExists
<1>2. Additive(f, h, S)
    BY <1>1 DEF Additive
<1> QED
    BY <1>1, <1>2, SumIsAdditive

============================================================================
